---------------------------- MODULE Certificates ----------------------------
(***************************************************************************)
(* How the replicas of the edge API come to one certificate authority      *)
(* (pkg/mtls, cmd/httpapi/main.go).  Each replica gets or creates the CA   *)
(* secret, gets or creates the host certificate, creates a registration    *)
(* certificate and serves; afterwards it signs with the CA it remembers    *)
(* (latestCA) and checks clients against the chain fixed when it started.  *)
(* Reads come from an informer cache, so a replica may not see the secret  *)
(* it has just created.                                                    *)
(*                                                                         *)
(* Keys and signatures are abstracted to the identity of the CA: a         *)
(* certificate is a record with its issuer.                                *)
(***************************************************************************)
EXTENDS Naturals, FiniteSets

CONSTANTS
    Replicas,    \* pods of the edge API
    CAs,         \* identities of the key pairs that may be generated
    None,        \* no secret, no certificate
    MaxDeletes,  \* bound: deletions of the host secret by users
    MaxCrashes,  \* bound: crashes of replicas
    MaxFaults,   \* bound: calls to the API server that fail
    MaxSigned    \* bound: client certificates signed

ASSUME NoneAssumption == None \notin CAs
ASSUME BoundsAssumption ==
    MaxDeletes \in Nat /\ MaxCrashes \in Nat /\ MaxFaults \in Nat /\ MaxSigned \in Nat

\* A client certificate: a device's own one or one for registration.
Certs == [issuer : CAs, kind : {"device", "register"}, expired : BOOLEAN]

VARIABLES
    ca,        \* the secret flotta-ca: a CA or None
    host,      \* the secret with the host certificate: its issuer or None
    view,      \* view[r]: both secrets as the cache of r has them
    pc,        \* pc[r]: what main of r does next
    caller,    \* caller[r]: who called GetCACertificate
    made,      \* made[r]: the CA r has generated and not stored yet
    latestCA,  \* latestCA[r]: the CA r signs with
    chain,     \* chain[r]: the CA r accepts clients of
    server,    \* server[r]: the issuer of the certificate r serves with
    issued,    \* client certificates handed out or stored
    deletes, crashes, faults, signed   \* used up bounds

vars == <<ca, host, view, pc, caller, made, latestCA, chain, server, issued,
          deletes, crashes, faults, signed>>

process == <<caller, made, latestCA, chain, server>>
bounds  == <<deletes, crashes, faults, signed>>

Init ==
    /\ ca = None /\ host = None
    /\ view = [r \in Replicas |-> [ca |-> None, host |-> None]]
    /\ pc = [r \in Replicas |-> "down"]
    /\ caller = [r \in Replicas |-> "none"]
    /\ made = [r \in Replicas |-> None]
    /\ latestCA = [r \in Replicas |-> None]
    /\ chain = [r \in Replicas |-> None]
    /\ server = [r \in Replicas |-> None]
    /\ issued = {}
    /\ deletes = 0 /\ crashes = 0 /\ faults = 0 /\ signed = 0

GoTo(r, step) == pc' = [pc EXCEPT ![r] = step]

\* os.Exit or a panic: what the process remembered is lost.
Exit(r) ==
    /\ GoTo(r, "down")
    /\ caller' = [caller EXCEPT ![r] = "none"]
    /\ made' = [made EXCEPT ![r] = None]
    /\ latestCA' = [latestCA EXCEPT ![r] = None]
    /\ chain' = [chain EXCEPT ![r] = None]
    /\ server' = [server EXCEPT ![r] = None]

-----------------------------------------------------------------------------
(* The environment.                                                        *)

\* Mutant: the first read does not wait for the cache.
StartUnsynced(r) ==
    /\ pc[r] = "down"
    /\ view' = [view EXCEPT ![r] = [ca |-> None, host |-> None]]
    /\ GoTo(r, "ca")
    /\ caller' = [caller EXCEPT ![r] = "init"]
    /\ UNCHANGED <<ca, host, made, latestCA, chain, server, issued, bounds>>

\* The cluster starts the pod again with a cache of its own.  The cache is
\* filled by the first read, which waits for that: WaitForCacheSync in
\* getClient comes before there is an informer to wait for.
Start(r) ==
    /\ pc[r] = "down"
    /\ view' = [view EXCEPT ![r] = [ca |-> ca, host |-> host]]
    /\ GoTo(r, "ca")
    /\ caller' = [caller EXCEPT ![r] = "init"]
    /\ UNCHANGED <<ca, host, made, latestCA, chain, server, issued, bounds>>

\* The cache catches up.
Sync(r) ==
    /\ pc[r] # "down" /\ view[r] # [ca |-> ca, host |-> host]
    /\ view' = [view EXCEPT ![r] = [ca |-> ca, host |-> host]]
    /\ UNCHANGED <<ca, host, pc, process, issued, bounds>>

\* A user deletes the host secret, to have it issued again.
DeleteHost ==
    /\ deletes < MaxDeletes /\ host # None
    /\ deletes' = deletes + 1
    /\ host' = None
    /\ UNCHANGED <<ca, view, pc, process, issued, crashes, faults, signed>>

\* The process ends: killed, or by a panic of the MQTT handler.
Crash(r) ==
    /\ crashes < MaxCrashes /\ pc[r] # "down"
    /\ crashes' = crashes + 1
    /\ Exit(r)
    /\ UNCHANGED <<ca, host, view, issued, deletes, faults, signed>>

\* A call of main fails: main exits.
CallFails(r) ==
    /\ faults < MaxFaults /\ pc[r] \notin {"down", "serving"}
    /\ faults' = faults + 1
    /\ Exit(r)
    /\ UNCHANGED <<ca, host, view, issued, deletes, crashes, signed>>

\* Time passes the end of a certificate.
Expire(cert) ==
    /\ cert \in issued /\ ~cert.expired
    /\ issued' = (issued \ {cert}) \cup {[cert EXCEPT !.expired = TRUE]}
    /\ UNCHANGED <<ca, host, view, pc, process, bounds>>

-----------------------------------------------------------------------------
(* GetCACertificate, called from InitCertificates ("init"), from           *)
(* GetServerCertificate ("host") and from CreateRegistrationCertificate    *)
(* ("reg").                                                                *)

\* Where the caller goes on, and what it keeps of the answer.
Answer(r, c) ==
    /\ latestCA' = [latestCA EXCEPT ![r] = c]
    /\ chain' = IF caller[r] = "init" THEN [chain EXCEPT ![r] = c] ELSE chain
    /\ GoTo(r, CASE caller[r] = "init" -> "host"
                 [] caller[r] = "host" -> "storeHost"
                 [] OTHER              -> "storeReg")

\* The secret is there: it is parsed and remembered.
FoundCA(r) ==
    /\ pc[r] = "ca" /\ view[r].ca # None
    /\ Answer(r, view[r].ca)
    /\ UNCHANGED <<ca, host, view, caller, made, server, issued, bounds>>

Unused(c) ==
    /\ c \notin {ca, host}
    /\ \A r \in Replicas : c \notin {made[r], latestCA[r], chain[r], server[r], view[r].ca, view[r].host}
    /\ \A cert \in issued : cert.issuer # c

\* The cache has no secret: a new key pair is generated.
GenerateCA(r) ==
    /\ pc[r] = "ca" /\ view[r].ca = None
    /\ \E c \in CAs : Unused(c) /\ made' = [made EXCEPT ![r] = c]
    /\ GoTo(r, "storeCA")
    /\ UNCHANGED <<ca, host, view, caller, latestCA, chain, server, issued, bounds>>

StoreCAUnchecked(r) ==
    /\ pc[r] = "storeCA"
    /\ ca' = IF ca = None THEN made[r] ELSE ca
    /\ Answer(r, made[r])
    /\ made' = [made EXCEPT ![r] = None]
    /\ UNCHANGED <<host, view, caller, server, issued, bounds>>

\* Create: whoever is second is told AlreadyExists, and main exits.
StoreCA(r) ==
    /\ pc[r] = "storeCA"
    /\ \/ /\ ca = None
          /\ ca' = made[r]
          /\ Answer(r, made[r])
          /\ made' = [made EXCEPT ![r] = None]
          /\ UNCHANGED <<caller, server>>
       \/ /\ ca # None
          /\ Exit(r)
          /\ UNCHANGED ca
    /\ UNCHANGED <<host, view, issued, bounds>>

-----------------------------------------------------------------------------
(* GetServerCertificate and CreateRegistrationClientCerts.                 *)

\* GetServerCertificate: the secret's certificate, or a new one by the CA.
GetHost(r) ==
    /\ pc[r] = "host"
    /\ GoTo(r, "ca")
    /\ \/ /\ view[r].host # None
          /\ server' = [server EXCEPT ![r] = view[r].host]
          /\ caller' = [caller EXCEPT ![r] = "reg"]
       \/ /\ view[r].host = None
          /\ caller' = [caller EXCEPT ![r] = "host"]
          /\ UNCHANGED server
    /\ UNCHANGED <<ca, host, view, made, latestCA, chain, issued, bounds>>

StoreHostForgotten(r) ==
    /\ pc[r] = "storeHost"
    /\ GoTo(r, "ca")
    /\ host' = IF host = None THEN latestCA[r] ELSE host
    /\ caller' = [caller EXCEPT ![r] = "reg"]
    /\ UNCHANGED <<ca, view, made, latestCA, chain, server, issued, bounds>>

\* The new host certificate is stored; a second one is refused.
StoreHost(r) ==
    /\ pc[r] = "storeHost"
    /\ \/ /\ host = None
          /\ host' = latestCA[r]
          /\ server' = [server EXCEPT ![r] = latestCA[r]]
          /\ caller' = [caller EXCEPT ![r] = "reg"]
          /\ GoTo(r, "ca")
          /\ UNCHANGED <<made, latestCA, chain>>
       \/ /\ host # None
          /\ Exit(r)
          /\ UNCHANGED host
    /\ UNCHANGED <<ca, view, issued, bounds>>

\* The registration certificate goes into a secret with a random name, and
\* the replica starts to serve.
StoreRegistration(r) ==
    /\ pc[r] = "storeReg"
    /\ issued' = issued \cup {[issuer |-> latestCA[r], kind |-> "register", expired |-> FALSE]}
    /\ GoTo(r, "serving")
    /\ caller' = [caller EXCEPT ![r] = "none"]
    /\ UNCHANGED <<ca, host, view, made, latestCA, chain, server, bounds>>

SignCSREarly(r) ==
    /\ pc[r] # "down" /\ signed < MaxSigned
    /\ signed' = signed + 1
    /\ issued' = issued \cup {[issuer |-> latestCA[r], kind |-> "device", expired |-> FALSE]}
    /\ UNCHANGED <<ca, host, view, pc, process, deletes, crashes, faults>>

\* SignCSR signs with the CA remembered, without looking at the secret.
SignCSR(r) ==
    /\ pc[r] = "serving" /\ latestCA[r] # None /\ signed < MaxSigned
    /\ signed' = signed + 1
    /\ issued' = issued \cup {[issuer |-> latestCA[r], kind |-> "device", expired |-> FALSE]}
    /\ UNCHANGED <<ca, host, view, pc, process, deletes, crashes, faults>>

\* VerifyRequest: for registration any certificate signed by the chain will
\* do, expired or not; elsewhere it is a device's own, valid one.
VerifyRequest(r, cert, authType) ==
    /\ cert.issuer = chain[r]
    /\ authType # "register" => cert.kind # "register" /\ ~cert.expired

Main(r) ==
    \/ FoundCA(r) \/ GenerateCA(r) \/ StoreCA(r) \/ GetHost(r)
    \/ StoreHost(r) \/ StoreRegistration(r)

Next ==
    \/ \E r \in Replicas : \/ Start(r) \/ Sync(r) \/ Crash(r) \/ CallFails(r)
                           \/ Main(r) \/ SignCSR(r)
    \/ DeleteHost
    \/ \E cert \in issued : Expire(cert)

Spec == Init /\ [][Next]_vars

\* The cluster restarts pods that exit, and a process that can go on does.
FairSpec == Spec /\ \A r \in Replicas : WF_vars(Start(r)) /\ WF_vars(Main(r))

-----------------------------------------------------------------------------
(* Properties.                                                             *)

TypeOK ==
    /\ ca \in CAs \cup {None} /\ host \in CAs \cup {None}
    /\ view \in [Replicas -> [ca : CAs \cup {None}, host : CAs \cup {None}]]
    /\ pc \in [Replicas -> {"down", "ca", "storeCA", "host", "storeHost", "storeReg", "serving"}]
    /\ caller \in [Replicas -> {"none", "init", "host", "reg"}]
    /\ made \in [Replicas -> CAs \cup {None}]
    /\ latestCA \in [Replicas -> CAs \cup {None}]
    /\ chain \in [Replicas -> CAs \cup {None}]
    /\ server \in [Replicas -> CAs \cup {None}]
    /\ issued \subseteq Certs
    /\ deletes \in 0..MaxDeletes /\ crashes \in 0..MaxCrashes
    /\ faults \in 0..MaxFaults /\ signed \in 0..MaxSigned

\* EveryoneAccepts: a certificate any replica has issued, before or after a
\* restart, is accepted by every replica that serves: for registration
\* always, elsewhere while it is valid.
EveryoneAccepts ==
    \A r \in Replicas, cert \in issued :
        pc[r] = "serving" =>
            /\ VerifyRequest(r, cert, "register")
            /\ cert.kind = "device" /\ ~cert.expired => VerifyRequest(r, cert, "other")

\* HostIsTrusted: the certificate a replica serves with is signed by the CA of
\* the secret, the one agents are given to check it.
HostIsTrusted ==
    \A r \in Replicas : pc[r] = "serving" => ca # None /\ server[r] = ca

\* EveryoneServes: replicas that start at the same time and refuse each
\* other's secrets all end up serving.
EveryoneServes == \A r \in Replicas : <>[](pc[r] = "serving")
=============================================================================
