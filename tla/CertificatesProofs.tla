------------------------- MODULE CertificatesProofs -------------------------
(***************************************************************************)
(* Proofs about Certificates, for every number of replicas, deletions,     *)
(* crashes and failing calls: everyone who serves accepts what anyone has  *)
(* issued, and serves with a certificate of the one CA.                    *)
(***************************************************************************)
EXTENDS Certificates, TLAPS

\* Nothing that a replica, a secret or a certificate refers to is another CA
\* than the one of the secret: a refused Create leaves no trace of its key.
OneCA ==
    /\ host \in {None, ca}
    /\ \A r \in Replicas :
         /\ view[r].ca \in {None, ca} /\ view[r].host \in {None, ca}
         /\ latestCA[r] \in {None, ca} /\ chain[r] \in {None, ca} /\ server[r] \in {None, ca}
    /\ \A cert \in issued : cert.issuer = ca

\* What main of a replica has reached.
Progress ==
    \A r \in Replicas :
        /\ pc[r] \in {"host", "storeHost", "storeReg", "serving"} => chain[r] # None
        /\ pc[r] \in {"host", "storeHost", "storeReg", "serving"} => latestCA[r] # None
        /\ pc[r] \in {"ca", "storeCA"} /\ caller[r] # "init" => chain[r] # None
        /\ pc[r] \in {"ca", "storeCA"} /\ caller[r] = "reg" => server[r] # None
        /\ pc[r] \in {"ca", "storeCA"} => caller[r] # "none"
        /\ pc[r] \in {"storeReg", "serving"} => server[r] # None
        /\ pc[r] = "storeCA" => made[r] # None

IInv == TypeOK /\ OneCA /\ Progress

-----------------------------------------------------------------------------
(* The invariant is inductive: one lemma per conjunct, one step per action. *)

\* Initially nothing has been created.
LEMMA InitIInv == Init => IInv
<1> SUFFICES ASSUME Init PROVE IInv
  OBVIOUS
<1> USE DEF Init
<1>1. TypeOK  BY BoundsAssumption DEF TypeOK, Certs
<1>2. OneCA  BY DEF OneCA
<1>3. Progress  BY DEF Progress
<1> QED BY <1>1, <1>2, <1>3 DEF IInv

\* Every step keeps the types and the bounds.
LEMMA TypeStep == IInv /\ [Next]_vars => TypeOK'
<1> SUFFICES ASSUME IInv, [Next]_vars PROVE TypeOK'
  OBVIOUS
<1> USE NoneAssumption, BoundsAssumption DEF IInv, TypeOK, OneCA, Progress, Certs
<1>1. CASE UNCHANGED vars
  BY <1>1 DEF vars, process, bounds
<1>2. ASSUME NEW r \in Replicas, Start(r) PROVE TypeOK'
  BY <1>2 DEF Start, GoTo, process, bounds
<1>3. ASSUME NEW r \in Replicas, Sync(r) PROVE TypeOK'
  BY <1>3 DEF Sync, process, bounds
<1>4. ASSUME NEW r \in Replicas, Crash(r) PROVE TypeOK'
  BY <1>4 DEF Crash, Exit, GoTo, process, bounds
<1>5. ASSUME NEW r \in Replicas, CallFails(r) PROVE TypeOK'
  BY <1>5 DEF CallFails, Exit, GoTo, process, bounds
<1>6. ASSUME NEW r \in Replicas, FoundCA(r) PROVE TypeOK'
  BY <1>6 DEF FoundCA, Answer, GoTo, process, bounds
<1>7. ASSUME NEW r \in Replicas, GenerateCA(r) PROVE TypeOK'
  BY <1>7 DEF GenerateCA, GoTo, process, bounds
<1>8. ASSUME NEW r \in Replicas, StoreCA(r) PROVE TypeOK'
  <2>1. CASE ca = None
    <3>1. made[r] \in CAs /\ ca' = made[r] /\ made' = [made EXCEPT ![r] = None]
      BY <1>8, <2>1 DEF StoreCA
    <3>2. latestCA' \in [Replicas -> CAs \cup {None}] /\ chain' \in [Replicas -> CAs \cup {None}]
      BY <1>8, <2>1, <3>1 DEF StoreCA, Answer
    <3>3. pc' \in [Replicas -> {"down", "ca", "storeCA", "host", "storeHost", "storeReg", "serving"}]
      BY <1>8, <2>1 DEF StoreCA, Answer, GoTo
    <3> QED BY <1>8, <2>1, <3>1, <3>2, <3>3 DEF StoreCA, bounds
  <2>2. CASE ca # None
    BY <1>8, <2>2 DEF StoreCA, Exit, GoTo, bounds
  <2> QED BY <2>1, <2>2
<1>9. ASSUME NEW r \in Replicas, GetHost(r) PROVE TypeOK'
  BY <1>9 DEF GetHost, GoTo, process, bounds
<1>10. ASSUME NEW r \in Replicas, StoreHost(r) PROVE TypeOK'
  <2>1. CASE host = None
    <3>1. /\ host' = latestCA[r] /\ server' = [server EXCEPT ![r] = latestCA[r]]
          /\ caller' = [caller EXCEPT ![r] = "reg"] /\ pc' = [pc EXCEPT ![r] = "ca"]
      BY <1>10, <2>1 DEF StoreHost, GoTo
    <3>2. UNCHANGED <<made, latestCA, chain, ca, view, issued, bounds>>
      BY <1>10, <2>1 DEF StoreHost
    <3> QED BY ONLY TypeOK, <3>1, <3>2 DEF TypeOK, bounds
  <2>2. CASE host # None
    BY <1>10, <2>2 DEF StoreHost, Exit, GoTo, bounds
  <2> QED BY <2>1, <2>2
<1>11. ASSUME NEW r \in Replicas, StoreRegistration(r) PROVE TypeOK'
  <2>1. latestCA[r] \in CAs
    BY <1>11 DEF StoreRegistration
  <2>2. [issuer |-> latestCA[r], kind |-> "register", expired |-> FALSE] \in Certs
    BY <2>1
  <2>3. issued' \subseteq Certs
    BY <1>11, <2>2 DEF StoreRegistration
  <2> QED BY <1>11, <2>3 DEF StoreRegistration, GoTo, bounds
<1>12. ASSUME NEW r \in Replicas, SignCSR(r) PROVE TypeOK'
  <2>1. latestCA[r] \in CAs
    BY <1>12 DEF SignCSR
  <2>2. [issuer |-> latestCA[r], kind |-> "device", expired |-> FALSE] \in Certs
    BY <2>1
  <2>3. issued' \subseteq Certs
    BY <1>12, <2>2 DEF SignCSR
  <2> QED BY <1>12, <2>3 DEF SignCSR, process
<1>13. CASE DeleteHost
  BY <1>13 DEF DeleteHost, process, bounds
<1>14. ASSUME NEW cert \in issued, Expire(cert) PROVE TypeOK'
  BY <1>14 DEF Expire, process, bounds
<1> QED BY <1>1, <1>2, <1>3, <1>4, <1>5, <1>6, <1>7, <1>8, <1>9, <1>10, <1>11, <1>12, <1>13, <1>14 DEF Next, Main

\* No step brings in a second CA: a key that is not stored is forgotten.
LEMMA OneCAStep == IInv /\ [Next]_vars => OneCA'
<1> SUFFICES ASSUME IInv, [Next]_vars PROVE OneCA'
  OBVIOUS
<1> USE NoneAssumption, BoundsAssumption DEF IInv, TypeOK, OneCA, Progress, Certs
<1>1. CASE UNCHANGED vars
  BY <1>1 DEF vars, process, bounds
<1>2. ASSUME NEW r \in Replicas, Start(r) PROVE OneCA'
  BY <1>2 DEF Start, GoTo, process, bounds
<1>3. ASSUME NEW r \in Replicas, Sync(r) PROVE OneCA'
  BY <1>3 DEF Sync, process, bounds
<1>4. ASSUME NEW r \in Replicas, Crash(r) PROVE OneCA'
  BY <1>4 DEF Crash, Exit, GoTo, process, bounds
<1>5. ASSUME NEW r \in Replicas, CallFails(r) PROVE OneCA'
  BY <1>5 DEF CallFails, Exit, GoTo, process, bounds
<1>6. ASSUME NEW r \in Replicas, FoundCA(r) PROVE OneCA'
  BY <1>6 DEF FoundCA, Answer, GoTo, process, bounds
<1>7. ASSUME NEW r \in Replicas, GenerateCA(r) PROVE OneCA'
  BY <1>7 DEF GenerateCA, GoTo, process, bounds
<1>8. ASSUME NEW r \in Replicas, StoreCA(r) PROVE OneCA'
  <2>1. CASE ca = None
    <3>1. issued = {}
      BY <2>1
    <3>2. ca' = made[r] /\ host' = None /\ issued' = {} /\ view' = view /\ server' = server
      BY <1>8, <2>1, <3>1 DEF StoreCA
    <3>3. \A q \in Replicas : latestCA'[q] \in {None, made[r]} /\ chain'[q] \in {None, made[r]}
      BY <1>8, <2>1 DEF StoreCA, Answer
    <3> QED BY <2>1, <3>2, <3>3
  <2>2. CASE ca # None
    BY <1>8, <2>2 DEF StoreCA, Exit, GoTo, bounds
  <2> QED BY <2>1, <2>2
<1>9. ASSUME NEW r \in Replicas, GetHost(r) PROVE OneCA'
  BY <1>9 DEF GetHost, GoTo, process, bounds
<1>10. ASSUME NEW r \in Replicas, StoreHost(r) PROVE OneCA'
  BY <1>10 DEF StoreHost, Exit, GoTo, process, bounds
<1>11. ASSUME NEW r \in Replicas, StoreRegistration(r) PROVE OneCA'
  BY <1>11 DEF StoreRegistration, GoTo, process, bounds
<1>12. ASSUME NEW r \in Replicas, SignCSR(r) PROVE OneCA'
  BY <1>12 DEF SignCSR, process, bounds
<1>13. CASE DeleteHost
  BY <1>13 DEF DeleteHost, process, bounds
<1>14. ASSUME NEW cert \in issued, Expire(cert) PROVE OneCA'
  BY <1>14 DEF Expire, process, bounds
<1> QED BY <1>1, <1>2, <1>3, <1>4, <1>5, <1>6, <1>7, <1>8, <1>9, <1>10, <1>11, <1>12, <1>13, <1>14 DEF Next, Main

\* A replica only goes on with what the step before has given it.
LEMMA ProgressStep == IInv /\ [Next]_vars => Progress'
<1> SUFFICES ASSUME IInv, [Next]_vars PROVE Progress'
  OBVIOUS
<1> USE NoneAssumption, BoundsAssumption DEF IInv, TypeOK, OneCA, Progress, Certs
<1>1. CASE UNCHANGED vars
  BY <1>1 DEF vars, process, bounds
<1>2. ASSUME NEW r \in Replicas, Start(r) PROVE Progress'
  BY <1>2 DEF Start, GoTo, process, bounds
<1>3. ASSUME NEW r \in Replicas, Sync(r) PROVE Progress'
  BY <1>3 DEF Sync, process, bounds
<1>4. ASSUME NEW r \in Replicas, Crash(r) PROVE Progress'
  BY <1>4 DEF Crash, Exit, GoTo, process, bounds
<1>5. ASSUME NEW r \in Replicas, CallFails(r) PROVE Progress'
  BY <1>5 DEF CallFails, Exit, GoTo, process, bounds
<1>6. ASSUME NEW r \in Replicas, FoundCA(r) PROVE Progress'
  BY <1>6 DEF FoundCA, Answer, GoTo, process, bounds
<1>7. ASSUME NEW r \in Replicas, GenerateCA(r) PROVE Progress'
  BY <1>7 DEF GenerateCA, GoTo, process, bounds
<1>8. ASSUME NEW r \in Replicas, StoreCA(r) PROVE Progress'
  BY <1>8 DEF StoreCA, Answer, Exit, GoTo, process, bounds
<1>9. ASSUME NEW r \in Replicas, GetHost(r) PROVE Progress'
  BY <1>9 DEF GetHost, GoTo, process, bounds
<1>10. ASSUME NEW r \in Replicas, StoreHost(r) PROVE Progress'
  BY <1>10 DEF StoreHost, Exit, GoTo, process, bounds
<1>11. ASSUME NEW r \in Replicas, StoreRegistration(r) PROVE Progress'
  BY <1>11 DEF StoreRegistration, GoTo, process, bounds
<1>12. ASSUME NEW r \in Replicas, SignCSR(r) PROVE Progress'
  BY <1>12 DEF SignCSR, process, bounds
<1>13. CASE DeleteHost
  BY <1>13 DEF DeleteHost, process, bounds
<1>14. ASSUME NEW cert \in issued, Expire(cert) PROVE Progress'
  BY <1>14 DEF Expire, process, bounds
<1> QED BY <1>1, <1>2, <1>3, <1>4, <1>5, <1>6, <1>7, <1>8, <1>9, <1>10, <1>11, <1>12, <1>13, <1>14 DEF Next, Main

-----------------------------------------------------------------------------
(* Results.                                                                *)

\* The inductive invariant: there is one CA, and who serves has it.
THEOREM Invariant == Spec => []IInv
<1>1. IInv /\ [Next]_vars => IInv'
  BY TypeStep, OneCAStep, ProgressStep DEF IInv
<1> QED BY InitIInv, <1>1, PTL DEF Spec

\* The types and bounds of every variable (pkg/mtls, cmd/httpapi/main.go).
THEOREM TypesHold == Spec => []TypeOK
<1>1. IInv => TypeOK  BY DEF IInv
<1> QED BY Invariant, <1>1, PTL

\* What a replica has signed is accepted by every replica that serves,
\* whoever won the race for the CA secret (GetCACertificate, VerifyRequest).
THEOREM AcceptedByAll == Spec => []EveryoneAccepts
<1>1. IInv => EveryoneAccepts
  BY DEF IInv, TypeOK, OneCA, Progress, EveryoneAccepts, VerifyRequest, Certs
<1> QED BY Invariant, <1>1, PTL

\* A replica serves with a certificate the CA of the secret has signed
\* (GetServerCertificate), over deletions of the host secret.
THEOREM HostTrusted == Spec => []HostIsTrusted
<1>1. IInv => HostIsTrusted
  BY NoneAssumption DEF IInv, TypeOK, OneCA, Progress, HostIsTrusted
<1> QED BY Invariant, <1>1, PTL
=============================================================================
