--------------------------- MODULE MCCertificates ---------------------------
(* Instance of Certificates: two replicas, one key pair more than can be in *)
(* use at a time.                                                           *)
EXTENDS Certificates

CONSTANTS r1, r2, k1, k2, k3

TwoReplicas  == {r1, r2}
ThreeKeys    == {k1, k2, k3}
=============================================================================
