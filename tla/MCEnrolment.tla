---------------------------- MODULE MCEnrolment ----------------------------
(* Instances of Enrolment: one or two namespaces, one or two registration   *)
(* calls at a time.                                                         *)
EXTENDS Enrolment, TLC

CONSTANTS init, fleet, c1, c2

OneNamespace == {init}
TwoNamespaces == {init, fleet}
OneCall == {c1}
TwoCalls == {c1, c2}

CallSymmetry == Permutations(TwoCalls)
=============================================================================
