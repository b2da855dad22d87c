---------------------------- MODULE MCPlaybooks ----------------------------
(* Instances of Playbooks: one device that is given a config, and loses it. *)
EXTENDS Playbooks

CONSTANTS d1, c1

OneDevice == {d1}
OneConfig == {c1}
=============================================================================
