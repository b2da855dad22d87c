------------------------------ MODULE MCFanOut ------------------------------
(* Instance of FanOut.  Matching devices are named d1, d2, ... in the order *)
(* of their list, which is no restriction: names only matter for equality.  *)
EXTENDS FanOut

CONSTANTS d1, d2, d3, d4, d5

FiveDevices == {d1, d2, d3, d4, d5}
Matching == {<<>>, <<d1>>, <<d1, d2>>, <<d1, d2, d3>>, <<d1, d2, d3, d4, d5>>}
Labelled == {<<>>, <<d4>>, <<d2, d4>>, <<d4, d1, d5>>}
=============================================================================
