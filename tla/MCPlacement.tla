---------------------------- MODULE MCPlacement ----------------------------
(* Instances of Placement.  Every device starts with label k and without   *)
(* label "device-by-workload"; users take k away and give it back.         *)
EXTENDS Placement

CONSTANTS d1, d2, w1, w2, k, v

OneDevice == {d1}
TwoDevices == {d1, d2}
OneWorkload == {w1}
TwoWorkloads == {w1, w2}
OneKey == {k}
TwoKeys == {k, DeviceByWorkloadIndexKey}
OneVal == {v}
NamesToo == {v, w1}

LacksK == [key |-> k, op |-> "DoesNotExist", vals |-> {}]
KIsV == [key |-> k, op |-> "In", vals |-> {v}]

ByKey == [device |-> NoDevice, selector |-> {KIsV}]
ByLack == [device |-> NoDevice, selector |-> {LacksK}]
Nowhere == [device |-> NoDevice, selector |-> NilSelector]

KeySpecs == {ByKey}
KeyOrLack == {ByKey, ByLack}
KeyOrNowhere == {ByKey, Nowhere}

WithK == [x \in Keys |-> IF x = k THEN v ELSE Absent]
NoLabels == [x \in Keys |-> Absent]
Flagged == [x \in Keys |-> IF x = k THEN v ELSE w1]
FlaggedOnly == [x \in Keys |-> IF x = k THEN Absent ELSE w1]

SteadyLabels == {WithK}
ToggledLabels == {WithK, NoLabels}
FlagLabels == {WithK, Flagged, FlaggedOnly}
=============================================================================
