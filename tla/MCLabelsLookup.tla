--------------------------- MODULE MCLabelsLookup ---------------------------
(* An instance of LabelsLookup: two workloads, each with any spec of at     *)
(* most two requirements over two keys, one of them also a device's name.   *)
EXTENDS LabelsLookup

CONSTANTS d1, d2, k1, v1, v2, w1, w2

MCDevices == {d1, d2}
MCKeys == {k1, d2}
MCVals == {v1, v2}
MCWorkloads == {w1, w2}

\* Selectors of at most two requirements: the valid ones with {v1} for
\* values, and one that LabelSelectorAsSelector refuses.
MCSelectors ==
    LET reqs == {r \in [key : MCKeys, op : Operators, vals : {{}, {v1}}] :
                    ValidRequirement(r) \/ (r.key = k1 /\ r.op = "In")}
    IN  {{}, NilSelector} \cup {{a, b} : a, b \in reqs}

MCSpecs == [device : {d2, NoDevice}, selector : MCSelectors]
=============================================================================
