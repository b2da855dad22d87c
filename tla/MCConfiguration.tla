-------------------------- MODULE MCConfiguration --------------------------
(* Instance of Configuration: pod specs in which optional and mandatory    *)
(* references to one object meet in both orders, two workloads that share  *)
(* a secret, and settings that need a CA, a syslog server and a bucket.    *)
EXTENDS Configuration

CONSTANTS w1, w2, a, b, x, y

Ref(kind, n, key, optional) == [kind |-> kind, name |-> n, key |-> key, optional |-> optional]
Need(kind, n, keys) == [kind |-> kind, name |-> n, keys |-> keys]

TwoWorkloads == {w1, w2}
TwoNames == {a, b}
TwoKeys == {x, y}

OptionalFirst ==
    [refs |-> <<Ref("secret", a, Nil, TRUE), Ref("secret", a, x, FALSE), Ref("configMap", b, x, TRUE)>>,
     auth |-> Absent, allow |-> Absent]
OptionalLast ==
    [refs |-> <<Ref("secret", a, y, FALSE), Ref("configMap", a, Nil, FALSE), Ref("secret", a, x, TRUE),
                Ref("configMap", a, y, FALSE)>>,
     auth |-> Need("secret", b, {y}), allow |-> Absent]
OnlyOptional ==
    [refs |-> <<Ref("secret", b, Nil, TRUE), Ref("configMap", a, x, TRUE)>>,
     auth |-> Absent, allow |-> Need("configMap", b, {x})]
Plain ==
    [refs |-> <<Ref("configMap", a, Nil, TRUE), Ref("plain", a, Nil, FALSE)>>,
     auth |-> Absent, allow |-> Absent]
FourSpecs == {OptionalFirst, OptionalLast, OnlyOptional, Plain}

OwnSettings == [storage |-> <<>>, metrics |-> <<>>, logs |-> <<Need("configMap", b, {})>>]
SetSettings == [storage |-> <<Need("configMap", a, {x}), Need("secret", b, {y})>>,
                metrics |-> <<Need("secret", b, {x})>>, logs |-> <<>>]
TwoSettings == {OwnSettings, SetSettings}
Claim == <<Need("configMap", b, {x}), Need("secret", a, {})>>

SomeContents == {Absent, {x}}
TwoDevices ==
    {[deleting |-> FALSE, workloads |-> <<w1, w2>>, member |-> TRUE, claim |-> FALSE, setting |-> OwnSettings],
     [deleting |-> FALSE, workloads |-> <<w1, w2>>, member |-> FALSE, claim |-> TRUE, setting |-> SetSettings]}
BothLists == {<<w1, w2>>, <<w2>>}
=============================================================================
