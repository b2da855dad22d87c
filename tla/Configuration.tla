---------------------------- MODULE Configuration ----------------------------
(***************************************************************************)
(* The configuration of a device, put together read by read while users    *)
(* change the objects it is made of (GetDataMessageForDevice, the          *)
(* configuration assembler, the config map and secret extraction, storage).*)
(* store, workloads, device and deviceSet are what the client's caches     *)
(* hold.  The contents of an object are the set of its keys; a failing     *)
(* parse counts as a failing read.                                         *)
(***************************************************************************)
EXTENDS Naturals, Sequences

CONSTANTS
    Workloads,   \* names of workloads
    Names,       \* names of secrets and of config maps
    Keys,        \* keys of their data
    Specs,       \* pod specs: references, auth file, allow list
    Settings,    \* device settings: storage, metrics, logs
    ClaimNeeds,  \* what the object bucket claim of a device leads to
    Contents,    \* what a user may store under a name
    Lists,       \* workload lists a device status may have
    InitialDevices,
    Absent,      \* no such object
    Nil,         \* the nil key set of an optional reference, or no key
    Unseen,      \* not in the map
    MaxEdits,    \* bound: changes by users
    MaxFaults    \* bound: calls that fail

Kinds == {"secret", "configMap"}

\* A reference of a container: a variable with a key, all of an object (key
\* is Nil), or a variable with a plain value.
Refs  == [kind : Kinds \cup {"plain"}, name : Names, key : Keys \cup {Nil}, optional : BOOLEAN]
\* An object that must be there with these keys.
Needs == [kind : Kinds, name : Names, keys : SUBSET Keys]

ASSUME SpecsAssumption ==
    Specs \subseteq [refs : Seq(Refs), auth : Needs \cup {Absent}, allow : Needs \cup {Absent}]
ASSUME SettingsAssumption ==
    /\ Settings \subseteq [storage : Seq(Needs), metrics : Seq(Needs), logs : Seq(Needs)]
    /\ ClaimNeeds \in Seq(Needs)
ASSUME ContentsAssumption == Contents \subseteq (SUBSET Keys) \cup {Absent}
ASSUME ListsAssumption == Lists \subseteq Seq(Workloads)
ASSUME MarksAssumption ==
    /\ \A keys \in SUBSET Keys : Absent # keys /\ Nil # keys /\ Unseen # keys
    /\ \A need \in Needs : Absent # need
    /\ \A setting \in Settings : Absent # setting
    /\ Nil \notin Keys \cup Names /\ Nil # Unseen
ASSUME BoundsAssumption == MaxEdits \in Nat /\ MaxFaults \in Nat

Devices == [deleting : BOOLEAN, workloads : Lists, member : BOOLEAN,
            claim : BOOLEAN, setting : Settings]
ASSUME InitialDevicesAssumption == InitialDevices \subseteq Devices
Data    == (SUBSET Keys) \cup {Absent}
Maps    == [Names -> (SUBSET Keys) \cup {Nil, Unseen}]
Blames  == [cause : {"none", "fault", "device", "auth", "allow", "secret", "configMap", "metrics", "logs"},
            name : Names \cup {Nil}, keys : SUBSET Keys]

NothingRead == [n \in Names |-> Absent]
EmptyMap    == [n \in Names |-> Unseen]
NoBlame     == [cause |-> "none", name |-> Nil, keys |-> {}]

VARIABLES
    device,      \* the EdgeDevice or Absent
    workloads,   \* workloads[w]: [spec, deleting] or Absent
    store,       \* store[kind][name]: the keys of the object or Absent
    deviceSet,   \* the settings of the EdgeDeviceSet or Absent
    edits, faults,
    pc,          \* what the request does next; "idle": none
    dev,         \* the device it has read
    i,           \* entries of dev's list it has looked up
    list,        \* the workloads of the message, with their config maps
    k, j,        \* position in list and in the references of list[k]
    map,         \* secretMap or cmMap
    left,        \* names of map that are still to be read
    secrets,     \* the secrets of the message
    settings,    \* the settings in use
    storage,     \* whether the message has a storage configuration
    answer,      \* what the device was told last
    blame        \* why the request failed

cluster == <<device, workloads, store, deviceSet>>
vars == <<cluster, edits, faults, pc, dev, i, list, k, j, map, left, secrets,
          settings, storage, answer, blame>>

Init ==
    /\ device \in InitialDevices
    /\ workloads \in [Workloads -> [spec : Specs, deleting : {FALSE}]]
    /\ store = [kind \in Kinds |-> [n \in Names |-> Keys]]
    /\ deviceSet \in Settings \ {device.setting}
    /\ edits = 0 /\ faults = 0
    /\ pc = "idle" /\ dev = Absent /\ i = 0 /\ list = <<>> /\ k = 0 /\ j = 0
    /\ map = EmptyMap /\ left = {} /\ secrets = NothingRead
    /\ settings = Absent /\ storage = FALSE /\ answer = "none" /\ blame = NoBlame

-----------------------------------------------------------------------------
(* Users and the controllers: anything may change between two reads.       *)

Edit ==
    /\ edits < MaxEdits
    /\ edits' = edits + 1
    /\ UNCHANGED <<faults, pc, dev, i, list, k, j, map, left, secrets, settings,
                   storage, answer, blame>>

SetObject(kind, n, data) ==
    /\ Edit
    /\ store[kind][n] # data /\ store' = [store EXCEPT ![kind][n] = data]
    /\ UNCHANGED <<device, workloads, deviceSet>>

DeleteWorkload(w, gone) ==
    /\ Edit
    /\ workloads[w] # Absent
    /\ workloads' = [workloads EXCEPT
            ![w] = IF gone THEN Absent ELSE [spec |-> @.spec, deleting |-> TRUE]]
    /\ UNCHANGED <<device, store, deviceSet>>

WriteWorkload(w, spec) ==
    /\ Edit
    /\ workloads[w] # Absent => ~workloads[w].deleting /\ workloads[w].spec # spec
    /\ workloads' = [workloads EXCEPT ![w] = [spec |-> spec, deleting |-> FALSE]]
    /\ UNCHANGED <<device, store, deviceSet>>

RemoveDevice(gone) ==
    /\ Edit
    /\ device # Absent
    /\ device' = IF gone THEN Absent ELSE [device EXCEPT !.deleting = TRUE]
    /\ UNCHANGED <<workloads, store, deviceSet>>

PlaceWorkloads(ws) ==
    /\ Edit
    /\ device # Absent /\ device' = [device EXCEPT !.workloads = ws]
    /\ UNCHANGED <<workloads, store, deviceSet>>

RemoveDeviceSet ==
    /\ Edit
    /\ deviceSet # Absent /\ deviceSet' = Absent
    /\ UNCHANGED <<device, workloads, store>>

Users ==
    \/ \E kind \in Kinds, n \in Names, data \in Contents : SetObject(kind, n, data)
    \/ \E w \in Workloads : \/ \E gone \in BOOLEAN : DeleteWorkload(w, gone)
                            \/ \E spec \in Specs : WriteWorkload(w, spec)
    \/ \E gone \in BOOLEAN : RemoveDevice(gone)
    \/ \E ws \in Lists : PlaceWorkloads(ws)
    \/ RemoveDeviceSet

-----------------------------------------------------------------------------
(* The request.                                                            *)

Request ==
    /\ pc = "idle"
    /\ pc' = "device"
    /\ dev' = Absent /\ i' = 0 /\ list' = <<>> /\ k' = 0 /\ j' = 0
    /\ map' = EmptyMap /\ left' = {} /\ secrets' = NothingRead
    /\ settings' = Absent /\ storage' = FALSE /\ answer' = "none" /\ blame' = NoBlame
    /\ UNCHANGED <<cluster, edits, faults>>

\* The handler answers 404 for an error that IsNotFound, else 500.
Fail(what, cause, n, keys) ==
    /\ pc' = "idle" /\ answer' = what
    /\ blame' = [cause |-> cause, name |-> n, keys |-> keys]

\* GetConfiguration; a device that is being deleted gets no workloads.
ReadDevice ==
    /\ pc = "device"
    /\ \/ /\ device = Absent
          /\ Fail("notFound", "device", Nil, {})
          /\ UNCHANGED dev
       \/ /\ device # Absent
          /\ dev' = device
          /\ pc' = IF device.deleting THEN "set" ELSE "workload"
          /\ UNCHANGED <<answer, blame>>
    /\ UNCHANGED <<cluster, edits, faults, i, list, k, j, map, left, secrets, settings, storage>>

\* The next entry of the device's list; one without a workload, or whose
\* workload is being deleted, is left out.
ReadWorkload ==
    /\ pc = "workload" /\ i < Len(dev.workloads)
    /\ i' = i + 1
    /\ LET w == dev.workloads[i + 1] IN
       list' = IF workloads[w] # Absent /\ ~workloads[w].deleting
               THEN Append(list, [name |-> w, spec |-> workloads[w].spec, configMaps |-> NothingRead])
               ELSE list
    /\ UNCHANGED <<cluster, edits, faults, pc, dev, k, j, map, left, secrets, settings,
                   storage, answer, blame>>

NextWorkloadSameMap ==
    /\ \/ pc = "workload" /\ i = Len(dev.workloads)
       \/ pc = "readMaps" /\ left = {}
    /\ j' = 0
    /\ \/ k < Len(list) /\ k' = k + 1 /\ pc' = "auth" /\ UNCHANGED map
       \/ k = Len(list) /\ k' = 1 /\ pc' = "noteSecrets" /\ map' = EmptyMap
    /\ UNCHANGED <<cluster, edits, faults, dev, i, list, left, secrets, settings,
                   storage, answer, blame>>

NextWorkloadTooFar ==
    /\ \/ pc = "workload" /\ i = Len(dev.workloads)
       \/ pc = "readMaps" /\ left = {}
    /\ j' = 0 /\ map' = EmptyMap
    /\ \/ k <= Len(list) /\ k' = k + 1 /\ pc' = "auth"
       \/ k > Len(list) /\ k' = 1 /\ pc' = "noteSecrets"
    /\ UNCHANGED <<cluster, edits, faults, dev, i, list, left, secrets, settings,
                   storage, answer, blame>>

\* toWorkloadList goes on with the next workload, createSecretList follows.
NextWorkload ==
    /\ \/ pc = "workload" /\ i = Len(dev.workloads)
       \/ pc = "readMaps" /\ left = {}
    /\ j' = 0 /\ map' = EmptyMap
    /\ \/ k < Len(list) /\ k' = k + 1 /\ pc' = "auth"
       \/ k = Len(list) /\ k' = 1 /\ pc' = "noteSecrets"
    /\ UNCHANGED <<cluster, edits, faults, dev, i, list, left, secrets, settings,
                   storage, answer, blame>>

Missing(need) == IF store[need.kind][need.name] = Absent THEN need.keys
                 ELSE need.keys \ store[need.kind][need.name]
Met(need) == store[need.kind][need.name] # Absent /\ Missing(need) = {}

\* getAuthFile: the only error that is returned as it is.
ReadAuthFile ==
    /\ pc = "auth"
    /\ LET need == list[k].spec.auth IN
       \/ /\ need # Absent => Met(need)
          /\ pc' = "allow"
          /\ UNCHANGED <<answer, blame>>
       \/ /\ need # Absent /\ ~Met(need)
          /\ Fail(IF store[need.kind][need.name] = Absent THEN "notFound" ELSE "error",
                  "auth", need.name, Missing(need))
    /\ UNCHANGED <<cluster, edits, faults, dev, i, list, k, j, map, left, secrets, settings, storage>>

\* GenerateFromConfigMap for the workload's metrics.
ReadAllowList ==
    /\ pc = "allow"
    /\ LET need == list[k].spec.allow IN
       \/ /\ need # Absent => Met(need)
          /\ pc' = "noteMaps"
          /\ UNCHANGED <<answer, blame>>
       \/ /\ need # Absent /\ ~Met(need)
          /\ Fail("error", "allow", need.name, Missing(need))
    /\ UNCHANGED <<cluster, edits, faults, dev, i, list, k, j, map, left, secrets, settings, storage>>

-----------------------------------------------------------------------------
(* Extraction.  For every name the map holds nil while only optional       *)
(* references were seen, and otherwise the keys the others need.           *)

KeysOf(ref) == IF ref.key = Nil THEN {} ELSE {ref.key}

NoteFirst(m, ref) ==
    IF m[ref.name] # Unseen THEN m
    ELSE [m EXCEPT ![ref.name] = IF ref.optional THEN Nil ELSE KeysOf(ref)]

NoteMandatory(m, ref) ==
    [m EXCEPT ![ref.name] = IF @ \in {Nil, Unseen} THEN KeysOf(ref) ELSE @ \cup KeysOf(ref)]

Note(m, ref) ==
    [m EXCEPT ![ref.name] =
        IF ref.optional THEN IF @ = Unseen THEN Nil ELSE @
        ELSE IF @ \in {Nil, Unseen} THEN KeysOf(ref) ELSE @ \cup KeysOf(ref)]

NextRef == list[k].spec.refs[j + 1]

Named(m) == {n \in Names : m[n] # Unseen}

\* Fetch: the references of one workload.  The variable with a plain value
\* has no ValueFrom, and ExtractInfoFromEnv's callback reads through it: the
\* server closes the connection without an answer.
NoteConfigMaps ==
    /\ pc = "noteMaps"
    /\ \/ /\ j < Len(list[k].spec.refs) /\ NextRef.kind = "plain"
          /\ pc' = "idle" /\ answer' = "broken"
          /\ UNCHANGED <<j, map, left>>
       \/ /\ j < Len(list[k].spec.refs) /\ NextRef.kind # "plain"
          /\ j' = j + 1
          /\ map' = IF NextRef.kind = "configMap" THEN Note(map, NextRef) ELSE map
          /\ UNCHANGED <<pc, left, answer>>
       \/ /\ j = Len(list[k].spec.refs)
          /\ left' = Named(map)
          /\ pc' = "readMaps"
          /\ UNCHANGED <<j, map, answer>>
    /\ UNCHANGED <<cluster, edits, faults, dev, i, list, k, secrets, settings, storage, blame>>

\* createSecretList: the references of all workloads into one map.
NoteSecrets ==
    /\ pc = "noteSecrets"
    /\ \/ /\ k <= Len(list) /\ j < Len(list[k].spec.refs)
          /\ j' = j + 1
          /\ map' = IF NextRef.kind = "secret" THEN Note(map, NextRef) ELSE map
          /\ UNCHANGED <<pc, k, left>>
       \/ /\ k <= Len(list) /\ j = Len(list[k].spec.refs)
          /\ k' = k + 1 /\ j' = 0
          /\ UNCHANGED <<pc, map, left>>
       \/ /\ k > Len(list)
          /\ left' = Named(map)
          /\ pc' = "readSecrets"
          /\ UNCHANGED <<k, j, map>>
    /\ UNCHANGED <<cluster, edits, faults, dev, i, list, secrets, settings, storage, answer, blame>>

RefusedStrictly(data, keys) ==
    \/ data = Absent
    \/ data # Absent /\ keys # Nil /\ keys \ data # {}

\* readAndValidate: nil keys make the object optional.
Refused(data, keys) ==
    \/ data = Absent /\ keys # Nil
    \/ data # Absent /\ keys # Nil /\ keys \ data # {}

MissingKeys(data, keys) == IF data = Absent THEN {} ELSE keys \ data

\* One of the config maps of the map, in the order of Go's map iteration.
ReadConfigMap(n) ==
    /\ pc = "readMaps" /\ n \in left
    /\ LET data == store["configMap"][n] IN
       \/ /\ ~Refused(data, map[n])
          /\ left' = left \ {n}
          /\ list' = [list EXCEPT ![k].configMaps[n] = data]
          /\ UNCHANGED <<pc, answer, blame>>
       \/ /\ Refused(data, map[n])
          /\ Fail("error", "configMap", n, MissingKeys(data, map[n]))
          /\ UNCHANGED <<left, list>>
    /\ UNCHANGED <<cluster, edits, faults, dev, i, k, j, map, secrets, settings, storage>>

ReadSecret(n) ==
    /\ pc = "readSecrets" /\ n \in left
    /\ LET data == store["secret"][n] IN
       \/ /\ ~Refused(data, map[n])
          /\ left' = left \ {n}
          /\ secrets' = [secrets EXCEPT ![n] = data]
          /\ UNCHANGED <<pc, answer, blame>>
       \/ /\ Refused(data, map[n])
          /\ Fail("error", "secret", n, MissingKeys(data, map[n]))
          /\ UNCHANGED <<left, secrets>>
    /\ UNCHANGED <<cluster, edits, faults, dev, i, list, k, j, map, settings, storage>>

SecretsDone ==
    /\ pc = "readSecrets" /\ left = {}
    /\ pc' = "set"
    /\ UNCHANGED <<cluster, edits, faults, dev, i, list, k, j, map, left, secrets, settings,
                   storage, answer, blame>>

-----------------------------------------------------------------------------
(* The settings: of the device set if the device is a member of one that   *)
(* can be read, and otherwise the device's own.                            *)

ReadDeviceSet ==
    /\ pc = "set"
    /\ settings' = IF dev.member /\ deviceSet # Absent THEN deviceSet ELSE dev.setting
    /\ j' = 0
    /\ pc' = "storage"
    /\ UNCHANGED <<cluster, edits, faults, dev, i, list, k, map, left, secrets,
                   storage, answer, blame>>

StorageNeeds == IF dev.claim THEN ClaimNeeds ELSE settings.storage

\* getStorageConfiguration: an error only costs the storage section.
ReadStorage ==
    /\ pc = "storage"
    /\ \/ /\ j < Len(StorageNeeds) /\ Met(StorageNeeds[j + 1])
          /\ j' = j + 1
          /\ UNCHANGED <<pc, storage>>
       \/ /\ j < Len(StorageNeeds) /\ ~Met(StorageNeeds[j + 1])
          /\ j' = 0 /\ pc' = "metrics"
          /\ UNCHANGED storage
       \/ /\ j = Len(StorageNeeds)
          /\ storage' = (StorageNeeds # <<>>)
          /\ j' = 0 /\ pc' = "metrics"
    /\ UNCHANGED <<cluster, edits, faults, dev, i, list, k, map, left, secrets,
                   settings, answer, blame>>

\* One section of the settings after the other, each of its objects required.
ReadSection(section, needs, after) ==
    /\ pc = section
    /\ \/ /\ j < Len(needs) /\ Met(needs[j + 1])
          /\ j' = j + 1
          /\ UNCHANGED <<pc, answer, blame>>
       \/ /\ j < Len(needs) /\ ~Met(needs[j + 1])
          /\ Fail("error", section, needs[j + 1].name, Missing(needs[j + 1]))
          /\ UNCHANGED j
       \/ /\ j = Len(needs)
          /\ j' = 0 /\ pc' = after
          /\ answer' = IF after = "idle" THEN "ok" ELSE answer
          /\ UNCHANGED blame
    /\ UNCHANGED <<cluster, edits, faults, dev, i, list, k, map, left, secrets,
                   settings, storage>>

\* getDeviceMetricsConfiguration: the receiver's CA and the allow lists.
ReadMetrics == ReadSection("metrics", settings.metrics, "logs")
\* getDeviceLogConfig: the syslog config maps; then the message is sent.
ReadLogs    == ReadSection("logs", settings.logs, "idle")

\* The next step of the handler is a read whose error ends the request.
Reading ==
    \/ pc = "device"
    \/ pc = "workload" /\ i < Len(dev.workloads)
    \/ pc = "auth" /\ list[k].spec.auth # Absent
    \/ pc = "allow" /\ list[k].spec.allow # Absent
    \/ pc \in {"readMaps", "readSecrets"} /\ left # {}
    \/ pc = "metrics" /\ j < Len(settings.metrics)
    \/ pc = "logs" /\ j < Len(settings.logs)

\* A read fails.  Without the set the device's own settings are used, without
\* a storage object there is no storage; any other failure is answered 500.
ReadFails ==
    /\ faults < MaxFaults
    /\ faults' = faults + 1
    /\ \/ /\ Reading
          /\ Fail("error", "fault", Nil, {})
          /\ UNCHANGED <<j, settings>>
       \/ /\ pc = "set" /\ dev.member
          /\ settings' = dev.setting
          /\ j' = 0 /\ pc' = "storage"
          /\ UNCHANGED <<answer, blame>>
       \/ /\ pc = "storage" /\ j < Len(StorageNeeds)
          /\ j' = 0 /\ pc' = "metrics"
          /\ UNCHANGED <<settings, answer, blame>>
    /\ UNCHANGED <<cluster, edits, dev, i, list, k, map, left, secrets, storage>>

Handler ==
    \/ ReadDevice \/ ReadWorkload \/ NextWorkload \/ ReadAuthFile \/ ReadAllowList
    \/ NoteConfigMaps \/ NoteSecrets \/ SecretsDone
    \/ \E n \in Names : ReadConfigMap(n) \/ ReadSecret(n)
    \/ ReadDeviceSet \/ ReadStorage \/ ReadMetrics \/ ReadLogs

Next == Users \/ Request \/ Handler \/ ReadFails

Spec == Init /\ [][Next]_vars

\* A device asks again and again, and a request that can go on does.
FairSpec == Spec /\ WF_vars(Request) /\ WF_vars(Handler)

-----------------------------------------------------------------------------
(* Properties.                                                             *)

Entries == [name : Workloads, spec : Specs, configMaps : [Names -> Data]]

TypeOK ==
    /\ device \in Devices \cup {Absent}
    /\ workloads \in [Workloads -> [spec : Specs, deleting : BOOLEAN] \cup {Absent}]
    /\ store \in [Kinds -> [Names -> Data]]
    /\ deviceSet \in Settings \cup {Absent}
    /\ edits \in 0..MaxEdits /\ faults \in 0..MaxFaults
    /\ pc \in {"idle", "device", "workload", "auth", "allow", "noteMaps", "readMaps", "noteSecrets",
               "readSecrets", "set", "storage", "metrics", "logs"}
    /\ dev \in Devices \cup {Absent}
    /\ pc \notin {"idle", "device"} => dev # Absent
    /\ i \in Nat /\ list \in Seq(Entries)
    /\ pc = "workload" => i <= Len(dev.workloads)
    /\ k \in 0..(Len(list) + 1)
    /\ pc \in {"auth", "allow", "noteMaps", "readMaps"} => k \in 1..Len(list)
    /\ pc = "noteSecrets" => k # 0
    /\ j \in Nat
    /\ pc \in {"noteMaps", "noteSecrets"} /\ k <= Len(list) => j <= Len(list[k].spec.refs)
    /\ map \in Maps /\ left \subseteq Names
    /\ secrets \in [Names -> Data]
    /\ settings \in Settings \cup {Absent}
    /\ pc \in {"storage", "metrics", "logs"} => settings # Absent
    /\ storage \in BOOLEAN
    /\ answer \in {"none", "ok", "notFound", "error", "broken"}
    /\ blame \in Blames

\* The references of the workloads in a list, of one kind and name.
RefsTo(entry, kind, n) ==
    {r \in {entry.spec.refs[b] : b \in 1..Len(entry.spec.refs)} : r.kind = kind /\ r.name = n}
SecretRefs(n)  == UNION {RefsTo(list[a], "secret", n) : a \in 1..Len(list)}
Provided(data, refs) ==
    \A r \in refs : ~r.optional => data # Absent /\ KeysOf(r) \subseteq data

\* CompleteAnswer: a message that is sent has every secret and every config
\* map its workloads need, with all the keys they need, in whatever order
\* optional and mandatory references to one object come.
CompleteAnswer ==
    answer = "ok" =>
        /\ \A n \in Names : Provided(secrets[n], SecretRefs(n))
        /\ \A a \in 1..Len(list), n \in Names :
              Provided(list[a].configMaps[n], RefsTo(list[a], "configMap", n))

\* NothingExtra: no message, finished or not, holds a secret that none of its
\* workloads refers to, or puts one workload's config map into another's.
NothingExtra ==
    \A n \in Names :
        /\ secrets[n] # Absent => SecretRefs(n) # {}
        /\ \A a \in 1..Len(list) :
              list[a].configMaps[n] # Absent => RefsTo(list[a], "configMap", n) # {}

Demanded(refs, keys) ==
    /\ \E r \in refs : ~r.optional
    /\ \A key \in keys : \E r \in refs : ~r.optional /\ r.key = key

\* FailureHasReason: a request that no failing call has hit is refused only for
\* an object some workload or setting needs; optional references never are the
\* reason.  404 stands for a missing device, or for a missing auth file secret,
\* and only a plain variable breaks a request off.
FailureHasReason ==
    /\ answer \in {"notFound", "error"} => blame.cause # "none"
    /\ blame.cause = "secret" => Demanded(SecretRefs(blame.name), blame.keys)
    /\ blame.cause = "configMap" => Demanded(RefsTo(list[k], "configMap", blame.name), blame.keys)
    /\ answer = "notFound" => blame.cause \in {"device", "auth"}
    /\ answer = "broken" => \E a \in 1..Len(list) : \E b \in 1..Len(list[a].spec.refs) :
                              list[a].spec.refs[b].kind = "plain"

\* What the objects of the cluster allow: every mandatory reference of the
\* device's workloads is met, none of them has a plain variable, and the
\* settings in force have what they need.
WorkloadReady(w) ==
    LET refs == {w.spec.refs[b] : b \in 1..Len(w.spec.refs)} IN
    /\ w.spec.auth # Absent => Met(w.spec.auth)
    /\ w.spec.allow # Absent => Met(w.spec.allow)
    /\ \A r \in refs : r.kind # "plain" /\ Provided(store[r.kind][r.name], {r})

Ready ==
    /\ device # Absent
    /\ ~device.deleting =>
          \A a \in 1..Len(device.workloads) :
             LET w == workloads[device.workloads[a]] IN
             w # Absent /\ ~w.deleting => WorkloadReady(w)
    /\ LET s == IF device.member /\ deviceSet # Absent THEN deviceSet ELSE device.setting IN
       \A a \in 1..Len(s.metrics) : Met(s.metrics[a])
    /\ LET s == IF device.member /\ deviceSet # Absent THEN deviceSet ELSE device.setting IN
       \A a \in 1..Len(s.logs) : Met(s.logs[a])

\* Delivered: once the objects stay ready, the device gets its configuration
\* again and again, whatever is optional is missing or not.
Delivered == <>[]Ready => []<>(answer = "ok")
=============================================================================
