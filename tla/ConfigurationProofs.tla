------------------------ MODULE ConfigurationProofs ------------------------
(***************************************************************************)
(* Proofs about Configuration, for every set of workloads, references,     *)
(* objects and edits: a message that is sent is complete, nothing is in it *)
(* that was not asked for, and no request fails for an optional reference. *)
(***************************************************************************)
EXTENDS Configuration, TLAPS

\* What extraction computes, without its order: a name nobody refers to is not
\* in the map, one with optional references only has nil, any other one has the
\* keys that are mandatory.
Agrees(m, refs) ==
    \A n \in Names :
        /\ m[n] = Unseen <=> ~ \E r \in refs : r.name = n
        /\ m[n] = Nil => \A r \in refs : r.name = n => r.optional
        /\ m[n] \notin {Nil, Unseen} =>
             /\ \E r \in refs : r.name = n /\ ~r.optional
             /\ \A r \in refs : r.name = n /\ ~r.optional => KeysOf(r) \subseteq m[n]
             /\ \A key \in m[n] : \E r \in refs : r.name = n /\ ~r.optional /\ r.key = key

\* The references noted so far: of the workload k, and of all up to k.
NotedMaps ==
    {r \in {list[k].spec.refs[b] : b \in 1..j} : r.kind = "configMap"}
Before(a, b) == a < k \/ (a = k /\ b <= j)
NotedSecrets ==
    {r \in Refs : /\ r.kind = "secret"
                  /\ \E a \in 1..Len(list) : \E b \in 1..Len(list[a].spec.refs) :
                        Before(a, b) /\ r = list[a].spec.refs[b]}

MapInv ==
    /\ pc \in {"auth", "allow"} => j = 0
    /\ pc \in {"auth", "allow", "noteMaps", "readMaps"} => Agrees(map, NotedMaps)
    /\ pc = "readMaps" => j = Len(list[k].spec.refs)
    /\ pc \in {"noteSecrets", "readSecrets"} => Agrees(map, NotedSecrets)
    /\ pc = "readSecrets" => k = Len(list) + 1
    /\ pc \in {"readMaps", "readSecrets"} => \A n \in left : map[n] # Unseen

\* Nothing of the message is there before it is read.
FreshInv ==
    /\ pc \in {"device", "workload"} =>
         /\ k = 0 /\ secrets = NothingRead
         /\ \A a \in 1..Len(list) : list[a].configMaps = NothingRead
    /\ pc = "device" => list = <<>> /\ i = 0
    /\ pc # "idle" => answer = "none" /\ blame = NoBlame

ConfigMapsOf(a) ==
    \A n \in Names : Provided(list[a].configMaps[n], RefsTo(list[a], "configMap", n))

\* What has been read is what the workloads need.
ReadInv ==
    /\ pc \in {"auth", "allow", "noteMaps", "readMaps"} =>
         \A a \in 1..Len(list) : a < k => ConfigMapsOf(a)
    /\ pc = "readMaps" =>
         \A n \in Names \ left :
            Provided(list[k].configMaps[n], RefsTo(list[k], "configMap", n))
    /\ pc \in {"noteSecrets", "readSecrets", "set", "storage", "metrics", "logs"} \/ answer = "ok" =>
         \A a \in 1..Len(list) : ConfigMapsOf(a)
    /\ pc = "readSecrets" =>
         \A n \in Names \ left : Provided(secrets[n], SecretRefs(n))
    /\ pc \in {"set", "storage", "metrics", "logs"} \/ answer = "ok" =>
         \A n \in Names : Provided(secrets[n], SecretRefs(n))

IInv == TypeOK /\ MapInv /\ FreshInv /\ ReadInv /\ NothingExtra /\ FailureHasReason

-----------------------------------------------------------------------------
(* Operators.                                                              *)

\* The shape of pod specs, needs and settings.
LEMMA Shapes ==
    /\ \A spec \in Specs : spec.refs \in Seq(Refs) /\ spec.auth \in Needs \cup {Absent} /\ spec.allow \in Needs \cup {Absent}
    /\ \A s \in Settings : s.storage \in Seq(Needs) /\ s.metrics \in Seq(Needs) /\ s.logs \in Seq(Needs)
    /\ \A need \in Needs : need.kind \in Kinds /\ need.name \in Names /\ need.keys \in SUBSET Keys
    /\ \A r \in Refs : r.kind \in Kinds \cup {"plain"} /\ r.name \in Names /\ r.key \in Keys \cup {Nil} /\ r.optional \in BOOLEAN
    /\ \A d \in Devices : d.workloads \in Lists /\ d.setting \in Settings /\ d.workloads \in Seq(Workloads)
<1>1. \A spec \in Specs : spec.refs \in Seq(Refs) /\ spec.auth \in Needs \cup {Absent} /\ spec.allow \in Needs \cup {Absent}
  BY SpecsAssumption
<1>2. \A s \in Settings : s.storage \in Seq(Needs) /\ s.metrics \in Seq(Needs) /\ s.logs \in Seq(Needs)
  BY SettingsAssumption
<1>3. \A need \in Needs : need.kind \in Kinds /\ need.name \in Names /\ need.keys \in SUBSET Keys
  BY DEF Needs
<1>4. \A r \in Refs : r.kind \in Kinds \cup {"plain"} /\ r.name \in Names /\ r.key \in Keys \cup {Nil} /\ r.optional \in BOOLEAN
  BY DEF Refs
<1>5. \A d \in Devices : d.workloads \in Lists /\ d.setting \in Settings /\ d.workloads \in Seq(Workloads)
  BY ListsAssumption DEF Devices
<1> QED BY <1>1, <1>2, <1>3, <1>4, <1>5

\* Note keeps the type of the map.
LEMMA NoteType ==
    ASSUME NEW m \in Maps, NEW ref \in Refs
    PROVE  Note(m, ref) \in Maps
<1>1. ref.name \in Names /\ KeysOf(ref) \in SUBSET Keys
  BY Shapes DEF KeysOf
<1>2. m[ref.name] \in (SUBSET Keys) \cup {Nil, Unseen}
  BY <1>1 DEF Maps
<1>3. ASSUME m[ref.name] \notin {Nil, Unseen} PROVE m[ref.name] \cup KeysOf(ref) \in SUBSET Keys
  <2>1. m[ref.name] \in SUBSET Keys
    BY <1>2, <1>3
  <2> QED BY <1>1, <2>1
<1> DEFINE new == IF ref.optional THEN IF m[ref.name] = Unseen THEN Nil ELSE m[ref.name]
                  ELSE IF m[ref.name] \in {Nil, Unseen} THEN KeysOf(ref) ELSE m[ref.name] \cup KeysOf(ref)
<1>4. new \in (SUBSET Keys) \cup {Nil, Unseen}
  BY <1>1, <1>2, <1>3
<1>5. Note(m, ref) = [m EXCEPT ![ref.name] = new]
  BY <1>1 DEF Note, Maps
<1> HIDE DEF new
<1> QED BY <1>1, <1>4, <1>5 DEF Maps

\* One more reference: Note computes what Agrees asks for.
LEMMA NoteAgrees ==
    ASSUME NEW m \in Maps, NEW ref \in Refs, NEW refs \in SUBSET Refs, Agrees(m, refs)
    PROVE  Agrees(Note(m, ref), refs \cup {ref})
<1> DEFINE q == Note(m, ref)
<1>1. ref.name \in Names /\ ref.optional \in BOOLEAN /\ KeysOf(ref) \in SUBSET Keys
  BY Shapes DEF KeysOf
<1>2. ASSUME NEW n \in Names, n # ref.name PROVE q[n] = m[n]
  BY <1>1, <1>2 DEF Note, Maps
<1>3. q[ref.name] = IF ref.optional THEN IF m[ref.name] = Unseen THEN Nil ELSE m[ref.name]
                    ELSE IF m[ref.name] \in {Nil, Unseen} THEN KeysOf(ref) ELSE m[ref.name] \cup KeysOf(ref)
  BY <1>1 DEF Note, Maps
<1>4. m[ref.name] \in (SUBSET Keys) \cup {Nil, Unseen}
  BY <1>1 DEF Maps
<1>5. ASSUME NEW n \in Names PROVE
        /\ q[n] = Unseen <=> ~ \E r \in refs \cup {ref} : r.name = n
        /\ q[n] = Nil => \A r \in refs \cup {ref} : r.name = n => r.optional
        /\ q[n] \notin {Nil, Unseen} =>
             /\ \E r \in refs \cup {ref} : r.name = n /\ ~r.optional
             /\ \A r \in refs \cup {ref} : r.name = n /\ ~r.optional => KeysOf(r) \subseteq q[n]
             /\ \A key \in q[n] : \E r \in refs \cup {ref} : r.name = n /\ ~r.optional /\ r.key = key
  <2>1. CASE n # ref.name
    BY <1>2, <2>1 DEF Agrees
  <2>2. CASE n = ref.name /\ ref.optional
    BY <1>1, <1>3, <1>4, <2>2, MarksAssumption DEF Agrees
  <2>3. CASE n = ref.name /\ ~ref.optional /\ m[n] \in {Nil, Unseen}
    <3>1. q[n] = KeysOf(ref)
      BY <1>3, <2>3
    <3>2. \A r \in refs : r.name = n => r.optional
      BY <2>3 DEF Agrees
    <3> HIDE DEF q
    <3> QED BY <1>1, <2>3, <3>1, <3>2, MarksAssumption DEF KeysOf
  <2>4. CASE n = ref.name /\ ~ref.optional /\ m[n] \notin {Nil, Unseen}
    <3>0. m[n] \in SUBSET Keys
      BY <1>4, <2>4
    <3>1. q[n] = m[n] \cup KeysOf(ref) /\ q[n] \in SUBSET Keys
      <4>1. q[n] = m[n] \cup KeysOf(ref)
        BY <1>3, <2>4
      <4> HIDE DEF q
      <4> QED BY <1>1, <3>0, <4>1
    <3>2. /\ \A r \in refs : r.name = n /\ ~r.optional => KeysOf(r) \subseteq m[n]
          /\ \A key \in m[n] : \E r \in refs : r.name = n /\ ~r.optional /\ r.key = key
      BY <2>4 DEF Agrees
    <3>3. \A key \in KeysOf(ref) : key = ref.key
      BY DEF KeysOf
    <3> HIDE DEF q
    <3> QED BY <1>1, <2>4, <3>1, <3>2, <3>3, MarksAssumption
  <2> QED BY <1>1, <2>1, <2>2, <2>3, <2>4
<1> QED BY <1>5 DEF Agrees

\* A read that is not refused gives every reference what it needs.
LEMMA ReadProvides ==
    ASSUME NEW m, NEW refs, Agrees(m, refs), NEW n \in Names, m[n] # Unseen,
           NEW data, ~Refused(data, m[n])
    PROVE  Provided(data, {r \in refs : r.name = n})
<1>1. CASE m[n] = Nil
  BY <1>1 DEF Agrees, Provided
<1>2. CASE m[n] # Nil
  <2>1. data # Absent /\ m[n] \ data = {}
    BY <1>2 DEF Refused
  <2>2. \A r \in refs : r.name = n /\ ~r.optional => KeysOf(r) \subseteq m[n]
    BY <1>2 DEF Agrees
  <2> QED BY <2>1, <2>2 DEF Provided
<1> QED BY <1>1, <1>2

\* A read that is refused is refused for a mandatory reference.
LEMMA RefusalDemanded ==
    ASSUME NEW m, NEW refs, Agrees(m, refs), NEW n \in Names, m[n] # Unseen,
           NEW data, Refused(data, m[n])
    PROVE  Demanded({r \in refs : r.name = n}, MissingKeys(data, m[n]))
<1>1. m[n] # Nil
  BY DEF Refused
<1>2. /\ \E r \in refs : r.name = n /\ ~r.optional
      /\ \A key \in m[n] : \E r \in refs : r.name = n /\ ~r.optional /\ r.key = key
  BY <1>1 DEF Agrees
<1>3. MissingKeys(data, m[n]) \subseteq m[n]
  BY DEF MissingKeys
<1> QED BY <1>2, <1>3 DEF Demanded

-----------------------------------------------------------------------------
(* Types.                                                                  *)

\* Users keep the types.
LEMMA UsersType == TypeOK /\ Users => TypeOK'
<1> SUFFICES ASSUME TypeOK, Users PROVE TypeOK'
  OBVIOUS
<1> USE Shapes, ContentsAssumption, BoundsAssumption DEF TypeOK, Data, Devices, cluster
<1>1. ASSUME NEW kind \in Kinds, NEW n \in Names, NEW data \in Contents, SetObject(kind, n, data) PROVE TypeOK'
  BY <1>1 DEF SetObject, Edit
<1>2. ASSUME NEW w \in Workloads, NEW gone \in BOOLEAN, DeleteWorkload(w, gone) PROVE TypeOK'
  BY <1>2 DEF DeleteWorkload, Edit
<1>3. ASSUME NEW w \in Workloads, NEW spec \in Specs, WriteWorkload(w, spec) PROVE TypeOK'
  BY <1>3 DEF WriteWorkload, Edit
<1>4. ASSUME NEW gone \in BOOLEAN, RemoveDevice(gone) PROVE TypeOK'
  <2>1. device \in Devices
    BY <1>4 DEF RemoveDevice
  <2>2. [device EXCEPT !.deleting = TRUE] \in Devices
    BY <2>1
  <2>3. device' \in Devices \cup {Absent}
    BY <1>4, <2>2 DEF RemoveDevice
  <2> QED BY <1>4, <2>3 DEF RemoveDevice, Edit
<1>5. ASSUME NEW ws \in Lists, PlaceWorkloads(ws) PROVE TypeOK'
  <2>1. device \in Devices
    BY <1>5 DEF PlaceWorkloads
  <2>2. [device EXCEPT !.workloads = ws] \in Devices
    BY <2>1
  <2>3. device' \in Devices \cup {Absent}
    BY <1>5, <2>2 DEF PlaceWorkloads
  <2> QED BY <1>5, <2>3 DEF PlaceWorkloads, Edit
<1>6. CASE RemoveDeviceSet
  BY <1>6 DEF RemoveDeviceSet, Edit
<1> QED BY <1>1, <1>2, <1>3, <1>4, <1>5, <1>6 DEF Users

\* What an answer of Fail may hold.
Causes == {"none", "fault", "device", "auth", "allow", "secret", "configMap", "metrics", "logs"}
Rest == <<cluster, edits, dev, i, list, k, j, map, left, secrets, settings, storage>>

\* A request that fails keeps the types.
LEMMA FailType ==
    ASSUME TypeOK, NEW what \in {"notFound", "error"}, NEW cause \in Causes,
           NEW n \in Names \cup {Nil}, NEW keys \in SUBSET Keys,
           Fail(what, cause, n, keys), UNCHANGED Rest, faults' \in 0..MaxFaults
    PROVE  TypeOK'
<1>1. blame' \in Blames
  BY DEF Fail, Blames, Causes
<1>2. pc' = "idle" /\ answer' \in {"none", "ok", "notFound", "error", "broken"}
  BY DEF Fail
<1> QED BY <1>1, <1>2 DEF TypeOK, Rest, cluster

\* The keys that are missing are keys.
LEMMA MissingType ==
    ASSUME TypeOK, NEW need \in Needs
    PROVE  Missing(need) \in SUBSET Keys
  BY Shapes DEF Missing

\* The keys a refused read misses are keys.
LEMMA MissingKeysType ==
    ASSUME NEW m \in Maps, NEW n \in Names, m[n] # Unseen, NEW data \in Data, Refused(data, m[n])
    PROVE  MissingKeys(data, m[n]) \in SUBSET Keys
<1>1. m[n] \in SUBSET Keys
  BY DEF Maps, Refused
<1> QED BY <1>1 DEF MissingKeys

\* The references of a workload in the list.
LEMMA RefsOf ==
    ASSUME TypeOK, NEW a \in 1..Len(list)
    PROVE  /\ list[a] \in Entries /\ list[a].spec \in Specs
           /\ list[a].spec.refs \in Seq(Refs)
           /\ \A b \in 1..Len(list[a].spec.refs) : list[a].spec.refs[b] \in Refs
           /\ list[a].configMaps \in [Names -> Data]
<1>1. list[a] \in Entries
  BY DEF TypeOK
<1>2. list[a].spec \in Specs /\ list[a].configMaps \in [Names -> Data]
  BY <1>1 DEF Entries
<1>3. list[a].spec.refs \in Seq(Refs)
  BY <1>2, Shapes
<1> HIDE DEF Refs
<1>4. \A b \in 1..Len(list[a].spec.refs) : list[a].spec.refs[b] \in Refs
  BY <1>3
<1> QED BY <1>1, <1>2, <1>3, <1>4

\* The request keeps the types.
LEMMA RequestType == IInv /\ (Request \/ Handler \/ ReadFails) => TypeOK'
<1> SUFFICES ASSUME IInv, Request \/ Handler \/ ReadFails PROVE TypeOK'
  OBVIOUS
<1> USE MarksAssumption, BoundsAssumption DEF IInv, TypeOK, cluster
<1>1. CASE Request
  <2>1. <<>> \in Seq(Entries) /\ EmptyMap \in Maps /\ NothingRead \in [Names -> Data] /\ NoBlame \in Blames
    BY DEF EmptyMap, NothingRead, NoBlame, Maps, Data, Blames
  <2>2. pc' = "device" /\ dev' = Absent /\ i' = 0 /\ j' = 0 /\ settings' = Absent /\ answer' = "none"
    BY <1>1 DEF Request
  <2>3. list' \in Seq(Entries) /\ k' \in 0..(Len(list') + 1)
    BY <1>1, <2>1 DEF Request
  <2>4. map' \in Maps /\ left' \subseteq Names /\ secrets' \in [Names -> Data] /\ storage' \in BOOLEAN /\ blame' \in Blames
    BY <1>1, <2>1 DEF Request
  <2>5. UNCHANGED <<device, workloads, store, deviceSet, edits, faults>>
    BY <1>1 DEF Request
  <2> QED BY <2>2, <2>3, <2>4, <2>5
<1>2. CASE ReadDevice
  <2>1. CASE device = Absent
    BY <1>2, <2>1, FailType DEF ReadDevice, Rest, Causes
  <2>2. CASE device # Absent
    <3>1. device \in Devices /\ device.workloads \in Seq(Workloads)
      BY <2>2, Shapes
    <3>2. dev' = device /\ pc' \in {"set", "workload"} /\ i' = 0
      BY <1>2, <2>2 DEF ReadDevice, FreshInv
    <3> QED BY <1>2, <2>2, <3>1, <3>2 DEF ReadDevice
  <2> QED BY <2>1, <2>2
<1>3. CASE ReadWorkload
  <2>1. dev \in Devices /\ dev.workloads \in Seq(Workloads)
    BY <1>3, Shapes DEF ReadWorkload
  <2>2. dev.workloads[i + 1] \in Workloads
    BY <1>3, <2>1 DEF ReadWorkload
  <2> DEFINE w == dev.workloads[i + 1]
             entry == [name |-> w, spec |-> workloads[w].spec, configMaps |-> NothingRead]
  <2>3. ASSUME workloads[w] # Absent PROVE entry \in Entries
    <3>1. workloads[w] \in [spec : Specs, deleting : BOOLEAN]
      BY <2>2, <2>3
    <3> QED BY <2>2, <3>1 DEF Entries, NothingRead, Data
  <2>4. list' \in Seq(Entries) /\ Len(list') >= Len(list)
    <3>1. CASE workloads[w] # Absent /\ ~workloads[w].deleting
      <4>1. list' = Append(list, entry)
        BY <1>3, <3>1 DEF ReadWorkload
      <4> HIDE DEF entry
      <4> QED BY <2>3, <3>1, <4>1
    <3>2. CASE ~(workloads[w] # Absent /\ ~workloads[w].deleting)
      BY <1>3, <3>2 DEF ReadWorkload
    <3> QED BY <3>1, <3>2
  <2>5. i' = i + 1 /\ i' \in Nat /\ i' <= Len(dev.workloads) /\ pc' = "workload"
    BY <1>3, <2>1 DEF ReadWorkload
  <2> QED BY <1>3, <2>4, <2>5 DEF ReadWorkload
<1>4. CASE NextWorkload
  <2>1. EmptyMap \in Maps
    BY DEF EmptyMap, Maps
  <2>2. CASE k < Len(list)
    <3>1. k + 1 \in 1..Len(list)
      <4>1. k \in Nat /\ Len(list) \in Nat
        OBVIOUS
      <4> QED BY ONLY <2>2, <4>1
    <3>2. Len(list[k + 1].spec.refs) \in Nat
      <4>1. list[k + 1].spec.refs \in Seq(Refs)
        BY ONLY IInv, <3>1, RefsOf DEF IInv
      <4> QED BY ONLY <4>1
    <3> QED BY <1>4, <2>1, <2>2, <3>1, <3>2 DEF NextWorkload
  <2>3. CASE k = Len(list)
    <3>1. k' = 1 /\ pc' = "noteSecrets" /\ j' = 0 /\ map' \in Maps
      BY <1>4, <2>1, <2>3 DEF NextWorkload
    <3>2. k' <= Len(list) => Len(list[k'].spec.refs) \in Nat
      BY <3>1, RefsOf
    <3> QED BY <1>4, <2>3, <3>1, <3>2 DEF NextWorkload
  <2> QED BY <1>4, <2>2, <2>3 DEF NextWorkload
<1>5. CASE ReadAuthFile
  <2> DEFINE need == list[k].spec.auth
  <2>0. k \in 1..Len(list) /\ list[k].spec \in Specs
    BY <1>5, RefsOf DEF ReadAuthFile
  <2>1. need \in Needs \cup {Absent}
    BY <2>0, Shapes
  <2>2. CASE need # Absent => Met(need)
    BY <1>5, <2>0, <2>2, RefsOf DEF ReadAuthFile, MapInv
  <2>3. CASE need # Absent /\ ~Met(need)
    <3>1. need.name \in Names /\ Missing(need) \in SUBSET Keys
      BY <2>1, <2>3, Shapes, MissingType
    <3>2. \E what \in {"notFound", "error"} : Fail(what, "auth", need.name, Missing(need))
      BY <1>5, <2>3 DEF ReadAuthFile
    <3> QED BY <1>5, <3>1, <3>2, FailType DEF ReadAuthFile, Rest, Causes
  <2> QED BY <2>2, <2>3
<1>6. CASE ReadAllowList
  <2> DEFINE need == list[k].spec.allow
  <2>0. k \in 1..Len(list) /\ list[k].spec \in Specs
    BY <1>6, RefsOf DEF ReadAllowList
  <2>1. need \in Needs \cup {Absent}
    BY <2>0, Shapes
  <2>2. CASE need # Absent => Met(need)
    BY <1>6, <2>0, <2>2, RefsOf DEF ReadAllowList, MapInv
  <2>3. CASE need # Absent /\ ~Met(need)
    <3>1. need.name \in Names /\ Missing(need) \in SUBSET Keys
      BY <2>1, <2>3, Shapes, MissingType
    <3>2. \E what \in {"notFound", "error"} : Fail(what, "allow", need.name, Missing(need))
      BY <1>6, <2>3 DEF ReadAllowList
    <3> QED BY <1>6, <3>1, <3>2, FailType DEF ReadAllowList, Rest, Causes
  <2> QED BY <2>2, <2>3
<1>7. CASE NoteConfigMaps
  <2>1. k \in 1..Len(list) /\ list[k].spec.refs \in Seq(Refs) /\ j \in 0..Len(list[k].spec.refs)
    BY <1>7, RefsOf DEF NoteConfigMaps
  <2>2. CASE j < Len(list[k].spec.refs)
    <3>1. NextRef \in Refs
      BY <2>1, <2>2, RefsOf DEF NextRef
    <3>2. map' \in Maps
      BY <1>7, <2>2, <3>1, NoteType DEF NoteConfigMaps
    <3>3. CASE NextRef.kind = "plain"
      BY <1>7, <2>2, <3>2, <3>3 DEF NoteConfigMaps
    <3>4. CASE NextRef.kind # "plain"
      <4>1. /\ pc = "noteMaps" /\ pc' = pc /\ left' = left /\ answer' = answer
            /\ UNCHANGED <<device, workloads, store, deviceSet, edits, faults, dev, i, list, k, secrets, settings, storage, blame>>
        BY <1>7, <2>2, <3>4 DEF NoteConfigMaps
      <4>2. j' \in Nat /\ j' <= Len(list[k].spec.refs)
        <5>1. j' = j + 1
          BY <1>7, <2>2, <3>4 DEF NoteConfigMaps
        <5>2. Len(list[k].spec.refs) \in Nat
          BY ONLY <2>1
        <5> QED BY ONLY <2>1, <2>2, <5>1, <5>2
      <4> QED BY ONLY TypeOK, <3>2, <4>1, <4>2 DEF TypeOK
    <3> QED BY <3>3, <3>4
  <2>3. CASE j = Len(list[k].spec.refs)
    BY <1>7, <2>3 DEF NoteConfigMaps, Named
  <2>4. j < Len(list[k].spec.refs) \/ j = Len(list[k].spec.refs)
    <3>1. Len(list[k].spec.refs) \in Nat
      BY ONLY <2>1
    <3> QED BY ONLY <2>1, <3>1
  <2> QED BY ONLY <2>2, <2>3, <2>4
<1>8. CASE NoteSecrets
  <2>1. CASE k <= Len(list) /\ j < Len(list[k].spec.refs)
    <3>1. k \in 1..Len(list) /\ list[k].spec.refs \in Seq(Refs)
      BY <1>8, <2>1, RefsOf DEF NoteSecrets
    <3>2. NextRef \in Refs
      BY <2>1, <3>1, RefsOf DEF NextRef
    <3>3. map' \in Maps
      BY <1>8, <2>1, <3>2, NoteType DEF NoteSecrets
    <3>4. pc' = pc /\ k' = k /\ j' = j + 1 /\ left' = left
      BY <1>8, <2>1, <3>1 DEF NoteSecrets
    <3>5. UNCHANGED <<device, workloads, store, deviceSet, edits, faults, dev, i, list, secrets, settings, storage, answer, blame>>
      BY <1>8 DEF NoteSecrets
    <3>6. j' \in Nat /\ j' <= Len(list[k].spec.refs)
      <4>1. Len(list[k].spec.refs) \in Nat
        BY ONLY <3>1
      <4>2. j \in Nat
        OBVIOUS
      <4> QED BY ONLY <2>1, <3>4, <4>1, <4>2
    <3>7. pc = "noteSecrets"
      BY <1>8 DEF NoteSecrets
    <3> QED BY ONLY TypeOK, <3>3, <3>4, <3>5, <3>6, <3>7 DEF TypeOK
  <2>2. CASE k <= Len(list) /\ j = Len(list[k].spec.refs)
    <3>1. pc' = pc /\ k' = k + 1 /\ j' = 0 /\ left' = left /\ map' = map
      BY <1>8, <2>2 DEF NoteSecrets
    <3>2. k' <= Len(list) => Len(list[k'].spec.refs) \in Nat
      BY <1>8, <3>1, RefsOf DEF NoteSecrets
    <3> QED BY <1>8, <2>2, <3>1, <3>2 DEF NoteSecrets
  <2>3. CASE k > Len(list)
    BY <1>8, <2>3 DEF NoteSecrets, Named
  <2>4. k <= Len(list) => Len(list[k].spec.refs) \in Nat /\ j <= Len(list[k].spec.refs)
    BY <1>8, RefsOf DEF NoteSecrets
  <2>5. k \in Nat /\ Len(list) \in Nat /\ j \in Nat
    OBVIOUS
  <2> QED BY ONLY <2>1, <2>2, <2>3, <2>4, <2>5
<1>9. CASE SecretsDone
  BY <1>9 DEF SecretsDone
<1>10. ASSUME NEW n \in Names, ReadConfigMap(n) PROVE TypeOK'
  <2> DEFINE data == store["configMap"][n]
  <2>1. data \in Data /\ map[n] # Unseen /\ k \in 1..Len(list)
    BY <1>10 DEF ReadConfigMap, MapInv, Kinds
  <2>2. CASE ~Refused(data, map[n])
    <3>1. list[k] \in Entries
      BY <2>1, RefsOf
    <3>2. [list[k] EXCEPT !.configMaps[n] = data] \in Entries
      BY <2>1, <3>1 DEF Entries
    <3>3. list' = [list EXCEPT ![k] = [list[k] EXCEPT !.configMaps[n] = data]]
      BY <1>10, <2>1, <2>2 DEF ReadConfigMap
    <3>4. list' \in Seq(Entries) /\ Len(list') = Len(list)
      BY <2>1, <3>2, <3>3
    <3> QED BY <1>10, <2>2, <3>4 DEF ReadConfigMap
  <2>3. CASE Refused(data, map[n])
    <3>1. MissingKeys(data, map[n]) \in SUBSET Keys
      BY <2>1, <2>3, MissingKeysType
    <3> QED BY <1>10, <2>3, <3>1, FailType DEF ReadConfigMap, Rest, Causes
  <2> QED BY <2>2, <2>3
<1>11. ASSUME NEW n \in Names, ReadSecret(n) PROVE TypeOK'
  <2> DEFINE data == store["secret"][n]
  <2>1. data \in Data /\ map[n] # Unseen
    BY <1>11 DEF ReadSecret, MapInv, Kinds
  <2>2. CASE ~Refused(data, map[n])
    BY <1>11, <2>1, <2>2 DEF ReadSecret
  <2>3. CASE Refused(data, map[n])
    <3>1. MissingKeys(data, map[n]) \in SUBSET Keys
      BY <2>1, <2>3, MissingKeysType
    <3> QED BY <1>11, <2>3, <3>1, FailType DEF ReadSecret, Rest, Causes
  <2> QED BY <2>2, <2>3
<1>12. CASE ReadDeviceSet
  <2>1. dev.setting \in Settings
    BY <1>12, Shapes DEF ReadDeviceSet
  <2> QED BY <1>12, <2>1 DEF ReadDeviceSet
<1>13. CASE ReadStorage
  <2>0. (StorageNeeds # <<>>) \in BOOLEAN
    BY Zenon
  <2>1. j' \in Nat /\ storage' \in BOOLEAN /\ pc' \in {"storage", "metrics"}
    <3>1. CASE UNCHANGED storage
      BY <1>13, <3>1 DEF ReadStorage
    <3>2. CASE storage' = (StorageNeeds # <<>>) /\ j' = 0 /\ pc' = "metrics"
      BY <2>0, <3>2
    <3> QED BY <1>13, <3>1, <3>2 DEF ReadStorage
  <2> QED BY <1>13, <2>1 DEF ReadStorage
<1>14. CASE ReadMetrics
  <2> DEFINE needs == settings.metrics
  <2>0. needs \in Seq(Needs)
    BY <1>14, Shapes DEF ReadMetrics, ReadSection
  <2>1. CASE j < Len(needs) /\ ~Met(needs[j + 1])
    <3>1. needs[j + 1] \in Needs
      BY <2>0, <2>1
    <3>2. needs[j + 1].name \in Names /\ Missing(needs[j + 1]) \in SUBSET Keys
      BY <3>1, Shapes, MissingType
    <3>3. Fail("error", "metrics", needs[j + 1].name, Missing(needs[j + 1])) /\ UNCHANGED Rest /\ UNCHANGED faults
      BY <1>14, <2>1 DEF ReadMetrics, ReadSection, Rest
    <3> QED BY <3>2, <3>3, FailType DEF Causes
  <2>5. UNCHANGED <<device, workloads, store, deviceSet, edits, faults, dev, i, list, k, map, left, secrets, settings, storage>>
    BY <1>14 DEF ReadMetrics, ReadSection
  <2>2. CASE j < Len(needs) /\ Met(needs[j + 1])
    <3>1. pc = "metrics" /\ j' = j + 1 /\ UNCHANGED <<pc, answer, blame>>
      BY <1>14, <2>2 DEF ReadMetrics, ReadSection
    <3> QED BY ONLY TypeOK, <2>5, <3>1 DEF TypeOK
  <2>3. CASE j = Len(needs)
    <3>1. pc = "metrics" /\ j' = 0 /\ pc' = "logs" /\ UNCHANGED <<answer, blame>>
      <4> HIDE DEF TypeOK, IInv
      <4> QED BY <1>14, <2>3 DEF ReadMetrics, ReadSection
    <3> QED BY ONLY TypeOK, <2>5, <3>1 DEF TypeOK
  <2>4. j < Len(needs) \/ j = Len(needs)
    BY <1>14 DEF ReadMetrics, ReadSection
  <2> QED BY <2>1, <2>2, <2>3, <2>4
<1>15. CASE ReadLogs
  <2> DEFINE needs == settings.logs
  <2>0. needs \in Seq(Needs)
    BY <1>15, Shapes DEF ReadLogs, ReadSection
  <2>1. CASE j < Len(needs) /\ ~Met(needs[j + 1])
    <3>1. needs[j + 1] \in Needs
      BY <2>0, <2>1
    <3>2. needs[j + 1].name \in Names /\ Missing(needs[j + 1]) \in SUBSET Keys
      BY <3>1, Shapes, MissingType
    <3>3. Fail("error", "logs", needs[j + 1].name, Missing(needs[j + 1])) /\ UNCHANGED Rest /\ UNCHANGED faults
      BY <1>15, <2>1 DEF ReadLogs, ReadSection, Rest
    <3> QED BY <3>2, <3>3, FailType DEF Causes
  <2>2. CASE j < Len(needs) /\ Met(needs[j + 1])
    BY <1>15, <2>2 DEF ReadLogs, ReadSection
  <2>3. CASE j = Len(needs)
    BY <1>15, <2>3 DEF ReadLogs, ReadSection
  <2>4. j < Len(needs) \/ j = Len(needs)
    BY <1>15 DEF ReadLogs, ReadSection
  <2> QED BY <2>1, <2>2, <2>3, <2>4
<1>16. CASE ReadFails
  <2>0. faults' \in 0..MaxFaults
    BY <1>16 DEF ReadFails
  <2>1. CASE Reading /\ Fail("error", "fault", Nil, {}) /\ UNCHANGED <<j, settings>>
    BY <1>16, <2>0, <2>1, FailType DEF ReadFails, Rest, Causes
  <2>2. CASE pc = "set"
    <3>1. dev.setting \in Settings
      BY <1>16, <2>2, Shapes DEF ReadFails
    <3> QED BY <1>16, <2>0, <2>2, <3>1 DEF ReadFails, Reading
  <2>3. CASE pc = "storage"
    BY <1>16, <2>0, <2>3 DEF ReadFails, Reading
  <2> QED BY <1>16, <2>1, <2>2, <2>3 DEF ReadFails
<1> QED BY <1>1, <1>2, <1>3, <1>4, <1>5, <1>6, <1>7, <1>8, <1>9, <1>10, <1>11, <1>12, <1>13, <1>14, <1>15, <1>16 DEF Handler

-----------------------------------------------------------------------------
(* References.                                                             *)

\* All references of a workload are noted: they are the ones of the map.
LEMMA AllNotedMaps ==
    ASSUME TypeOK, k \in 1..Len(list), j = Len(list[k].spec.refs), NEW n \in Names
    PROVE  RefsTo(list[k], "configMap", n) = {r \in NotedMaps : r.name = n}
  BY DEF RefsTo, NotedMaps

\* The references to a secret, by position.
LEMMA SecretPositions ==
    ASSUME NEW n \in Names, NEW r
    PROVE  r \in SecretRefs(n) <=>
             /\ r.kind = "secret" /\ r.name = n
             /\ \E a \in 1..Len(list) : \E b \in 1..Len(list[a].spec.refs) : r = list[a].spec.refs[b]
  BY DEF SecretRefs, RefsTo

\* All references of all workloads are noted.
LEMMA AllNotedSecrets ==
    ASSUME TypeOK, k = Len(list) + 1, NEW n \in Names
    PROVE  SecretRefs(n) = {r \in NotedSecrets : r.name = n}
<1>1. \A a \in 1..Len(list) : \A b \in 1..Len(list[a].spec.refs) : list[a].spec.refs[b] \in Refs
  BY RefsOf
<1>2. \A a \in 1..Len(list) : a < k
  BY DEF TypeOK
<1>3. ASSUME NEW r \in SecretRefs(n) PROVE r \in NotedSecrets /\ r.name = n
  BY <1>1, <1>2, <1>3, SecretPositions DEF NotedSecrets, Before
<1>4. ASSUME NEW r \in NotedSecrets, r.name = n PROVE r \in SecretRefs(n)
  BY <1>4, SecretPositions DEF NotedSecrets
<1> QED BY <1>3, <1>4

\* A config map put into the message leaves the references alone.
LEMMA SameSpecs ==
    ASSUME TypeOK, NEW n \in Names, NEW data, k \in 1..Len(list),
           list' = [list EXCEPT ![k].configMaps[n] = data]
    PROVE  /\ Len(list') = Len(list)
           /\ \A a \in 1..Len(list) : list'[a].spec = list[a].spec
           /\ \A a \in 1..Len(list) : a # k => list'[a] = list[a]
           /\ \A q \in Names \ {n} : list'[k].configMaps[q] = list[k].configMaps[q]
           /\ list'[k].configMaps[n] = data
<1>1. list \in Seq(Entries) /\ list[k] \in Entries /\ list[k].configMaps \in [Names -> Data]
  BY RefsOf DEF TypeOK
<1> DEFINE entry == [list[k] EXCEPT !.configMaps = [list[k].configMaps EXCEPT ![n] = data]]
<1>2. list' = [list EXCEPT ![k] = entry]
  BY <1>1
<1>3. entry.spec = list[k].spec /\ entry.configMaps = [list[k].configMaps EXCEPT ![n] = data]
  BY <1>1 DEF Entries
<1> HIDE DEF entry
<1>4. Len(list') = Len(list) /\ list'[k] = entry /\ \A a \in 1..Len(list) : a # k => list'[a] = list[a]
  BY <1>1, <1>2
<1> QED BY <1>1, <1>3, <1>4

\* With the same specs the references are the same.
LEMMA SameRefs ==
    ASSUME Len(list') = Len(list), \A a \in 1..Len(list) : list'[a].spec = list[a].spec
    PROVE  /\ \A a \in 1..Len(list) : \A q \in Names : RefsTo(list'[a], "configMap", q) = RefsTo(list[a], "configMap", q)
           /\ \A q \in Names : SecretRefs(q)' = SecretRefs(q)
<1>1. \A a \in 1..Len(list) : \A q \in Names : \A kind : RefsTo(list'[a], kind, q) = RefsTo(list[a], kind, q)
  BY DEF RefsTo
<1>2. \A q \in Names : SecretRefs(q)' = SecretRefs(q)
  BY <1>1 DEF SecretRefs
<1> QED BY <1>1, <1>2

-----------------------------------------------------------------------------
(* A failing request and a step that does not touch the message.           *)

Others == MapInv /\ FreshInv /\ ReadInv /\ NothingExtra /\ FailureHasReason
message == <<i, list, k, j, map, left, secrets, answer, blame>>

\* A failing request leaves the message as it is.
LEMMA FailKeeps ==
    ASSUME NEW what \in {"notFound", "error"}, NEW cause, NEW n, NEW keys, Others,
           Fail(what, cause, n, keys), UNCHANGED Rest
    PROVE  MapInv' /\ FreshInv' /\ ReadInv' /\ NothingExtra'
<1>1. pc' = "idle" /\ answer' # "ok" /\ answer' # "none"
  BY DEF Fail
<1>2. MapInv'
  BY <1>1 DEF MapInv
<1>3. FreshInv'
  BY <1>1 DEF FreshInv
<1>4. ReadInv'
  BY <1>1 DEF ReadInv
<1>5. NothingExtra'
  BY DEF Others, NothingExtra, Rest, SecretRefs
<1> QED BY <1>2, <1>3, <1>4, <1>5

\* What is said of a list of workloads depends on the list alone.
LEMMA SameList ==
    ASSUME list' = list
    PROVE  /\ \A n : SecretRefs(n)' = SecretRefs(n)
           /\ \A a : ConfigMapsOf(a)' = ConfigMapsOf(a)
<1>1. \A n : SecretRefs(n)' = SecretRefs(n)
  BY DEF SecretRefs
<1>2. \A a : ConfigMapsOf(a)' = ConfigMapsOf(a)
  BY DEF ConfigMapsOf
<1> QED BY <1>1, <1>2

\* Users do not touch a request.
LEMMA UsersOthers == Others /\ UNCHANGED <<pc, message>> => Others'
<1> SUFFICES ASSUME Others, UNCHANGED <<pc, message>> PROVE Others'
  OBVIOUS
<1> USE DEF message, Others
<1>1. MapInv'
  <2>1. NotedMaps' = NotedMaps
    BY DEF NotedMaps
  <2>2. NotedSecrets' = NotedSecrets
    BY DEF NotedSecrets, Before
  <2> QED BY <2>1, <2>2 DEF MapInv
<1>2. FreshInv'
  BY DEF FreshInv
<1>3. ReadInv'
  BY SameList DEF ReadInv
<1>4. NothingExtra'
  BY DEF NothingExtra, SecretRefs
<1>5. FailureHasReason'
  BY DEF FailureHasReason, SecretRefs
<1> QED BY <1>1, <1>2, <1>3, <1>4, <1>5

\* A request that goes on has no answer and no blame.
LEMMA GoesOn ==
    ASSUME FreshInv', pc' # "idle"
    PROVE  FailureHasReason'
  BY DEF FreshInv, FailureHasReason, NoBlame

-----------------------------------------------------------------------------
(* One lemma per step of the request.                                      *)

\* A new request starts with an empty message.
LEMMA RequestOthers ==
    ASSUME IInv, Request
    PROVE  Others'
<1>1. pc' = "device" /\ list' = <<>> /\ k' = 0 /\ i' = 0 /\ secrets' = NothingRead /\ answer' = "none" /\ blame' = NoBlame
  BY DEF Request
<1>2. Len(list') = 0
  BY <1>1
<1>3. MapInv'  BY <1>1 DEF MapInv
<1>4. FreshInv'  BY <1>1, <1>2 DEF FreshInv
<1>5. ReadInv'  BY <1>1 DEF ReadInv
<1>6. NothingExtra'  BY <1>1, <1>2 DEF NothingExtra, NothingRead
<1> QED BY <1>1, <1>3, <1>4, <1>5, <1>6, GoesOn DEF Others

\* Without workloads there is nothing to read for them.
LEMMA ReadDeviceOthers ==
    ASSUME IInv, ReadDevice
    PROVE  Others'
<1>1. CASE device = Absent
  <2>1. Fail("notFound", "device", Nil, {}) /\ UNCHANGED Rest
    BY <1>1 DEF ReadDevice, Rest
  <2>2. FailureHasReason'
    BY <2>1 DEF FailureHasReason, Fail
  <2> QED BY <2>1, <2>2, FailKeeps DEF Others, IInv
<1>2. CASE device # Absent
  <2>1. pc' \in {"set", "workload"} /\ UNCHANGED message /\ pc = "device" /\ list = <<>> /\ list' = <<>>
    BY <1>2 DEF ReadDevice, message, IInv, FreshInv
  <2>2. Len(list') = 0 /\ \A n \in Names : SecretRefs(n)' = {}
    BY <2>1 DEF SecretRefs
  <2>3. MapInv'  BY <2>1 DEF MapInv
  <2>4. FreshInv'  BY <2>1, <2>2 DEF FreshInv, IInv, message
  <2>5. ReadInv'
    <3>1. \A n \in Names : Provided(secrets'[n], SecretRefs(n)')
      BY <2>2 DEF Provided
    <3>2. \A a \in 1..Len(list') : ConfigMapsOf(a)'
      BY <2>2
    <3> QED BY <2>1, <3>1, <3>2 DEF ReadInv
  <2>6. NothingExtra'  BY <2>1, <2>2 DEF NothingExtra, IInv, FreshInv, NothingRead, message
  <2> QED BY <2>1, <2>3, <2>4, <2>5, <2>6, GoesOn DEF Others
<1> QED BY <1>1, <1>2

\* A workload enters the list without config maps.
LEMMA ReadWorkloadOthers ==
    ASSUME IInv, ReadWorkload
    PROVE  Others'
<1> DEFINE w == dev.workloads[i + 1]
           entry == [name |-> w, spec |-> workloads[w].spec, configMaps |-> NothingRead]
<1>1. pc = "workload" /\ pc' = "workload" /\ UNCHANGED <<k, secrets, answer, blame>>
  BY DEF ReadWorkload
<1>2. entry.configMaps = NothingRead /\ list \in Seq(Entries)
  BY DEF IInv, TypeOK
<1>3. list' = Append(list, entry) \/ list' = list
  BY DEF ReadWorkload
<1> HIDE DEF entry
<1>4. \A a \in 1..Len(list') : list'[a].configMaps = NothingRead
  BY <1>1, <1>2, <1>3 DEF IInv, FreshInv
<1>5. MapInv'  BY <1>1 DEF MapInv
<1>6. FreshInv'  BY <1>1, <1>4 DEF FreshInv, IInv
<1>7. ReadInv'  BY <1>1, <1>6 DEF ReadInv, FreshInv
<1>8. NothingExtra'  BY <1>4, <1>1 DEF NothingExtra, NothingRead, FreshInv, IInv
<1> QED BY <1>1, <1>5, <1>6, <1>7, <1>8, GoesOn DEF Others

\* With the next workload, or for the secrets, the map starts empty.
LEMMA NextWorkloadOthers ==
    ASSUME IInv, NextWorkload
    PROVE  Others'
<1>1. UNCHANGED <<list, left, secrets, answer, blame>> /\ j' = 0 /\ map' = EmptyMap /\ pc \in {"workload", "readMaps"}
  BY DEF NextWorkload
<1>2. \A a \in 1..Len(list) : a <= k => ConfigMapsOf(a)
  <2>1. CASE pc = "workload"
    BY <2>1 DEF IInv, FreshInv
  <2>2. CASE pc = "readMaps"
    <3>1. left = {} /\ k \in 1..Len(list)
      BY <2>2 DEF NextWorkload, IInv, TypeOK
    <3>2. ConfigMapsOf(k)
      BY <2>2, <3>1 DEF IInv, ReadInv, ConfigMapsOf
    <3>3. \A a \in 1..Len(list) : a < k => ConfigMapsOf(a)
      BY <2>2 DEF IInv, ReadInv
    <3> QED BY <3>1, <3>2, <3>3
  <2> QED BY <1>1, <2>1, <2>2
<1>3. \A a \in 1..Len(list) : ConfigMapsOf(a) => ConfigMapsOf(a)'
  BY <1>1 DEF ConfigMapsOf
<1>4. CASE k < Len(list) /\ k' = k + 1 /\ pc' = "auth"
  <2>1. NotedMaps' = {}
    BY <1>1 DEF NotedMaps
  <2>2. Agrees(map, NotedMaps)'
    BY <1>1, <2>1 DEF Agrees, EmptyMap
  <2>3. MapInv'  BY <1>1, <1>4, <2>2 DEF MapInv
  <2>4. \A a \in 1..Len(list') : a < k' => ConfigMapsOf(a)'
    BY <1>1, <1>2, <1>3, <1>4 DEF IInv, TypeOK
  <2>5. answer' = "none"
    BY <1>1 DEF IInv, FreshInv
  <2>6. ReadInv'  BY <1>4, <2>4, <2>5 DEF ReadInv
  <2>7. FreshInv'  BY <1>1, <1>4 DEF FreshInv, IInv
  <2>8. NothingExtra'  BY <1>1 DEF NothingExtra, SecretRefs, IInv
  <2> QED BY <1>4, <2>3, <2>6, <2>7, <2>8, GoesOn DEF Others
<1>5. CASE k = Len(list) /\ k' = 1 /\ pc' = "noteSecrets"
  <2>1. NotedSecrets' = {}
    BY <1>1, <1>5 DEF NotedSecrets, Before
  <2>2. Agrees(map, NotedSecrets)'
    BY <1>1, <2>1 DEF Agrees, EmptyMap
  <2>3. MapInv'  BY <1>1, <1>5, <2>2 DEF MapInv
  <2>4. \A a \in 1..Len(list') : ConfigMapsOf(a)'
    BY <1>1, <1>2, <1>3, <1>5 DEF IInv, TypeOK
  <2>5. answer' = "none"
    BY <1>1 DEF IInv, FreshInv
  <2>6. ReadInv'  BY <1>5, <2>4, <2>5 DEF ReadInv
  <2>7. FreshInv'  BY <1>1, <1>5 DEF FreshInv, IInv
  <2>8. NothingExtra'  BY <1>1 DEF NothingExtra, SecretRefs, IInv
  <2> QED BY <1>5, <2>3, <2>6, <2>7, <2>8, GoesOn DEF Others
<1> QED BY <1>4, <1>5 DEF NextWorkload

\* ReadAuthFile takes nothing into the message that an invariant is about.
LEMMA ReadAuthFileOthers ==
    ASSUME IInv, ReadAuthFile
    PROVE  Others'
<1> DEFINE need == list[k].spec.auth
<1>1. CASE need # Absent => Met(need)
  <2>1. pc = "auth" /\ pc' = "allow" /\ UNCHANGED message
    BY <1>1 DEF ReadAuthFile, message
  <2>2. MapInv'
    BY <2>1 DEF IInv, MapInv, Agrees, NotedMaps, message
  <2>3. FreshInv'
    BY <2>1 DEF IInv, FreshInv, message
  <2>4. ReadInv'
    BY <2>1 DEF IInv, ReadInv, ConfigMapsOf, FreshInv, message
  <2>5. NothingExtra'
    BY <2>1 DEF IInv, NothingExtra, SecretRefs, message
  <2> QED BY <2>1, <2>2, <2>3, <2>4, <2>5, GoesOn DEF Others
<1>2. CASE need # Absent /\ ~Met(need)
  <2>1. \E what \in {"notFound", "error"} : Fail(what, "auth", need.name, Missing(need))
    BY <1>2 DEF ReadAuthFile
  <2>2. UNCHANGED Rest
    BY DEF ReadAuthFile, Rest
  <2>3. FailureHasReason'
    BY <1>2, <2>1 DEF FailureHasReason, Fail
  <2> QED BY <2>1, <2>2, <2>3, FailKeeps DEF Others, IInv
<1> QED BY <1>1, <1>2

\* ReadAllowList takes nothing into the message that an invariant is about.
LEMMA ReadAllowListOthers ==
    ASSUME IInv, ReadAllowList
    PROVE  Others'
<1> DEFINE need == list[k].spec.allow
<1>1. CASE need # Absent => Met(need)
  <2>1. pc = "allow" /\ pc' = "noteMaps" /\ UNCHANGED message
    BY <1>1 DEF ReadAllowList, message
  <2>2. MapInv'
    BY <2>1 DEF IInv, MapInv, Agrees, NotedMaps, message
  <2>3. FreshInv'
    BY <2>1 DEF IInv, FreshInv, message
  <2>4. ReadInv'
    BY <2>1 DEF IInv, ReadInv, ConfigMapsOf, FreshInv, message
  <2>5. NothingExtra'
    BY <2>1 DEF IInv, NothingExtra, SecretRefs, message
  <2> QED BY <2>1, <2>2, <2>3, <2>4, <2>5, GoesOn DEF Others
<1>2. CASE need # Absent /\ ~Met(need)
  <2>1. \E what \in {"notFound", "error"} : Fail(what, "allow", need.name, Missing(need))
    BY <1>2 DEF ReadAllowList
  <2>2. UNCHANGED Rest
    BY DEF ReadAllowList, Rest
  <2>3. FailureHasReason'
    BY <1>2, <2>1 DEF FailureHasReason, Fail, ReadAllowList
  <2> QED BY <2>1, <2>2, <2>3, FailKeeps DEF Others, IInv
<1> QED BY <1>1, <1>2

\* Every config map reference is noted, and a plain variable ends the request.
LEMMA NoteConfigMapsOthers ==
    ASSUME IInv, NoteConfigMaps
    PROVE  Others'
<1> DEFINE refs == list[k].spec.refs
<1>0. pc = "noteMaps" /\ k \in 1..Len(list) /\ refs \in Seq(Refs) /\ j \in 0..Len(refs) /\ Agrees(map, NotedMaps)
  BY RefsOf DEF NoteConfigMaps, IInv, TypeOK, MapInv
<1>1. UNCHANGED <<list, k, secrets, i, blame>>
  BY DEF NoteConfigMaps, message
<1>2. NothingExtra'
  BY <1>1 DEF IInv, NothingExtra, SecretRefs
<1>3. CASE j < Len(refs) /\ NextRef.kind = "plain"
  <2>1. pc' = "idle" /\ answer' = "broken" /\ blame' = NoBlame
    BY <1>0, <1>1, <1>3 DEF NoteConfigMaps, IInv, FreshInv
  <2>2. MapInv' /\ FreshInv' /\ ReadInv'
    BY <2>1 DEF MapInv, FreshInv, ReadInv
  <2>3. k \in 1..Len(list) /\ j + 1 \in 1..Len(list[k].spec.refs) /\ list[k].spec.refs[j + 1].kind = "plain"
    BY <1>0, <1>3 DEF NextRef
  <2>4. \E a \in 1..Len(list) : \E b \in 1..Len(list[a].spec.refs) : list[a].spec.refs[b].kind = "plain"
    BY <2>3
  <2>5. FailureHasReason'
    BY <1>1, <2>1, <2>4 DEF FailureHasReason, NoBlame
  <2> QED BY <1>2, <2>2, <2>5 DEF Others
<1>4. CASE j < Len(refs) /\ NextRef.kind # "plain"
  <2>1. pc' = "noteMaps" /\ j' = j + 1 /\ left' = left /\ answer' = answer
        /\ map' = IF NextRef.kind = "configMap" THEN Note(map, NextRef) ELSE map
    BY <1>0, <1>4 DEF NoteConfigMaps
  <2>2. NextRef \in Refs /\ NextRef = refs[j + 1]
    BY <1>0, <1>4 DEF NextRef
  <2>3. NotedMaps \in SUBSET Refs
    BY <1>0 DEF NotedMaps
  <2>4. NotedMaps' = {r \in {refs[b] : b \in 1..(j + 1)} : r.kind = "configMap"}
    BY <1>1, <2>1 DEF NotedMaps
  <2>5. {refs[b] : b \in 1..(j + 1)} = {refs[b] : b \in 1..j} \cup {NextRef}
    BY <1>0, <2>2
  <2>6. Agrees(map', NotedMaps')
    <3>1. CASE NextRef.kind = "configMap"
      <4>1. NotedMaps' = NotedMaps \cup {NextRef}
        BY <2>4, <2>5, <3>1 DEF NotedMaps
      <4> QED BY <1>0, <2>1, <2>2, <2>3, <3>1, <4>1, NoteAgrees DEF IInv, TypeOK
    <3>2. CASE NextRef.kind # "configMap"
      <4>1. NotedMaps' = NotedMaps
        BY <2>4, <2>5, <3>2 DEF NotedMaps
      <4> QED BY <1>0, <2>1, <3>2, <4>1
    <3> QED BY <3>1, <3>2
  <2>7. MapInv'
    BY <2>1, <2>6 DEF MapInv, Agrees
  <2>8. FreshInv'
    BY <1>0, <1>1, <2>1 DEF IInv, FreshInv
  <2>9. ReadInv'
    BY <1>0, <1>1, <2>1, <2>8 DEF IInv, ReadInv, ConfigMapsOf, FreshInv
  <2> QED BY <1>2, <2>1, <2>7, <2>8, <2>9, GoesOn DEF Others
<1>5. CASE j = Len(refs)
  <2>1. pc' = "readMaps" /\ UNCHANGED <<j, map, answer>> /\ left' = Named(map)
    BY <1>0, <1>5 DEF NoteConfigMaps
  <2>2. Agrees(map, NotedMaps)' /\ \A n \in left' : map'[n] # Unseen
    BY <1>0, <1>1, <2>1 DEF NotedMaps, Agrees, Named
  <2>3. MapInv'
    BY <1>1, <1>5, <2>1, <2>2 DEF MapInv
  <2>4. FreshInv'
    BY <1>0, <1>1, <2>1 DEF IInv, FreshInv
  <2>5. ASSUME NEW n \in Names \ left' PROVE Provided(list[k].configMaps[n], RefsTo(list[k], "configMap", n))
    <3>1. map[n] = Unseen
      BY <2>1 DEF Named
    <3>2. {r \in NotedMaps : r.name = n} = {}
      BY <1>0, <3>1 DEF Agrees
    <3>3. RefsTo(list[k], "configMap", n) = {}
      BY <1>0, <1>5, <3>2, AllNotedMaps DEF IInv
    <3> QED BY <3>3 DEF Provided
  <2>6. \A a \in 1..Len(list) : a < k => ConfigMapsOf(a)
    BY <1>0 DEF IInv, ReadInv
  <2>7. ReadInv'
    <3>1. (\A a \in 1..Len(list) : a < k => ConfigMapsOf(a))'
      BY <1>1, <2>6 DEF ConfigMapsOf
    <3>2. (\A n \in Names \ left : Provided(list[k].configMaps[n], RefsTo(list[k], "configMap", n)))'
      BY <1>1, <2>5
    <3> QED BY <2>1, <2>4, <3>1, <3>2 DEF ReadInv, FreshInv
  <2> QED BY <1>2, <2>1, <2>3, <2>4, <2>7, GoesOn DEF Others
<1> QED BY <1>0, <1>3, <1>4, <1>5

\* Every secret reference of every workload is noted.
LEMMA NoteSecretsOthers ==
    ASSUME IInv, NoteSecrets
    PROVE  Others'
<1>0. pc = "noteSecrets" /\ k \in 1..(Len(list) + 1) /\ j \in Nat /\ Agrees(map, NotedSecrets)
  BY DEF NoteSecrets, IInv, TypeOK, MapInv
<1>1. UNCHANGED <<i, list, secrets, answer, blame>>
  BY DEF NoteSecrets
<1>2. NothingExtra'
  BY <1>1 DEF IInv, NothingExtra, SecretRefs
<1>3. (\A a \in 1..Len(list) : ConfigMapsOf(a))'
  BY <1>0, <1>1 DEF IInv, ReadInv, ConfigMapsOf
<1>4. FreshInv' /\ answer' = "none"
  BY <1>0, <1>1 DEF NoteSecrets, IInv, FreshInv
<1>5. NotedSecrets \in SUBSET Refs
  BY DEF NotedSecrets
<1>6. k <= Len(list) => /\ list[k].spec.refs \in Seq(Refs) /\ j \in 0..Len(list[k].spec.refs)
                        /\ \A b \in 1..Len(list[k].spec.refs) : list[k].spec.refs[b] \in Refs
  BY <1>0, RefsOf DEF IInv, TypeOK
<1>7. CASE k <= Len(list) /\ j < Len(list[k].spec.refs)
  <2>1. pc' = "noteSecrets" /\ k' = k /\ j' = j + 1 /\ left' = left
        /\ map' = IF NextRef.kind = "secret" THEN Note(map, NextRef) ELSE map
    BY <1>0, <1>6, <1>7 DEF NoteSecrets
  <2>2. NextRef \in Refs /\ NextRef = list[k].spec.refs[j + 1] /\ j + 1 \in 1..Len(list[k].spec.refs) /\ k \in 1..Len(list)
    BY <1>0, <1>6, <1>7 DEF NextRef
  <2>3. \A a \in 1..Len(list) : \A b \in 1..Len(list[a].spec.refs) : Before(a, b)' <=> Before(a, b) \/ (a = k /\ b = j + 1)
    <3>1. \A a \in 1..Len(list) : Len(list[a].spec.refs) \in Nat
      BY RefsOf DEF IInv
    <3> QED BY <1>0, <2>1, <3>1 DEF Before
  <2>4. Agrees(map', NotedSecrets')
    <3>1. CASE NextRef.kind = "secret"
      <4>1. ASSUME NEW r \in NotedSecrets' PROVE r \in NotedSecrets \cup {NextRef}
        <5>1. PICK a \in 1..Len(list) : \E b \in 1..Len(list[a].spec.refs) : Before(a, b)' /\ r = list[a].spec.refs[b]
          BY <1>1, <4>1 DEF NotedSecrets
        <5>2. PICK b \in 1..Len(list[a].spec.refs) : Before(a, b)' /\ r = list[a].spec.refs[b]
          BY <5>1
        <5> QED BY <2>2, <2>3, <4>1, <5>2 DEF NotedSecrets
      <4>2. NotedSecrets \subseteq NotedSecrets'
        BY <1>1, <2>3 DEF NotedSecrets
      <4>3. NextRef \in NotedSecrets'
        BY <1>1, <2>2, <2>3, <3>1 DEF NotedSecrets
      <4>4. NotedSecrets' = NotedSecrets \cup {NextRef}
        BY <4>1, <4>2, <4>3
      <4> QED BY <1>0, <1>5, <2>1, <2>2, <3>1, <4>4, NoteAgrees DEF IInv, TypeOK
    <3>2. CASE NextRef.kind # "secret"
      <4>1. NotedSecrets' = NotedSecrets
        BY <1>1, <2>2, <2>3, <3>2 DEF NotedSecrets
      <4> QED BY <1>0, <2>1, <3>2, <4>1
    <3> QED BY <3>1, <3>2
  <2>5. MapInv'
    BY <2>1, <2>4 DEF MapInv, Agrees
  <2>6. ReadInv'
    BY <1>3, <1>4, <2>1 DEF ReadInv
  <2> QED BY <1>2, <1>4, <2>1, <2>5, <2>6, GoesOn DEF Others
<1>8. CASE k <= Len(list) /\ j = Len(list[k].spec.refs)
  <2>1. pc' = "noteSecrets" /\ k' = k + 1 /\ j' = 0 /\ left' = left /\ map' = map
    BY <1>0, <1>6, <1>8 DEF NoteSecrets
  <2>2. \A a \in 1..Len(list) : \A b \in 1..Len(list[a].spec.refs) : Before(a, b)' <=> Before(a, b)
    <3>1. \A a \in 1..Len(list) : Len(list[a].spec.refs) \in Nat
      BY RefsOf DEF IInv
    <3> QED BY <1>0, <1>8, <2>1, <3>1 DEF Before
  <2>3. NotedSecrets' = NotedSecrets
    BY <1>1, <2>2 DEF NotedSecrets
  <2>4. MapInv'
    BY <1>0, <2>1, <2>3 DEF MapInv, Agrees
  <2>5. ReadInv'
    BY <1>3, <1>4, <2>1 DEF ReadInv
  <2> QED BY <1>2, <1>4, <2>1, <2>4, <2>5, GoesOn DEF Others
<1>9. CASE k > Len(list)
  <2>1. pc' = "readSecrets" /\ UNCHANGED <<k, j, map>> /\ left' = Named(map) /\ k = Len(list) + 1
    BY <1>0, <1>9 DEF NoteSecrets
  <2>2. NotedSecrets' = NotedSecrets
    BY <1>1, <2>1 DEF NotedSecrets, Before
  <2>3. MapInv'
    BY <1>0, <1>1, <2>1, <2>2 DEF MapInv, Agrees, Named
  <2>4. ASSUME NEW n \in Names \ left' PROVE Provided(secrets'[n], SecretRefs(n)')
    <3>1. map[n] = Unseen
      BY <2>1 DEF Named
    <3>2. SecretRefs(n) = {}
      BY <1>0, <2>1, <3>1, AllNotedSecrets DEF IInv, Agrees
    <3>3. SecretRefs(n)' = {}
      BY <1>1, <3>2 DEF SecretRefs
    <3> QED BY <3>3 DEF Provided
  <2>5. ReadInv'
    BY <1>3, <1>4, <2>1, <2>4 DEF ReadInv
  <2> QED BY <1>2, <1>4, <2>1, <2>3, <2>5, GoesOn DEF Others
<1> QED BY <1>0, <1>6, <1>7, <1>8, <1>9

\* A config map is taken if it has all that is mandatory, and refused for that only.
LEMMA ReadConfigMapOthers ==
    ASSUME IInv, NEW n \in Names, ReadConfigMap(n)
    PROVE  Others'
<1> DEFINE data == store["configMap"][n]
<1>0. /\ pc = "readMaps" /\ n \in left /\ k \in 1..Len(list) /\ map[n] # Unseen
      /\ Agrees(map, NotedMaps) /\ j = Len(list[k].spec.refs)
  BY DEF ReadConfigMap, IInv, TypeOK, MapInv
<1>1. RefsTo(list[k], "configMap", n) = {r \in NotedMaps : r.name = n}
  BY <1>0, AllNotedMaps DEF IInv
<1>2. CASE ~Refused(data, map[n])
  <2>1. /\ UNCHANGED <<pc, i, k, j, map, secrets, answer, blame>> /\ left' = left \ {n}
        /\ list' = [list EXCEPT ![k].configMaps[n] = data]
    BY <1>2 DEF ReadConfigMap
  <2>2. /\ Len(list') = Len(list)
        /\ \A a \in 1..Len(list) : list'[a].spec = list[a].spec
        /\ \A a \in 1..Len(list) : a # k => list'[a] = list[a]
        /\ \A q \in Names \ {n} : list'[k].configMaps[q] = list[k].configMaps[q]
        /\ list'[k].configMaps[n] = data
    BY <1>0, <2>1, SameSpecs DEF IInv
  <2>3. /\ \A a \in 1..Len(list) : \A q \in Names : RefsTo(list'[a], "configMap", q) = RefsTo(list[a], "configMap", q)
        /\ \A q \in Names : SecretRefs(q)' = SecretRefs(q)
    BY <2>2, SameRefs
  <2>4. NotedMaps' = NotedMaps
    BY <1>0, <2>1, <2>2 DEF NotedMaps
  <2>5. MapInv'
    BY <1>0, <2>1, <2>2, <2>4 DEF IInv, MapInv, Agrees
  <2>6. FreshInv' /\ answer' = "none"
    BY <1>0, <2>1 DEF IInv, FreshInv
  <2>7. Provided(data, RefsTo(list[k], "configMap", n))
    BY <1>0, <1>1, <1>2, ReadProvides
  <2>8. ASSUME NEW q \in Names \ left' PROVE Provided(list'[k].configMaps[q], RefsTo(list'[k], "configMap", q))
    <3>1. CASE q = n
      BY <1>0, <2>2, <2>3, <2>7, <3>1
    <3>2. CASE q # n
      <4>1. Provided(list[k].configMaps[q], RefsTo(list[k], "configMap", q))
        BY <1>0, <2>1, <3>2 DEF IInv, ReadInv
      <4> QED BY <1>0, <2>2, <2>3, <3>2, <4>1
    <3> QED BY <3>1, <3>2
  <2>9. ASSUME NEW a \in 1..Len(list), a < k PROVE ConfigMapsOf(a)'
    <3>1. ConfigMapsOf(a)
      BY <1>0, <2>9 DEF IInv, ReadInv
    <3>2. list'[a] = list[a]
      BY <1>0, <2>2, <2>9
    <3> QED BY <3>1, <3>2 DEF ConfigMapsOf
  <2>10. ReadInv'
    BY <1>0, <2>1, <2>2, <2>6, <2>8, <2>9 DEF ReadInv
  <2>11. RefsTo(list[k], "configMap", n) # {}
    BY <1>0, <1>1 DEF Agrees
  <2>12. NothingExtra'
    <3>1. ASSUME NEW q \in Names, NEW a \in 1..Len(list), list'[a].configMaps[q] # Absent
          PROVE  RefsTo(list'[a], "configMap", q) # {}
      <4>1. CASE a = k /\ q = n
        BY <2>3, <2>11, <4>1
      <4>2. CASE ~(a = k /\ q = n)
        <5>1. list'[a].configMaps[q] = list[a].configMaps[q]
          BY <2>2, <4>2
        <5>2. RefsTo(list[a], "configMap", q) # {}
          BY <3>1, <5>1 DEF IInv, NothingExtra
        <5> QED BY <2>3, <5>2
      <4> QED BY <4>1, <4>2
    <3>2. \A q \in Names : secrets'[q] # Absent => SecretRefs(q)' # {}
      BY <2>1, <2>3 DEF IInv, NothingExtra
    <3> QED BY <2>2, <3>1, <3>2 DEF NothingExtra
  <2> QED BY <1>0, <2>1, <2>5, <2>6, <2>10, <2>12, GoesOn DEF Others
<1>3. CASE Refused(data, map[n])
  <2>1. Fail("error", "configMap", n, MissingKeys(data, map[n])) /\ UNCHANGED Rest
    BY <1>3 DEF ReadConfigMap, Rest
  <2>2. Demanded(RefsTo(list[k], "configMap", n), MissingKeys(data, map[n]))
    BY <1>0, <1>1, <1>3, RefusalDemanded
  <2>3. FailureHasReason'
    BY <2>1, <2>2 DEF FailureHasReason, Fail, Rest
  <2> QED BY <2>1, <2>3, FailKeeps DEF Others, IInv
<1> QED BY <1>2, <1>3

\* A secret is taken if it has all that is mandatory, and refused for that only.
LEMMA ReadSecretOthers ==
    ASSUME IInv, NEW n \in Names, ReadSecret(n)
    PROVE  Others'
<1> DEFINE data == store["secret"][n]
<1>0. /\ pc = "readSecrets" /\ n \in left /\ map[n] # Unseen
      /\ Agrees(map, NotedSecrets) /\ k = Len(list) + 1
  BY DEF ReadSecret, IInv, TypeOK, MapInv
<1>1. SecretRefs(n) = {r \in NotedSecrets : r.name = n}
  BY <1>0, AllNotedSecrets DEF IInv
<1>2. CASE ~Refused(data, map[n])
  <2>1. /\ UNCHANGED <<pc, i, list, k, j, map, answer, blame>> /\ left' = left \ {n}
        /\ secrets' = [secrets EXCEPT ![n] = data]
    BY <1>2 DEF ReadSecret
  <2>2. secrets'[n] = data /\ \A q \in Names \ {n} : secrets'[q] = secrets[q]
    BY <2>1 DEF IInv, TypeOK
  <2>3. \A q \in Names : SecretRefs(q)' = SecretRefs(q)
    BY <2>1 DEF SecretRefs
  <2>4. NotedSecrets' = NotedSecrets
    BY <2>1 DEF NotedSecrets, Before
  <2>5. MapInv'
    BY <1>0, <2>1, <2>4 DEF IInv, MapInv, Agrees
  <2>6. FreshInv' /\ answer' = "none"
    BY <1>0, <2>1 DEF IInv, FreshInv
  <2>7. Provided(data, SecretRefs(n))
    BY <1>0, <1>1, <1>2, ReadProvides
  <2>8. ASSUME NEW q \in Names \ left' PROVE Provided(secrets'[q], SecretRefs(q)')
    <3>1. CASE q = n
      BY <2>2, <2>3, <2>7, <3>1
    <3>2. CASE q # n
      <4>1. Provided(secrets[q], SecretRefs(q))
        BY <1>0, <2>1, <3>2 DEF IInv, ReadInv
      <4> QED BY <2>2, <2>3, <3>2, <4>1
    <3> QED BY <3>1, <3>2
  <2>9. (\A a \in 1..Len(list) : ConfigMapsOf(a))'
    BY <1>0, <2>1 DEF IInv, ReadInv, ConfigMapsOf
  <2>10. ReadInv'
    BY <1>0, <2>1, <2>6, <2>8, <2>9 DEF ReadInv
  <2>11. SecretRefs(n) # {}
    BY <1>0, <1>1 DEF Agrees
  <2>12. \A q \in Names : secrets'[q] # Absent => SecretRefs(q)' # {}
    BY <2>2, <2>3, <2>11 DEF IInv, NothingExtra
  <2>13. NothingExtra'
    BY <2>1, <2>12 DEF IInv, NothingExtra
  <2> QED BY <1>0, <2>1, <2>5, <2>6, <2>10, <2>13, GoesOn DEF Others
<1>3. CASE Refused(data, map[n])
  <2>1. Fail("error", "secret", n, MissingKeys(data, map[n])) /\ UNCHANGED Rest
    BY <1>3 DEF ReadSecret, Rest
  <2>2. Demanded(SecretRefs(n), MissingKeys(data, map[n]))
    BY <1>0, <1>1, <1>3, RefusalDemanded
  <2>3. SecretRefs(n)' = SecretRefs(n)
    BY <2>1 DEF SecretRefs, Rest
  <2>4. FailureHasReason'
    BY <2>1, <2>2, <2>3 DEF FailureHasReason, Fail
  <2> QED BY <2>1, <2>4, FailKeeps DEF Others, IInv
<1> QED BY <1>2, <1>3

\* After the secrets, the workloads of the message are not touched any more.
EndSteps == {"set", "storage", "metrics", "logs"}

\* Reading settings keeps what was read for the workloads.
LEMMA EndOthers ==
    ASSUME IInv, pc \in EndSteps, pc' \in EndSteps, UNCHANGED <<i, list, k, map, left, secrets, answer, blame>>
    PROVE  Others'
<1>1. MapInv'  BY DEF MapInv, EndSteps
<1>2. FreshInv'  BY DEF IInv, FreshInv, EndSteps
<1>3. ReadInv'  BY DEF IInv, ReadInv, ConfigMapsOf, SecretRefs, EndSteps
<1>4. NothingExtra'  BY DEF IInv, NothingExtra, SecretRefs
<1> QED BY <1>1, <1>2, <1>3, <1>4, GoesOn DEF Others, EndSteps

\* All secrets are read.
LEMMA SecretsDoneOthers ==
    ASSUME IInv, SecretsDone
    PROVE  Others'
<1>1. pc = "readSecrets" /\ pc' = "set" /\ left = {} /\ UNCHANGED <<i, list, k, map, left, secrets, answer, blame>>
  BY DEF SecretsDone
<1>2. MapInv'  BY <1>1 DEF MapInv
<1>3. FreshInv'  BY <1>1 DEF IInv, FreshInv
<1>4. ReadInv'
  <2>1. \A n \in Names : Provided(secrets[n], SecretRefs(n))
    BY <1>1 DEF IInv, ReadInv
  <2>2. \A a \in 1..Len(list) : ConfigMapsOf(a)
    BY <1>1 DEF IInv, ReadInv
  <2> QED BY <1>1, <2>1, <2>2, SameList DEF ReadInv
<1>5. NothingExtra'  BY <1>1 DEF IInv, NothingExtra, SecretRefs
<1> QED BY <1>1, <1>2, <1>3, <1>4, <1>5, GoesOn DEF Others

\* The metrics section fails the request or goes on to the logs.
LEMMA ReadMetricsOthers ==
    ASSUME IInv, ReadMetrics
    PROVE  Others'
<1>1. CASE UNCHANGED <<pc, answer, blame>>
  BY <1>1, EndOthers DEF ReadMetrics, ReadSection, EndSteps
<1>2. CASE \E n, keys : Fail("error", "metrics", n, keys) /\ UNCHANGED j
  <2>1. PICK n, keys : Fail("error", "metrics", n, keys) /\ UNCHANGED j
    BY <1>2
  <2>2. UNCHANGED Rest
    BY <2>1 DEF ReadMetrics, ReadSection, Rest
  <2>3. FailureHasReason'
    BY <2>1 DEF FailureHasReason, Fail
  <2> QED BY <2>1, <2>2, <2>3, FailKeeps DEF Others, IInv
<1>3. CASE pc' = "logs" /\ UNCHANGED <<answer, blame>>
  BY <1>3, EndOthers DEF ReadMetrics, ReadSection, EndSteps
<1> QED BY <1>1, <1>2, <1>3 DEF ReadMetrics, ReadSection

\* The logs section fails the request or sends the message.
LEMMA ReadLogsOthers ==
    ASSUME IInv, ReadLogs
    PROVE  Others'
<1>1. CASE UNCHANGED <<pc, answer, blame>>
  BY <1>1, EndOthers DEF ReadLogs, ReadSection, EndSteps
<1>2. CASE \E n, keys : Fail("error", "logs", n, keys) /\ UNCHANGED j
  <2>1. PICK n, keys : Fail("error", "logs", n, keys) /\ UNCHANGED j
    BY <1>2
  <2>2. UNCHANGED Rest
    BY <2>1 DEF ReadLogs, ReadSection, Rest
  <2>3. FailureHasReason'
    BY <2>1 DEF FailureHasReason, Fail
  <2> QED BY <2>1, <2>2, <2>3, FailKeeps DEF Others, IInv
<1>3. CASE pc' = "idle" /\ answer' = "ok" /\ UNCHANGED blame
  <2>1. pc = "logs" /\ UNCHANGED <<list, k, secrets>> /\ blame' = NoBlame
    BY <1>3 DEF ReadLogs, ReadSection, IInv, FreshInv
  <2>2. MapInv' /\ FreshInv'
    BY <1>3 DEF MapInv, FreshInv
  <2>3. ReadInv'
    BY <1>3, <2>1 DEF IInv, ReadInv, ConfigMapsOf, SecretRefs
  <2>4. NothingExtra'
    BY <2>1 DEF IInv, NothingExtra, SecretRefs
  <2>5. FailureHasReason'
    BY <1>3, <2>1 DEF FailureHasReason, NoBlame
  <2> QED BY <2>2, <2>3, <2>4, <2>5 DEF Others
<1> QED BY <1>1, <1>2, <1>3 DEF ReadLogs, ReadSection

\* A failing read fails the request, or costs the set or the storage.
LEMMA ReadFailsOthers ==
    ASSUME IInv, ReadFails
    PROVE  Others'
<1>1. CASE Fail("error", "fault", Nil, {}) /\ UNCHANGED <<j, settings>>
  <2>1. UNCHANGED Rest
    BY <1>1 DEF ReadFails, Rest
  <2>2. FailureHasReason'
    BY <1>1 DEF FailureHasReason, Fail
  <2> QED BY <1>1, <2>1, <2>2, FailKeeps DEF Others, IInv
<1>2. CASE pc \in {"set", "storage"} /\ pc' \in {"storage", "metrics"} /\ UNCHANGED <<answer, blame>>
  BY <1>2, EndOthers DEF ReadFails, EndSteps
<1> QED BY <1>1, <1>2 DEF ReadFails

-----------------------------------------------------------------------------
(* Results.                                                                *)

\* Initially there is no request.
LEMMA InitIInv == Init => IInv
<1> SUFFICES ASSUME Init PROVE IInv
  OBVIOUS
<1> USE DEF Init
<1>1. TypeOK
  <2>1. <<>> \in Seq(Entries) /\ Len(<<>>) = 0 /\ EmptyMap \in Maps /\ NothingRead \in [Names -> Data] /\ NoBlame \in Blames
    BY DEF EmptyMap, NothingRead, NoBlame, Maps, Data, Blames
  <2>2. store \in [Kinds -> [Names -> Data]]
    BY DEF Data
  <2>3. workloads \in [Workloads -> [spec : Specs, deleting : BOOLEAN] \cup {Absent}]
    OBVIOUS
  <2>4. device \in Devices \cup {Absent} /\ deviceSet \in Settings \cup {Absent}
    BY InitialDevicesAssumption
  <2>5. list \in Seq(Entries) /\ k \in 0..(Len(list) + 1) /\ map \in Maps /\ secrets \in [Names -> Data] /\ blame \in Blames
    BY <2>1
  <2>6. edits \in 0..MaxEdits /\ faults \in 0..MaxFaults
    BY BoundsAssumption
  <2> QED BY <2>2, <2>3, <2>4, <2>5, <2>6 DEF TypeOK
<1>2. MapInv /\ FreshInv /\ ReadInv
  BY DEF MapInv, FreshInv, ReadInv
<1>3. NothingExtra
  BY DEF NothingExtra, NothingRead
<1>4. FailureHasReason
  BY DEF FailureHasReason, NoBlame
<1> QED BY <1>1, <1>2, <1>3, <1>4 DEF IInv

\* Every step keeps the invariant.
LEMMA StepIInv == IInv /\ [Next]_vars => IInv'
<1> SUFFICES ASSUME IInv, [Next]_vars PROVE TypeOK' /\ Others'
  BY DEF IInv, Others
<1>0. IInv => Others
  BY DEF IInv, Others
<1>1. CASE UNCHANGED vars
  <2>1. TypeOK'
    BY <1>1 DEF vars, cluster, IInv, TypeOK
  <2>2. UNCHANGED <<pc, message>>
    BY <1>1 DEF vars, message
  <2> QED BY <1>0, <2>1, <2>2, UsersOthers
<1>2. CASE Users
  <2>1. TypeOK'
    BY <1>2, UsersType DEF IInv
  <2>2. UNCHANGED <<pc, message>>
    BY <1>2 DEF Users, SetObject, DeleteWorkload, WriteWorkload, RemoveDevice, PlaceWorkloads,
                RemoveDeviceSet, Edit, message
  <2> QED BY <1>0, <2>1, <2>2, UsersOthers
<1>3. CASE Request
  BY <1>3, RequestType, RequestOthers
<1>4. CASE Handler
  <2>1. TypeOK'
    BY <1>4, RequestType
  <2>2. CASE ReadDevice  BY <2>1, <2>2, ReadDeviceOthers
  <2>3. CASE ReadWorkload  BY <2>1, <2>3, ReadWorkloadOthers
  <2>4. CASE NextWorkload  BY <2>1, <2>4, NextWorkloadOthers
  <2>5. CASE ReadAuthFile  BY <2>1, <2>5, ReadAuthFileOthers
  <2>6. CASE ReadAllowList  BY <2>1, <2>6, ReadAllowListOthers
  <2>7. CASE NoteConfigMaps  BY <2>1, <2>7, NoteConfigMapsOthers
  <2>8. CASE NoteSecrets  BY <2>1, <2>8, NoteSecretsOthers
  <2>9. CASE SecretsDone  BY <2>1, <2>9, SecretsDoneOthers
  <2>10. ASSUME NEW n \in Names, ReadConfigMap(n) PROVE Others'  BY <2>10, ReadConfigMapOthers
  <2>11. ASSUME NEW n \in Names, ReadSecret(n) PROVE Others'  BY <2>11, ReadSecretOthers
  <2>12. CASE ReadDeviceSet  BY <2>1, <2>12, EndOthers DEF ReadDeviceSet, EndSteps
  <2>13. CASE ReadStorage  BY <2>1, <2>13, EndOthers DEF ReadStorage, EndSteps
  <2>14. CASE ReadMetrics  BY <2>1, <2>14, ReadMetricsOthers
  <2>15. CASE ReadLogs  BY <2>1, <2>15, ReadLogsOthers
  <2> QED BY <1>4, <2>1, <2>2, <2>3, <2>4, <2>5, <2>6, <2>7, <2>8, <2>9, <2>10, <2>11, <2>12, <2>13, <2>14, <2>15
          DEF Handler
<1>5. CASE ReadFails
  BY <1>5, RequestType, ReadFailsOthers
<1> QED BY <1>1, <1>2, <1>3, <1>4, <1>5 DEF Next

\* The inductive invariant: the maps hold what extraction is meant to compute,
\* and what was read so far is what they ask for.
THEOREM Invariant == Spec => []IInv
<1> QED BY InitIInv, StepIInv, PTL DEF Spec

\* Types, positions and bounds of a request, for every device and every edit.
THEOREM TypesHold == Spec => []TypeOK
<1>1. IInv => TypeOK  BY DEF IInv
<1> QED BY Invariant, <1>1, PTL

\* A configuration that is sent has all its workloads need (createSecretList,
\* configMap.Fetch), for every order of references and every edit in between.
THEOREM AnswerIsComplete == Spec => []CompleteAnswer
<1>1. IInv => CompleteAnswer
  BY DEF IInv, ReadInv, ConfigMapsOf, CompleteAnswer
<1> QED BY Invariant, <1>1, PTL

\* A configuration has no secret and no config map nobody asked for.
THEOREM AnswerHasNothingExtra == Spec => []NothingExtra
<1>1. IInv => NothingExtra  BY DEF IInv
<1> QED BY Invariant, <1>1, PTL

\* A request fails for a reason, and an optional reference is none.
THEOREM FailureIsJustified == Spec => []FailureHasReason
<1>1. IInv => FailureHasReason  BY DEF IInv
<1> QED BY Invariant, <1>1, PTL
=============================================================================
