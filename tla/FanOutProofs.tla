---------------------------- MODULE FanOutProofs ----------------------------
(***************************************************************************)
(* Proofs about FanOut, for every set of devices, every pair of lists and  *)
(* every concurrency: the slices are sound, no device is handled twice,    *)
(* and the call implements VisitAll.                                       *)
(***************************************************************************)
EXTENDS FanOut, TLAPS

InSlice(i, j) == inputs[i].from < j /\ j <= inputs[i].to
Handled(i, j) == inputs[i].from < j /\ j <= next[i]

\* The list: no device twice, and after merge exactly the targets.
ListInv ==
    /\ Distinct(edgeDevices)
    /\ pc = "merge" => call.op = "finalize"
    /\ call.op = "finalize" =>
         Elems(edgeDevices) = Elems(call.matching) \cup {call.labelled[k] : k \in 1..merged}
    /\ call.op = "finalize" /\ pc # "merge" => merged = Len(call.labelled)
    /\ call.op # "finalize" => Elems(edgeDevices) = Targets

\* Nothing has started yet.
IdleInv ==
    pc \in {"merge", "split"} =>
        /\ usedLen = 0 /\ inputs = <<>> /\ next = <<>> /\ errs = {} /\ returned = {}
        /\ visited = [d \in Devices |-> 0]

\* The loop of splitEdgeDevices: what is left over is enough for the slices
\* still to come, and the positions up to usedLen are cut into the slices.
LoopInv ==
    pc = "slice" =>
        /\ sLen = usedLen + residueLen + (call.concurrency - Len(inputs)) * splitLen
        /\ residueLen <= call.concurrency - Len(inputs)
        /\ next = <<>> /\ errs = {} /\ returned = {}
        /\ visited = [d \in Devices |-> 0]

CutInv ==
    /\ \A i \in 1..Len(inputs) : pc = "slice" => inputs[i].to <= usedLen
    /\ \A i, k \in 1..Len(inputs) : i < k => inputs[i].to <= inputs[k].from
    /\ pc = "slice" => \A j \in 1..usedLen : \E i \in 1..Len(inputs) : InSlice(i, j)
    /\ pc = "run" => \A j \in 1..sLen : \E i \in 1..Len(inputs) : InSlice(i, j)

\* The goroutines: a device is handled once its goroutine has passed it.
RunInv ==
    pc = "run" =>
        /\ Len(next) = Len(inputs)
        /\ \A i \in 1..Len(inputs) : inputs[i].from <= next[i] /\ next[i] <= inputs[i].to
        /\ \A j \in 1..sLen : visited[edgeDevices[j]] =
              IF \E i \in 1..Len(inputs) : Handled(i, j) THEN 1 ELSE 0
        /\ \A d \in Devices \ Elems(edgeDevices) : visited[d] = 0
        /\ \A i \in returned \ errs : next[i] = inputs[i].to

AnswerInv == (answer = "none") <=> (pc # "done")

IInv ==
    /\ TypeOK /\ GoodSlices /\ VisitedOnce
    /\ ListInv /\ IdleInv /\ LoopInv /\ CutInv /\ RunInv /\ AnswerInv

-----------------------------------------------------------------------------
(* Arithmetic.                                                             *)

\* Division: the quotient and the residue of splitEdgeDevices.
LEMMA Division ==
    ASSUME NEW n \in Nat, NEW c \in Nat \ {0}
    PROVE  /\ n \div c \in Nat
           /\ n - (n \div c) * c \in 0..(c - 1)
           /\ c = 1 => n \div c = n
<1>1. n \div c \in Nat
  OBVIOUS
<1>2. n - (n \div c) * c \in 0..(c - 1)
  OBVIOUS
<1>3. c = 1 => n \div c = n
  OBVIOUS
<1> QED BY <1>1, <1>2, <1>3

\* Products: the two facts about (a * b) the loop needs.
LEMMA Products ==
    ASSUME NEW a \in Int, NEW b \in Nat
    PROVE  /\ (a - 1) * b = a * b - b
           /\ a >= 1 => a * b >= b
           /\ a = 0 => a * b = 0
           /\ a * b \in Int
<1>1. (a - 1) * b = a * b - b
  OBVIOUS
<1>2. a >= 1 => a * b >= b
  OBVIOUS
<1> QED BY <1>1, <1>2

\* SliceType: every slice is a pair of naturals.
LEMMA ElementType ==
    ASSUME NEW S, NEW s \in Seq(S), NEW i \in 1..Len(s)
    PROVE  s[i] \in S
OBVIOUS

LEMMA SliceType ==
    ASSUME inputs \in Seq([from : Nat, to : Nat]), NEW i \in 1..Len(inputs)
    PROVE  inputs[i].from \in Nat /\ inputs[i].to \in Nat
<1>1. inputs[i] \in [from : Nat, to : Nat]
  BY ElementType
<1> QED BY <1>1

-----------------------------------------------------------------------------
(* Initial states.                                                         *)

LEMMA InitInv == ASSUME Init PROVE IInv
<1> USE ListsAssumption, ConcurrencyAssumption DEF Init
<1>0. call.concurrency \in Nat \ {0} /\ call.labelled \in Seq(Devices) /\ call.matching \in Seq(Devices)
  OBVIOUS
<1>1. TypeOK
  <2>1. edgeDevices \in Seq(Devices) /\ merged \in 0..Len(call.labelled)
    BY <1>0
  <2>2. inputs \in Seq([from : Nat, to : Nat]) /\ next \in Seq(Nat)
    OBVIOUS
  <2>3. pc \in {"merge", "split", "slice", "run", "done"}
    OBVIOUS
  <2> QED BY <2>1, <2>2, <2>3 DEF TypeOK
<1>2. GoodSlices
  BY <1>0 DEF GoodSlices
<1>3. VisitedOnce
  BY DEF VisitedOnce
<1>4. ListInv
  <2>1. Distinct(edgeDevices)
    OBVIOUS
  <2>2. {call.labelled[k] : k \in 1..merged} = {}
    OBVIOUS
  <2> QED BY <2>1, <2>2 DEF ListInv, Targets
<1>5. IdleInv /\ LoopInv /\ RunInv /\ AnswerInv
  BY DEF IdleInv, LoopInv, RunInv, AnswerInv
<1>6. CutInv
  BY DEF CutInv
<1> QED BY <1>1, <1>2, <1>3, <1>4, <1>5, <1>6 DEF IInv

-----------------------------------------------------------------------------
(* Steps that put the list together.                                       *)

LEMMA MergeStep == ASSUME IInv, Merge PROVE IInv'
<1> USE DEF Merge, split, run
<1>0. TypeOK /\ ListInv /\ IdleInv
  BY DEF IInv
<1> DEFINE d == call.labelled[merged + 1]
<1>1. /\ call.op = "finalize" /\ merged \in Nat /\ merged + 1 \in 1..Len(call.labelled)
      /\ call.labelled \in Seq(Devices) /\ Distinct(call.labelled)
      /\ call.matching \in Seq(Devices)
      /\ d \in Devices /\ edgeDevices \in Seq(Devices)
  BY <1>0, ListsAssumption DEF TypeOK, ListInv
<1>2. TypeOK'
  BY <1>0, <1>1 DEF TypeOK
<1>3. Elems(edgeDevices') = IF Fresh(d) THEN Elems(edgeDevices) \cup {d} ELSE Elems(edgeDevices)
  BY <1>1 DEF Elems
<1>4. {call.labelled[k] : k \in 1..(merged + 1)} = {call.labelled[k] : k \in 1..merged} \cup {d}
  BY <1>1
<1>5. Fresh(d) => d \notin Elems(edgeDevices)
  <2> SUFFICES ASSUME Fresh(d), d \in Elems(edgeDevices) PROVE FALSE
    OBVIOUS
  <2>1. PICK k \in 1..merged : call.labelled[k] = d
    BY <1>0, <1>1 DEF ListInv, Fresh
  <2> QED BY <2>1, <1>1 DEF Distinct
<1>6. Distinct(edgeDevices')
  BY <1>0, <1>1, <1>5 DEF ListInv, Distinct, Elems
<1>7. ~Fresh(d) => d \in Elems(edgeDevices)
  BY <1>0, <1>1 DEF ListInv, Fresh
<1>8. ListInv'
  <2>1. Elems(edgeDevices') = Elems(call.matching) \cup {call.labelled[k] : k \in 1..(merged + 1)}
    BY <1>0, <1>1, <1>3, <1>4, <1>7 DEF ListInv
  <2>2. Elems(edgeDevices)' = Elems(edgeDevices')
    BY DEF Elems
  <2>3. Elems(call.matching)' = Elems(call.matching)
    BY DEF Elems
  <2>4. Distinct(edgeDevices)' = Distinct(edgeDevices')
    BY DEF Distinct
  <2> QED BY <1>1, <1>6, <2>1, <2>2, <2>3, <2>4 DEF ListInv
<1>9. GoodSlices' /\ VisitedOnce'
  BY <1>0, <1>1 DEF IdleInv, GoodSlices, VisitedOnce, IInv, TypeOK
<1>10. IdleInv' /\ LoopInv' /\ RunInv' /\ AnswerInv'
  BY <1>0 DEF IdleInv, LoopInv, RunInv, AnswerInv, IInv
<1>11. CutInv'
  BY <1>0 DEF CutInv, IdleInv
<1> QED BY <1>2, <1>8, <1>9, <1>10, <1>11 DEF IInv

\* Steps that leave the list alone keep what is known about it.
LEMMA ListKept ==
    ASSUME TypeOK, ListInv, UNCHANGED <<call, edgeDevices, merged>>, pc' # "merge",
           pc = "merge" => merged = Len(call.labelled)
    PROVE  ListInv'
<1>1. /\ Distinct(edgeDevices)' = Distinct(edgeDevices)
      /\ Elems(edgeDevices)' = Elems(edgeDevices)
      /\ Elems(call.matching)' = Elems(call.matching)
      /\ Elems(call.labelled)' = Elems(call.labelled)
  BY DEF Distinct, Elems
<1>2. Targets' = Targets
  BY <1>1 DEF Targets
<1> QED BY <1>1, <1>2 DEF ListInv

LEMMA MergedStep == ASSUME IInv, Merged PROVE IInv'
<1> USE DEF Merged, split, run
<1>1. ListInv'
  BY ListKept DEF IInv
<1>2. TypeOK'
  BY DEF IInv, TypeOK
<1>3. GoodSlices' /\ VisitedOnce'
  BY DEF IInv, GoodSlices, VisitedOnce, sLen, splitLen
<1>4. IdleInv' /\ LoopInv' /\ RunInv' /\ AnswerInv'
  BY DEF IdleInv, LoopInv, RunInv, AnswerInv, IInv
<1>5. CutInv'
  BY DEF CutInv, IdleInv, IInv
<1> QED BY <1>1, <1>2, <1>3, <1>4, <1>5 DEF IInv

-----------------------------------------------------------------------------
(* Steps of splitEdgeDevices.                                              *)

\* Sizes: what the types say about the arithmetic of the split.
LEMMA Sizes ==
    ASSUME TypeOK
    PROVE  /\ sLen \in Nat /\ call.concurrency \in Nat \ {0} /\ splitLen \in Nat
           /\ Residue \in 0..(call.concurrency - 1)
           /\ sLen = Residue + call.concurrency * splitLen
           /\ call.concurrency = 1 => splitLen = sLen
<1>0. call.concurrency \in Concurrencies /\ edgeDevices \in Seq(Devices)
  BY DEF TypeOK
<1>a. sLen \in Nat
  BY <1>0 DEF sLen
<1>1. sLen \in Nat /\ call.concurrency \in Nat \ {0}
  BY <1>a, <1>0, ConcurrencyAssumption
<1>2. splitLen \in Nat /\ Residue \in 0..(call.concurrency - 1) /\ (call.concurrency = 1 => splitLen = sLen)
  BY <1>1, Division DEF splitLen, Residue
<1> QED BY <1>1, <1>2 DEF Residue

LEMMA CallDirectlyStep == ASSUME IInv, CallDirectly PROVE IInv'
<1> USE DEF CallDirectly, Spawn
<1>0. TypeOK /\ ListInv /\ IdleInv
  BY DEF IInv
<1>1. sLen \in Nat /\ call.concurrency = 1 /\ splitLen = sLen /\ sLen' = sLen /\ splitLen' = splitLen
  BY <1>0, Sizes DEF sLen, splitLen
<1>2. /\ Len(inputs') = 1 /\ inputs'[1] = [from |-> 0, to |-> sLen]
      /\ Len(next') = 1 /\ next'[1] = 0
  BY <1>1
<1>3. TypeOK'
  BY <1>0, <1>1, <1>2 DEF TypeOK, IdleInv
<1>4. ListInv'
  BY <1>0, ListKept
<1>5. GoodSlices'
  BY <1>1, <1>2 DEF GoodSlices
<1>6. VisitedOnce' /\ AnswerInv' /\ IdleInv' /\ LoopInv'
  BY DEF VisitedOnce, IInv, AnswerInv, IdleInv, LoopInv
<1>7. CutInv'
  BY <1>1, <1>2 DEF CutInv, InSlice
<1>8. RunInv'
  <2>1. \A j \in 1..sLen : ~\E i \in 1..1 : Handled(i, j)'
    BY <1>1, <1>2 DEF Handled
  <2>2. visited' = [e \in Devices |-> 0] /\ edgeDevices' \in Seq(Devices)
    BY <1>0 DEF IdleInv, TypeOK
  <2> QED BY <1>0, <1>1, <1>2, <2>1, <2>2 DEF RunInv, IdleInv, sLen
<1> QED BY <1>3, <1>4, <1>5, <1>6, <1>7, <1>8 DEF IInv

LEMMA NoDevicesStep == ASSUME IInv, NoDevices PROVE IInv'
<1> USE DEF NoDevices, split, run
<1>1. ListInv'
  BY ListKept DEF IInv
<1>2. TypeOK'
  BY DEF IInv, TypeOK
<1>3. GoodSlices' /\ VisitedOnce'
  BY DEF IInv, GoodSlices, VisitedOnce, sLen, splitLen
<1>4. IdleInv' /\ LoopInv' /\ RunInv' /\ AnswerInv'
  BY DEF IdleInv, LoopInv, RunInv, AnswerInv, IInv
<1>5. CutInv'
  BY DEF CutInv, IdleInv, IInv
<1> QED BY <1>1, <1>2, <1>3, <1>4, <1>5 DEF IInv

LEMMA StartSplitStep == ASSUME IInv, StartSplit PROVE IInv'
<1> USE DEF StartSplit, run
<1>0. TypeOK /\ ListInv /\ IdleInv
  BY DEF IInv
<1>1. ListInv'
  BY <1>0, ListKept
<1>2. sLen' = sLen /\ splitLen' = splitLen
  BY DEF sLen, splitLen
<1>3. TypeOK'
  <2>1. residueLen' \in Nat
    <3>1. Residue \in 0..(call.concurrency - 1) /\ call.concurrency \in Nat
      BY ONLY <1>0, Sizes
    <3>2. residueLen' = Residue
      OBVIOUS
    <3> QED BY ONLY <3>1, <3>2
  <2>2. UNCHANGED <<call, edgeDevices, merged, usedLen, inputs, next, errs, returned, visited, cancelled, answer>>
    OBVIOUS
  <2>3. pc' = "slice"
    OBVIOUS
  <2> QED BY ONLY <1>0, <2>1, <2>2, <2>3 DEF TypeOK
<1>4. GoodSlices' /\ VisitedOnce' /\ IdleInv' /\ RunInv' /\ AnswerInv'
  BY <1>2 DEF IInv, GoodSlices, VisitedOnce, IdleInv, RunInv, AnswerInv
<1>5. LoopInv'
  BY <1>0, <1>2, Sizes DEF LoopInv, IdleInv
<1>6. CutInv'
  BY <1>0 DEF CutInv, IdleInv
<1> QED BY <1>1, <1>3, <1>4, <1>5, <1>6 DEF IInv

LEMMA SliceStep == ASSUME IInv, Slice PROVE IInv'
<1> USE DEF Slice, run
<1>0. TypeOK /\ ListInv /\ LoopInv /\ CutInv /\ GoodSlices
  BY DEF IInv
<1> DEFINE n == Len(inputs)
           c == call.concurrency
           p == (c - n) * splitLen
<1>1. /\ sLen \in Nat /\ c \in Nat /\ splitLen \in Nat /\ n \in Nat
      /\ usedLen \in Nat /\ residueLen \in Nat
      /\ inputs \in Seq([from : Nat, to : Nat])
      /\ sLen' = sLen /\ splitLen' = splitLen
  <2>1. sLen \in Nat /\ c \in Nat /\ splitLen \in Nat
    BY ONLY <1>0, Sizes
  <2>2. usedLen \in Nat /\ residueLen \in Nat /\ inputs \in Seq([from : Nat, to : Nat])
    BY ONLY <1>0 DEF TypeOK
  <2>3. sLen' = sLen /\ splitLen' = splitLen
    BY DEF sLen, splitLen
  <2>4. n \in Nat
    BY ONLY <2>2
  <2> QED BY ONLY <2>1, <2>2, <2>3, <2>4
<1>2. sLen = usedLen + residueLen + p /\ residueLen <= c - n
  BY <1>0 DEF LoopInv
<1>3. /\ (c - n - 1) * splitLen = p - splitLen
      /\ c - n >= 1 => p >= splitLen
      /\ c - n = 0 => p = 0
      /\ p \in Int
  <2>1. c - n \in Int
    BY <1>1
  <2> QED BY ONLY <1>1, <2>1, Products
<1> HIDE DEF p
<1>4. c - n >= 1
  BY <1>1, <1>2, <1>3
<1>5. /\ usedLen' \in Nat /\ residueLen' \in Nat
      /\ usedLen' - usedLen \in splitLen .. splitLen + 1
      /\ usedLen' <= sLen
      /\ residueLen' <= c - (n + 1)
      /\ ResidueExtra \in {0, 1}
      /\ usedLen' + residueLen' = usedLen + residueLen + splitLen
  BY <1>1, <1>2, <1>3, <1>4 DEF ResidueExtra
<1>6. /\ Len(inputs') = n + 1
      /\ \A i \in 1..n : inputs'[i] = inputs[i]
      /\ inputs'[n + 1] = [from |-> usedLen, to |-> usedLen']
      /\ inputs' \in Seq([from : Nat, to : Nat])
  BY <1>1, <1>5
<1>7. TypeOK'
  BY <1>0, <1>1, <1>5, <1>6 DEF TypeOK, LoopInv
<1>8. ListInv'
  BY <1>0, ListKept
<1>9. GoodSlices'
  BY <1>0, <1>1, <1>4, <1>5, <1>6 DEF GoodSlices
<1>10. VisitedOnce' /\ IdleInv' /\ RunInv' /\ AnswerInv'
  BY DEF IInv, VisitedOnce, IdleInv, RunInv, AnswerInv
<1>11. LoopInv'
  <2>1. c - (n + 1) = c - n - 1
    BY <1>1
  <2>2. sLen = usedLen' + residueLen' + (c - (n + 1)) * splitLen
    BY <1>1, <1>2, <1>3, <1>5, <2>1
  <2> QED BY <1>0, <1>1, <1>5, <1>6, <2>2 DEF LoopInv
<1>12. CutInv'
  <2>a. \A i \in 1..n : inputs[i].to \in Nat
    BY <1>1, SliceType
  <2>0. /\ \A i \in 1..n : inputs[i].to <= usedLen /\ inputs[i].to \in Nat
        /\ \A i, k \in 1..n : i < k => inputs[i].to <= inputs[k].from
    BY <1>0, <2>a DEF CutInv
  <2>1. \A i \in 1..(n + 1) : inputs'[i].to <= usedLen'
    <3> SUFFICES ASSUME NEW i \in 1..(n + 1) PROVE inputs'[i].to <= usedLen'
      OBVIOUS
    <3>1. CASE i \in 1..n
      BY <1>1, <1>5, <1>6, <2>0, <3>1
    <3>2. CASE i = n + 1
      BY <1>5, <1>6, <3>2
    <3> QED BY <1>1, <3>1, <3>2
  <2>2. \A i, k \in 1..(n + 1) : i < k => inputs'[i].to <= inputs'[k].from
    <3> SUFFICES ASSUME NEW i \in 1..(n + 1), NEW k \in 1..(n + 1), i < k
                 PROVE  inputs'[i].to <= inputs'[k].from
      OBVIOUS
    <3>1. i \in 1..n
      BY <1>1
    <3>2. CASE k \in 1..n
      BY <1>1, <1>6, <2>0, <3>1, <3>2
    <3>3. CASE k = n + 1
      <4>1. inputs'[i].to <= usedLen
        BY <1>6, <2>0, <3>1
      <4>2. inputs'[k].from = usedLen
        BY ONLY <1>6, <3>3
      <4> QED BY ONLY <4>1, <4>2
    <3> QED BY ONLY <1>1, <3>2, <3>3
  <2>3. ASSUME NEW j \in 1..usedLen' PROVE \E i \in 1..(n + 1) : InSlice(i, j)'
    <3>1. CASE j <= usedLen
      <4>1. PICK i \in 1..n : InSlice(i, j)
        BY <1>0, <1>1, <1>5, <3>1 DEF CutInv
      <4> QED BY <1>1, <1>6, <4>1 DEF InSlice
    <3>2. CASE j > usedLen
      BY <1>1, <1>5, <1>6, <3>2 DEF InSlice
    <3> QED BY <1>1, <1>5, <3>1, <3>2
  <2> QED BY <1>6, <2>1, <2>2, <2>3 DEF CutInv
<1> QED BY <1>7, <1>8, <1>9, <1>10, <1>11, <1>12 DEF IInv

LEMMA StartWorkersStep == ASSUME IInv, StartWorkers PROVE IInv'
<1> USE DEF StartWorkers, Spawn
<1>0. TypeOK /\ ListInv /\ LoopInv /\ CutInv /\ GoodSlices
  BY DEF IInv
<1>1. /\ sLen' = sLen /\ splitLen' = splitLen /\ sLen \in Nat /\ usedLen \in Nat
      /\ inputs \in Seq([from : Nat, to : Nat]) /\ Len(inputs) \in Nat
      /\ usedLen >= sLen
  BY <1>0, Sizes DEF sLen, splitLen, TypeOK
<1>2. /\ next' \in Seq(Nat) /\ Len(next') = Len(inputs)
      /\ \A i \in 1..Len(inputs) : next'[i] = inputs[i].from
  <2>1. \A i \in 1..Len(inputs) : inputs[i].from \in Nat
    BY <1>1, SliceType
  <2>2. next' = [i \in 1..Len(inputs) |-> inputs[i].from]
    OBVIOUS
  <2> QED BY ONLY <1>1, <2>1, <2>2
<1>3. TypeOK'
  BY <1>0, <1>2 DEF TypeOK
<1>4. ListInv'
  BY <1>0, ListKept
<1>5. GoodSlices' /\ VisitedOnce' /\ IdleInv' /\ LoopInv' /\ AnswerInv'
  BY <1>0, <1>1 DEF IInv, GoodSlices, VisitedOnce, IdleInv, LoopInv, AnswerInv
<1>6. CutInv'
  BY <1>0, <1>1 DEF CutInv, InSlice
<1>7. RunInv'
  <2>1. ASSUME NEW i \in 1..Len(inputs), NEW j \in 1..sLen PROVE ~Handled(i, j)'
    BY <1>1, <1>2 DEF Handled
  <2>2. visited' = [e \in Devices |-> 0] /\ edgeDevices' \in Seq(Devices)
        /\ returned' = {}
    BY <1>0 DEF LoopInv, TypeOK
  <2>3. \A j \in 1..sLen : edgeDevices'[j] \in Devices
    BY <2>2, <1>1 DEF sLen
  <2> QED BY <1>0, <1>1, <1>2, <2>1, <2>2, <2>3 DEF RunInv, GoodSlices
<1> QED BY <1>3, <1>4, <1>5, <1>6, <1>7 DEF IInv

-----------------------------------------------------------------------------
(* Steps of the goroutines.                                                *)

\* Running: what the invariant says about a goroutine at work.
LEMMA Running ==
    ASSUME IInv, NEW i, Working(i)
    PROVE  /\ i \in 1..Len(inputs) /\ i \notin returned /\ Len(inputs) \in Nat
           /\ Len(next) = Len(inputs) /\ next \in Seq(Nat) /\ sLen \in Nat
           /\ \A k \in 1..Len(inputs) : /\ next[k] \in Nat
                                        /\ inputs[k].from \in Nat /\ inputs[k].to \in Nat
                                        /\ inputs[k].from <= next[k] /\ next[k] <= inputs[k].to
                                        /\ inputs[k].to <= sLen
           /\ \A k, l \in 1..Len(inputs) : k < l => inputs[k].to <= inputs[l].from
<1>1. TypeOK /\ GoodSlices /\ CutInv /\ RunInv
  BY DEF IInv
<1>2. /\ inputs \in Seq([from : Nat, to : Nat]) /\ next \in Seq(Nat) /\ edgeDevices \in Seq(Devices)
      /\ i \in 1..Len(inputs) /\ i \notin returned /\ Len(next) = Len(inputs)
  BY <1>1 DEF TypeOK, Working, RunInv
<1>3. Len(inputs) \in Nat
  BY <1>2
<1>4. sLen \in Nat
  BY <1>2 DEF sLen
<1>5. \A k \in 1..Len(inputs) : next[k] \in Nat
  BY <1>2, ElementType
<1>6. \A k \in 1..Len(inputs) : inputs[k].from \in Nat /\ inputs[k].to \in Nat
  BY <1>2, SliceType
<1>7. \A k \in 1..Len(inputs) : inputs[k].from <= next[k] /\ next[k] <= inputs[k].to /\ inputs[k].to <= sLen
  BY <1>1 DEF RunInv, GoodSlices, Working
<1>8. \A k, l \in 1..Len(inputs) : k < l => inputs[k].to <= inputs[l].from
  BY <1>1 DEF CutInv
<1> QED BY <1>2, <1>3, <1>4, <1>5, <1>6, <1>7, <1>8

LEMMA HandleStep == ASSUME IInv, NEW i \in 1..Len(inputs), Handle(i) PROVE IInv'
<1> USE DEF Handle, split
<1>0. TypeOK /\ ListInv /\ GoodSlices /\ CutInv /\ RunInv /\ VisitedOnce /\ AnswerInv
  BY DEF IInv
<1> DEFINE n   == Len(inputs)
           pos == next[i] + 1
           d   == edgeDevices[pos]
<1>1. /\ i \in 1..n /\ n \in Nat /\ Len(next) = n /\ next \in Seq(Nat) /\ sLen \in Nat
      /\ \A k \in 1..n : /\ next[k] \in Nat
                         /\ inputs[k].from \in Nat /\ inputs[k].to \in Nat
                         /\ inputs[k].from <= next[k] /\ next[k] <= inputs[k].to
                         /\ inputs[k].to <= sLen
      /\ \A k, l \in 1..n : k < l => inputs[k].to <= inputs[l].from
  BY Running
<1>2. /\ pc = "run" /\ pc' = "run" /\ next[i] < inputs[i].to
      /\ next' = [next EXCEPT ![i] = pos]
      /\ visited' = [visited EXCEPT ![d] = visited[d] + 1]
      /\ inputs' = inputs /\ edgeDevices' = edgeDevices /\ call' = call /\ sLen' = sLen /\ splitLen' = splitLen
      /\ errs' \in SUBSET (errs \cup {i}) /\ errs \subseteq errs' /\ returned' = returned
  BY DEF Working, sLen, splitLen
<1>3. pos \in 1..sLen
  BY <1>1, <1>2
<1>4. d \in Devices /\ Elems(edgeDevices) \subseteq Devices /\ \A j \in 1..sLen : edgeDevices[j] \in Devices
  BY <1>0, <1>3, ElementType DEF TypeOK, sLen, Elems
<1>5. \A k \in 1..n : ~Handled(k, pos)
  <2> SUFFICES ASSUME NEW k \in 1..n, Handled(k, pos) PROVE FALSE
    OBVIOUS
  <2>1. inputs[k].from < pos /\ pos <= next[k] /\ pos <= inputs[i].to /\ inputs[i].from < pos
    BY <1>1, <1>2 DEF Handled
  <2>2. k # i
    BY <1>1, <2>1
  <2>5. /\ inputs[k].from \in Nat /\ inputs[k].to \in Nat /\ next[k] \in Nat
        /\ inputs[i].from \in Nat /\ inputs[i].to \in Nat /\ pos \in Nat
    BY <1>1
  <2>3. CASE k < i
    <3>1. inputs[k].to <= inputs[i].from /\ next[k] <= inputs[k].to
      BY <1>1, <2>3
    <3> QED BY ONLY <2>1, <2>5, <3>1
  <2>4. CASE i < k
    <3>1. inputs[i].to <= inputs[k].from
      BY <1>1, <2>4
    <3> QED BY ONLY <2>1, <2>5, <3>1
  <2> QED BY <1>1, <2>2, <2>3, <2>4
<1>6. visited[d] = 0 /\ visited \in [Devices -> Nat]
  <2>1. visited[edgeDevices[pos]] = IF \E k \in 1..n : Handled(k, pos) THEN 1 ELSE 0
    BY <1>0, <1>2, <1>3 DEF RunInv
  <2> QED BY <1>0, <1>5, <2>1 DEF TypeOK
<1>7. /\ visited' \in [Devices -> Nat]
      /\ visited'[d] = 1
      /\ \A e \in Devices : e # d => visited'[e] = visited[e]
  BY <1>2, <1>4, <1>6
<1>8. /\ next' \in Seq(Nat) /\ Len(next') = n
      /\ next'[i] = pos
      /\ \A k \in 1..n : k # i => next'[k] = next[k]
  BY <1>1, <1>2
<1>9. TypeOK'
  BY <1>0, <1>1, <1>2, <1>7, <1>8 DEF TypeOK
<1>10. ListInv'
  BY <1>0, <1>2, ListKept
<1>11. GoodSlices'
  BY <1>0, <1>2 DEF GoodSlices
<1>12. VisitedOnce'
  BY <1>0, <1>7, <1>4 DEF VisitedOnce
<1>13. IdleInv' /\ LoopInv' /\ AnswerInv'
  BY <1>0, <1>2 DEF IdleInv, LoopInv, AnswerInv
<1>14. CutInv'
  BY <1>0, <1>2 DEF CutInv, InSlice
<1>15. RunInv'
  <2>1. \A k \in 1..n : inputs[k].from <= next'[k] /\ next'[k] <= inputs[k].to
    BY <1>1, <1>2, <1>8
  <2>2. ASSUME NEW j \in 1..sLen
        PROVE  visited'[edgeDevices[j]] = IF \E k \in 1..n : Handled(k, j)' THEN 1 ELSE 0
    <3>1. CASE j = pos
      <4>1. Handled(i, j)'
        BY <1>1, <1>2, <1>8, <3>1 DEF Handled
      <4> QED BY <1>1, <1>7, <3>1, <4>1
    <3>2. CASE j # pos
      <4>1. edgeDevices[j] # d /\ edgeDevices[j] \in Devices
        BY <1>0, <1>3, <1>4, <3>2 DEF ListInv, Distinct, sLen
      <4>2. ASSUME NEW k \in 1..n PROVE Handled(k, j)' <=> Handled(k, j)
        <5>1. CASE k = i
          BY <1>1, <1>2, <1>8, <3>2, <5>1 DEF Handled
        <5>2. CASE k # i
          BY <1>2, <1>8, <5>2 DEF Handled
        <5> QED BY <5>1, <5>2
      <4>3. visited[edgeDevices[j]] = IF \E k \in 1..n : Handled(k, j) THEN 1 ELSE 0
        BY <1>0, <1>2 DEF RunInv
      <4> QED BY <1>7, <4>1, <4>2, <4>3
    <3> QED BY <3>1, <3>2
  <2>3. \A e \in Devices \ Elems(edgeDevices) : visited'[e] = 0
    <3>1. d \in Elems(edgeDevices)
      BY <1>3 DEF Elems, sLen
    <3> QED BY <1>0, <1>2, <1>7, <3>1 DEF RunInv
  <2>4. \A k \in returned' \ errs' : next'[k] = inputs'[k].to
    <3>1. i \notin returned /\ returned \subseteq 1..n
      BY <1>0, Running DEF TypeOK
    <3> QED BY <1>0, <1>2, <1>8, <3>1 DEF RunInv
  <2>5. Elems(edgeDevices)' = Elems(edgeDevices)
    BY <1>2 DEF Elems
  <2> QED BY <1>2, <1>8, <2>1, <2>2, <2>3, <2>4, <2>5 DEF RunInv
<1> QED BY <1>9, <1>10, <1>11, <1>12, <1>13, <1>14, <1>15 DEF IInv

\* A goroutine that returns: it stopped with an error or is through.
LEMMA ReturnStep ==
    ASSUME IInv, NEW i \in 1..Len(inputs), StopOnCancel(i) \/ Finish(i)
    PROVE  IInv'
<1> USE DEF StopOnCancel, Finish, split
<1>0. TypeOK /\ ListInv /\ GoodSlices /\ CutInv /\ RunInv /\ VisitedOnce /\ AnswerInv
  BY DEF IInv
<1>1. /\ pc = "run" /\ pc' = "run" /\ returned' = returned \cup {i}
      /\ errs' \in SUBSET (errs \cup {i}) /\ errs \subseteq errs'
      /\ inputs' = inputs /\ edgeDevices' = edgeDevices /\ call' = call /\ next' = next /\ visited' = visited
      /\ sLen' = sLen /\ splitLen' = splitLen
  BY DEF Working, sLen, splitLen
<1>2. i \in errs' \/ next[i] = inputs[i].to
  BY Running DEF Working
<1>3. TypeOK'
  BY <1>0, <1>1 DEF TypeOK
<1>4. ListInv'
  BY <1>0, <1>1, ListKept
<1>5. GoodSlices' /\ VisitedOnce' /\ IdleInv' /\ LoopInv' /\ AnswerInv'
  BY <1>0, <1>1 DEF GoodSlices, VisitedOnce, IdleInv, LoopInv, AnswerInv
<1>6. CutInv'
  BY <1>0, <1>1 DEF CutInv, InSlice
<1>7. RunInv'
  BY <1>0, <1>1, <1>2 DEF RunInv, Handled, Elems
<1> QED BY <1>3, <1>4, <1>5, <1>6, <1>7 DEF IInv

LEMMA CancelStep == ASSUME IInv, Cancel PROVE IInv'
<1> USE DEF Cancel, split, run
<1>1. ListInv'
  BY ListKept DEF IInv
<1>2. TypeOK'
  BY DEF IInv, TypeOK
<1>3. GoodSlices' /\ VisitedOnce' /\ IdleInv' /\ LoopInv' /\ AnswerInv'
  BY DEF IInv, GoodSlices, VisitedOnce, IdleInv, LoopInv, AnswerInv, sLen, splitLen
<1>4. CutInv' /\ RunInv'
  BY DEF IInv, CutInv, RunInv, InSlice, Handled, Elems, sLen
<1> QED BY <1>1, <1>2, <1>3, <1>4 DEF IInv

LEMMA CollectStep == ASSUME IInv, Collect PROVE IInv'
<1> USE DEF Collect, split, run
<1>1. ListInv'
  BY ListKept DEF IInv
<1>2. TypeOK'
  BY DEF IInv, TypeOK
<1>3. GoodSlices' /\ VisitedOnce' /\ IdleInv' /\ LoopInv' /\ RunInv' /\ AnswerInv'
  BY DEF IInv, GoodSlices, VisitedOnce, IdleInv, LoopInv, RunInv, AnswerInv, sLen, splitLen
<1>4. CutInv'
  BY DEF IInv, CutInv
<1> QED BY <1>1, <1>2, <1>3, <1>4 DEF IInv

LEMMA StutterStep == ASSUME IInv, UNCHANGED vars PROVE IInv'
<1> USE DEF vars
<1>1. sLen' = sLen /\ splitLen' = splitLen
  BY DEF sLen, splitLen
<1>2. TypeOK' /\ GoodSlices' /\ VisitedOnce'
  BY <1>1 DEF IInv, TypeOK, GoodSlices, VisitedOnce
<1>3. ListInv'
  <2>1. Distinct(edgeDevices)' = Distinct(edgeDevices) /\ Elems(edgeDevices)' = Elems(edgeDevices)
        /\ Elems(call.matching)' = Elems(call.matching) /\ Elems(call.labelled)' = Elems(call.labelled)
    BY DEF Distinct, Elems
  <2>2. Targets' = Targets
    BY <2>1 DEF Targets
  <2> QED BY <2>1, <2>2 DEF IInv, ListInv
<1>4. IdleInv' /\ LoopInv' /\ AnswerInv'
  BY <1>1 DEF IInv, IdleInv, LoopInv, AnswerInv
<1>5. CutInv' /\ RunInv'
  BY <1>1 DEF IInv, CutInv, RunInv, InSlice, Handled, Elems
<1> QED BY <1>2, <1>3, <1>4, <1>5 DEF IInv

\* The invariant is inductive.
LEMMA Inductive == IInv /\ [Next]_vars => IInv'
<1> SUFFICES ASSUME IInv, [Next]_vars PROVE IInv'
  OBVIOUS
<1>1. CASE Caller
  BY <1>1, MergeStep, MergedStep, CallDirectlyStep, NoDevicesStep, StartSplitStep, SliceStep,
     StartWorkersStep, CollectStep DEF Caller
<1>2. CASE Cancel
  BY <1>2, CancelStep
<1>3. CASE \E i \in 1..Len(inputs) : Worker(i)
  BY <1>3, HandleStep, ReturnStep DEF Worker
<1>4. CASE UNCHANGED vars
  BY <1>4, StutterStep
<1> QED BY <1>1, <1>2, <1>3, <1>4 DEF Next

\* The inductive invariant: positions up to usedLen are cut into disjoint slices,
\* and a device is handled once the goroutine of its slice has passed it.
THEOREM Invariant == Spec => []IInv
<1>1. Init => IInv
  BY InitInv
<1> QED BY <1>1, Inductive, PTL DEF Spec

\* Types and positions of a call, for every list and every concurrency.
THEOREM TypesHold == Spec => []TypeOK
<1>1. IInv => TypeOK  BY DEF IInv
<1> QED BY Invariant, <1>1, PTL

\* SlicesAreGood: for every list and every concurrency, splitEdgeDevices stays
\* within the list, starts at most Concurrency goroutines and balances them.
THEOREM SlicesAreGood == Spec => []GoodSlices
<1>1. IInv => GoodSlices
  BY DEF IInv
<1> QED BY <1>1, Invariant, PTL

\* NoDeviceTwice: no device is handled twice in one call of executeConcurrent.
THEOREM NoDeviceTwice == Spec => []VisitedOnce
<1>1. IInv => VisitedOnce
  BY DEF IInv
<1> QED BY <1>1, Invariant, PTL

-----------------------------------------------------------------------------
(* The refinement.                                                         *)

\* The list that is worked on holds the targets, and nothing else.
LEMMA ListIsTargets ==
    ASSUME IInv, pc # "merge"
    PROVE  Elems(edgeDevices) = Targets
<1>1. TypeOK /\ ListInv
  BY DEF IInv
<1>2. CASE call.op = "finalize"
  <2>1. Elems(edgeDevices) = Elems(call.matching) \cup {call.labelled[k] : k \in 1..Len(call.labelled)}
    BY <1>1, <1>2 DEF ListInv
  <2> QED BY <1>2, <2>1 DEF Targets, Elems
<1>3. CASE call.op # "finalize"
  BY <1>1, <1>3 DEF ListInv
<1> QED BY <1>2, <1>3

LEMMA TargetsAreDevices == ASSUME TypeOK PROVE Targets \subseteq Devices
<1>1. call.matching \in Seq(Devices) /\ call.labelled \in Seq(Devices)
  BY ListsAssumption DEF TypeOK
<1>2. Elems(call.matching) \subseteq Devices /\ Elems(call.labelled) \subseteq Devices
  BY <1>1, ElementType DEF Elems
<1> QED BY <1>2 DEF Targets

\* A step that leaves the call, the devices handled, the errors and the answer
\* alone is no step of VisitAll.
LEMMA Silent ==
    ASSUME UNCHANGED <<call, visited, errs, answer>>
    PROVE  UNCHANGED <<todo, failed, answer>>
<1>1. Targets' = Targets
  BY DEF Targets, Elems
<1> QED BY <1>1 DEF todo, failed

\* Everything is handled when all goroutines are through without an error.
LEMMA AllHandled ==
    ASSUME IInv, Collect, errs = {}
    PROVE  todo = {}
<1> SUFFICES ASSUME NEW d \in todo PROVE FALSE
  OBVIOUS
<1>1. TypeOK /\ CutInv /\ RunInv /\ pc = "run" /\ returned = 1..Len(inputs)
  BY DEF IInv, Collect
<1>2. d \in Elems(edgeDevices) /\ visited[d] = 0
  BY <1>1, ListIsTargets DEF todo
<1>3. PICK j \in 1..sLen : edgeDevices[j] = d
  BY <1>2 DEF Elems, sLen
<1>4. PICK i \in 1..Len(inputs) : InSlice(i, j)
  BY <1>1 DEF CutInv
<1>5. next[i] = inputs[i].to
  BY <1>1 DEF RunInv
<1>6. Handled(i, j)
  BY <1>4, <1>5 DEF InSlice, Handled
<1>7. visited[d] = 1
  BY <1>1, <1>3, <1>6 DEF RunInv
<1> QED BY <1>2, <1>7

\* RefineHandle: handling a device is a visit of VisitAll.
LEMMA RefineHandle ==
    ASSUME IInv, NEW i \in 1..Len(inputs), Handle(i)
    PROVE  \E d \in Devices : Abstract!Visit(d)
<1> DEFINE pos == next[i] + 1
           d   == edgeDevices[pos]
<1>1. Working(i) /\ next[i] < inputs[i].to
  BY DEF Handle
<1>2. pos \in 1..sLen /\ next[i] \in Nat
  BY <1>1, Running
<1>3. d \in Elems(edgeDevices)
  BY <1>2 DEF Elems, sLen
<1>4. d \in Targets /\ d \in Devices /\ pc = "run"
  BY <1>1, <1>3, ListIsTargets, TargetsAreDevices DEF IInv, Working
<1>5. visited' = [visited EXCEPT ![d] = visited[d] + 1] /\ visited \in [Devices -> Nat]
      /\ call' = call /\ answer' = answer
  BY DEF Handle, IInv, TypeOK
<1>6. Targets' = Targets
  BY <1>5 DEF Targets, Elems
<1>7. visited[d] = 0
  <2>1. visited'[d] <= 1
    BY <1>4, HandleStep DEF IInv, VisitedOnce
  <2> QED BY <1>4, <1>5, <2>1
<1>8. \A e \in Devices : visited'[e] = IF e = d THEN 1 ELSE visited[e]
  BY <1>4, <1>5, <1>7
<1>9. d \in todo /\ todo' = todo \ {d}
  <2>1. Targets \subseteq Devices
    BY TargetsAreDevices DEF IInv
  <2> QED BY <1>4, <1>6, <1>7, <1>8, <2>1 DEF todo
<1>10. failed' \in {failed, TRUE}
  BY DEF failed, Handle
<1>11. answer = "none"
  BY <1>4 DEF IInv, AnswerInv
<1> QED BY <1>4, <1>5, <1>9, <1>10, <1>11 DEF Abstract!Visit

\* RefineStep: every step of the call is one of VisitAll or leaves its
\* variables alone.
LEMMA RefineStep == IInv /\ [Next]_vars => [Abstract!Next]_(Abstract!vars)
<1> SUFFICES ASSUME IInv, [Next]_vars PROVE [Abstract!Next]_(Abstract!vars)
  OBVIOUS
<1> DEFINE Quiet == UNCHANGED <<todo, failed, answer>>
<1>1. CASE Merge \/ Merged \/ CallDirectly \/ StartSplit \/ Slice \/ StartWorkers \/ Cancel \/ UNCHANGED vars
  <2>1. UNCHANGED <<call, visited, errs, answer>>
    BY <1>1 DEF Merge, Merged, CallDirectly, StartSplit, Slice, StartWorkers, Cancel, Spawn, split, run, vars
  <2> QED BY <2>1, Silent DEF Abstract!vars
<1>2. CASE NoDevices
  <2>1. Targets = {} /\ errs = {} /\ answer = "none" /\ answer' = "ok" /\ UNCHANGED <<call, visited, errs>>
    <3>1. Elems(edgeDevices) = Targets /\ sLen = 0
      BY <1>2, ListIsTargets DEF NoDevices
    <3>2. Elems(edgeDevices) = {}
      BY <3>1 DEF Elems, sLen
    <3> QED BY <1>2, <3>1, <3>2 DEF NoDevices, run, IInv, IdleInv, AnswerInv
  <2>2. Targets' = Targets
    BY <2>1 DEF Targets, Elems
  <2> QED BY <2>1, <2>2 DEF Abstract!Next, Abstract!Return, todo, failed
<1>3. CASE Collect
  <2>1. answer = "none" /\ answer' = (IF errs = {} THEN "ok" ELSE "errors") /\ UNCHANGED <<call, visited, errs>>
    BY <1>3 DEF Collect, run, IInv, AnswerInv
  <2>2. Targets' = Targets
    BY <2>1 DEF Targets, Elems
  <2>3. todo = {} \/ failed
    BY <1>3, AllHandled DEF failed
  <2> QED BY <2>1, <2>2, <2>3 DEF Abstract!Next, Abstract!Return, todo, failed
<1>4. ASSUME NEW i \in 1..Len(inputs), Worker(i) PROVE [Abstract!Next]_(Abstract!vars)
  <2>1. CASE Handle(i)
    BY <2>1, RefineHandle DEF Abstract!Next
  <2>2. CASE StopOnCancel(i)
    <3>1. pc = "run" /\ failed' = TRUE /\ UNCHANGED <<call, visited, answer>>
      BY <2>2 DEF StopOnCancel, Working, failed
    <3>2. Targets' = Targets
      BY <3>1 DEF Targets, Elems
    <3> QED BY <3>1, <3>2 DEF Abstract!Next, Abstract!GiveUp, todo, IInv, AnswerInv
  <2>3. CASE Finish(i)
    <3>1. UNCHANGED <<call, visited, errs, answer>>
      BY <2>3 DEF Finish
    <3> QED BY <3>1, Silent DEF Abstract!vars
  <2> QED BY <1>4, <2>1, <2>2, <2>3 DEF Worker
<1> QED BY <1>1, <1>2, <1>3, <1>4 DEF Next, Caller

\* FanOutImplementsVisitAll: ExecuteConcurrent, with merge and
\* splitEdgeDevices, implements VisitAll for every list and every concurrency.
THEOREM FanOutImplementsVisitAll == Spec => ImplementsVisitAll
<1>1. Init => Abstract!Init
  <2> SUFFICES ASSUME Init PROVE Abstract!Init
    OBVIOUS
  <2>1. TypeOK /\ errs = {} /\ answer = "none"
    BY InitInv DEF IInv, Init
  <2> QED BY <2>1, TargetsAreDevices DEF Abstract!Init, todo, failed
<1> QED BY <1>1, Invariant, RefineStep, PTL DEF Spec, ImplementsVisitAll, Abstract!Spec
=============================================================================
