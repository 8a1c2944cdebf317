-------------------------- MODULE FailurePathProofs --------------------------
(***************************************************************************)
(* For every capacity: the dead letter queue implements a bounded sequence *)
(* that drops its oldest element, and what Drain returned stays as it was. *)
(* At the end, the path of a failure from retry.Do into the queue.         *)
(***************************************************************************)
EXTENDS FailurePath, RetryDoProofs

Cells == [1 .. Capacity -> Letters \cup {Empty}]

\* What one Drain returned, in TypeOKMemory's terms.
Returned == [array : 1 .. MaxArrays, length : 0 .. Capacity, was : Seq(Letters)]

\* The variables of the queue, in the terms the steps below use.
LEMMA Parts ==
  ASSUME TypeOKMemory
  PROVE  /\ arrays \in Seq(Cells) /\ Len(arrays) \in Nat \ {0}
         /\ arrays[Current] \in Cells
         /\ length \in 0 .. Capacity
         /\ \A k \in 1 .. length : arrays[Current][k] \in Letters
         /\ Len(Contents) = length
         /\ \A k \in 1 .. length : Contents[k] = arrays[Current][k]
<1>1. arrays \in Seq(Cells) /\ Len(arrays) \in Nat \ {0} /\ length \in 0 .. Capacity
  BY CapacityAssumption DEF TypeOKMemory, Cells, Current
<1>2. arrays[Current] \in Cells
  BY <1>1 DEF Current
<1>3. Contents = [k \in 1 .. length |-> arrays[Current][k]]
  BY DEF Contents, Slice
<1>4. Len(Contents) = length /\ \A k \in 1 .. length : Contents[k] \in Letters
  <2>1. Contents \in Seq(Letters)
    BY DEF TypeOKMemory
  <2>2. DOMAIN Contents = 1 .. length
    BY <1>3
  <2>3. Len(Contents) = length
    BY <1>1, <2>1, <2>2
  <2> QED
    BY <2>1, <2>3
<1> QED
  BY <1>1, <1>2, <1>3, <1>4

\* A function on 1 .. n with values in S is a sequence of length n.
LEMMA FunctionIsSeq ==
  ASSUME NEW S, NEW n \in Nat, NEW f \in [1 .. n -> S]
  PROVE  f \in Seq(S) /\ Len(f) = n
OBVIOUS

\* Sequences with the same elements are the same.
LEMMA SameSeq ==
  ASSUME NEW S, NEW s \in Seq(S), NEW t \in Seq(S), Len(s) = Len(t),
         \A k \in 1 .. Len(s) : s[k] = t[k]
  PROVE  s = t
OBVIOUS

\* Replacing the last element of a sequence.
LEMMA UpdateLast ==
  ASSUME NEW S, NEW s \in Seq(S), Len(s) \in Nat \ {0}, NEW e \in S, NEW t,
         t = [s EXCEPT ![Len(s)] = e]
  PROVE  /\ t \in Seq(S) /\ Len(t) = Len(s)
         /\ t[Len(s)] = e
         /\ \A a \in 1 .. Len(s) - 1 : t[a] = s[a]
OBVIOUS

\* Writing one cell of an array.
LEMMA UpdateCell ==
  ASSUME NEW c \in Cells, NEW n \in 1 .. Capacity, NEW x \in Letters
  PROVE  /\ [c EXCEPT ![n] = x] \in Cells
         /\ [c EXCEPT ![n] = x][n] = x
         /\ \A k \in 1 .. Capacity : k # n => [c EXCEPT ![n] = x][k] = c[k]
BY DEF Cells

\* Push writes one cell of the last array, after a shift when the queue is full.
LEMMA PushFacts ==
  ASSUME TypeOKMemory, NEW x \in Letters, Push(x)
  PROVE  /\ arrays' \in Seq(Cells) /\ Len(arrays') = Len(arrays)
         /\ \A a \in 1 .. Current - 1 : arrays'[a] = arrays[a]
         /\ length' \in 1 .. Capacity
         /\ length < Capacity =>
              /\ length' = length + 1
              /\ arrays'[Current][length + 1] = x
              /\ \A k \in 1 .. length : arrays'[Current][k] = arrays[Current][k]
         /\ length = Capacity =>
              /\ length' = length
              /\ arrays'[Current][length] = x
              /\ \A k \in 1 .. length - 1 : arrays'[Current][k] = arrays[Current][k + 1]
<1>0. /\ arrays \in Seq(Cells) /\ Len(arrays) \in Nat \ {0}
      /\ arrays[Current] \in Cells /\ length \in 0 .. Capacity
      /\ Capacity \in Nat \ {0}
  BY Parts, CapacityAssumption
<1>1. CASE length < Capacity
  <2> DEFINE cells == [arrays[Current] EXCEPT ![length + 1] = x]
  <2>1. /\ arrays' = [arrays EXCEPT ![Current] = cells]
        /\ length' = length + 1
    <3>1. ~(length >= Capacity)
      BY <1>0, <1>1
    <3> QED
      BY <3>1, Zenon DEF Push
  <2>2. /\ cells \in Cells /\ cells[length + 1] = x
        /\ \A k \in 1 .. length : cells[k] = arrays[Current][k]
    <3>1. length + 1 \in 1 .. Capacity /\ \A k \in 1 .. length : k # length + 1
      BY <1>0, <1>1
    <3>2. \A k \in 1 .. length : k \in 1 .. Capacity
      BY <1>0, <1>1
    <3> QED
      BY <1>0, <3>1, <3>2, UpdateCell
  <2> HIDE DEF cells
  <2>3. /\ arrays' \in Seq(Cells) /\ Len(arrays') = Len(arrays)
        /\ arrays'[Current] = cells
        /\ \A a \in 1 .. Current - 1 : arrays'[a] = arrays[a]
    BY <1>0, <2>1, <2>2, UpdateLast DEF Current
  <2> QED
    BY <1>0, <1>1, <2>1, <2>2, <2>3
<1>2. CASE length = Capacity
  <2> DEFINE cells == [Shifted(arrays[Current], length) EXCEPT ![length] = x]
  <2>1. /\ arrays' = [arrays EXCEPT ![Current] = cells]
        /\ length' = length
    <3>1. length >= Capacity
      BY <1>0, <1>2
    <3> QED
      BY <3>1, Zenon DEF Push
  <2>2. /\ cells \in Cells /\ cells[length] = x
        /\ \A k \in 1 .. length - 1 : cells[k] = arrays[Current][k + 1]
    <3>1. /\ length \in 1 .. Capacity
          /\ \A k \in 1 .. length - 1 : k \in 1 .. Capacity /\ k # length /\ k < length
          /\ \A k \in 1 .. Capacity : k < length => k + 1 \in 1 .. Capacity
      BY <1>0, <1>2
    <3>2. Shifted(arrays[Current], length) \in Cells
      BY <1>0, <3>1 DEF Cells, Shifted
    <3>3. \A k \in 1 .. length - 1 :
            Shifted(arrays[Current], length)[k] = arrays[Current][k + 1]
      BY <3>1 DEF Shifted
    <3> QED
      BY <3>1, <3>2, <3>3, UpdateCell
  <2> HIDE DEF cells
  <2>3. /\ arrays' \in Seq(Cells) /\ Len(arrays') = Len(arrays)
        /\ arrays'[Current] = cells
        /\ \A a \in 1 .. Current - 1 : arrays'[a] = arrays[a]
    BY <1>0, <2>1, <2>2, UpdateLast DEF Current
  <2> QED
    BY <1>0, <1>2, <2>1, <2>2, <2>3
<1> QED
  BY <1>0, <1>1, <1>2

\* Drain starts a new array and leaves the old ones as they are.
LEMMA DrainFacts ==
  ASSUME TypeOKMemory, Drain
  PROVE  /\ arrays' \in Seq(Cells) /\ Len(arrays') = Len(arrays) + 1
         /\ \A a \in 1 .. Current : arrays'[a] = arrays[a]
         /\ length' = 0
         /\ Current' = Current + 1
<1>1. arrays \in Seq(Cells) /\ Len(arrays) \in Nat \ {0}
  BY Parts
<1>2. NewArray \in Cells
  BY DEF NewArray, Cells
<1> QED
  BY <1>1, <1>2 DEF Drain, Current

\* The contents after a step, element by element.
LEMMA ContentsFacts ==
  ASSUME arrays' \in Seq(Cells), Len(arrays') \in Nat \ {0}, length' \in 0 .. Capacity,
         \A k \in 1 .. length' : arrays'[Current'][k] \in Letters
  PROVE  /\ Contents' \in Seq(Letters) /\ Len(Contents') = length'
         /\ \A k \in 1 .. length' : Contents'[k] = arrays'[Current'][k]
<1>1. Contents' = [k \in 1 .. length' |-> arrays'[Current'][k]]
  BY DEF Contents, Slice, Current
<1>2. Contents' \in [1 .. length' -> Letters]
  BY <1>1
<1>3. length' \in Nat
  BY CapacityAssumption
<1> QED
  BY <1>1, <1>2, <1>3, FunctionIsSeq

\* Push on the contents: the new letter is the last one, and the first one
\* gives way when there are Capacity of them.
LEMMA PushContents ==
  ASSUME TypeOKMemory, NEW x \in Letters, Push(x)
  PROVE  /\ Contents' = Append(IF Len(Contents) < Capacity THEN Contents
                                                             ELSE Tail(Contents), x)
         /\ TypeOKMemory'
<1>0. /\ arrays \in Seq(Cells) /\ Len(arrays) \in Nat \ {0}
      /\ length \in 0 .. Capacity /\ Capacity \in Nat \ {0}
      /\ \A k \in 1 .. length : arrays[Current][k] \in Letters
      /\ Len(Contents) = length /\ Contents \in Seq(Letters)
      /\ \A k \in 1 .. length : Contents[k] = arrays[Current][k]
  BY Parts, CapacityAssumption DEF TypeOKMemory
<1>1. /\ arrays' \in Seq(Cells) /\ Len(arrays') = Len(arrays)
      /\ length' \in 1 .. Capacity
      /\ length < Capacity =>
           /\ length' = length + 1
           /\ arrays'[Current][length + 1] = x
           /\ \A k \in 1 .. length : arrays'[Current][k] = arrays[Current][k]
      /\ length = Capacity =>
           /\ length' = length
           /\ arrays'[Current][length] = x
           /\ \A k \in 1 .. length - 1 : arrays'[Current][k] = arrays[Current][k + 1]
  BY PushFacts
<1>2. Current' = Current
  BY <1>1 DEF Current
<1>3. \A k \in 1 .. length' : arrays'[Current'][k] \in Letters
  <2>1. CASE length < Capacity
    <3>1. \A k \in 1 .. length : arrays'[Current][k] \in Letters
      BY <1>0, <1>1, <2>1
    <3>2. arrays'[Current][length + 1] \in Letters
      BY <1>1, <2>1
    <3>3. \A k \in 1 .. length' : k \in 1 .. length \/ k = length + 1
      BY <1>0, <1>1, <2>1
    <3>4. \A k \in 1 .. length' : arrays'[Current][k] \in Letters
      BY <3>1, <3>2, <3>3, Zenon
    <3> QED
      BY <1>2, <3>4, Zenon
  <2>2. CASE length = Capacity
    <3>1. \A k \in 1 .. length - 1 : arrays'[Current][k] \in Letters
      <4> TAKE k \in 1 .. length - 1
      <4>1. k + 1 \in 1 .. length
        BY <1>0
      <4>2. arrays'[Current][k] = arrays[Current][k + 1]
        BY <1>1, <2>2
      <4> QED
        BY <1>0, <4>1, <4>2
    <3>2. arrays'[Current][length] \in Letters
      BY <1>1, <2>2
    <3>3. \A k \in 1 .. length' : k \in 1 .. length - 1 \/ k = length
      BY <1>0, <1>1, <2>2
    <3>4. \A k \in 1 .. length' : arrays'[Current][k] \in Letters
      BY <3>1, <3>2, <3>3, Zenon
    <3> QED
      BY <1>2, <3>4, Zenon
  <2> QED
    BY <1>0, <2>1, <2>2
<1>4. /\ Contents' \in Seq(Letters) /\ Len(Contents') = length'
      /\ \A k \in 1 .. length' : Contents'[k] = arrays'[Current][k]
  <2>1. Len(arrays') \in Nat \ {0} /\ length' \in 0 .. Capacity
    BY <1>0, <1>1
  <2> QED
    BY <1>1, <1>2, <1>3, <2>1, ContentsFacts
<1>5. TypeOKMemory'
  <2>1. drained' = drained
    BY DEF Push
  <2>2. Current' \in 1 .. MaxArrays /\ length' \in 0 .. Capacity
    BY <1>0, <1>1, <1>2 DEF TypeOKMemory
  <2> QED
    BY <1>1, <1>4, <2>1, <2>2 DEF TypeOKMemory, Cells
<1>6. CASE length < Capacity
  <2>1. Append(Contents, x) \in Seq(Letters) /\ Len(Append(Contents, x)) = length + 1
    BY <1>0
  <2>2. \A k \in 1 .. length + 1 : Contents'[k] = Append(Contents, x)[k]
    BY <1>0, <1>1, <1>4, <1>6
  <2>3. Contents' = Append(Contents, x)
    BY <1>0, <1>1, <1>4, <1>6, <2>1, <2>2, SameSeq
  <2> QED
    BY <1>0, <1>5, <1>6, <2>3
<1>7. CASE length = Capacity
  <2>1. /\ Tail(Contents) \in Seq(Letters) /\ Len(Tail(Contents)) = length - 1
        /\ \A k \in 1 .. length - 1 : Tail(Contents)[k] = Contents[k + 1]
    BY <1>0, <1>7
  <2>2. /\ Append(Tail(Contents), x) \in Seq(Letters)
        /\ Len(Append(Tail(Contents), x)) = length
        /\ \A k \in 1 .. length - 1 : Append(Tail(Contents), x)[k] = Contents[k + 1]
        /\ Append(Tail(Contents), x)[length] = x
    BY <1>0, <1>7, <2>1
  <2>3. \A k \in 1 .. length : Contents'[k] = Append(Tail(Contents), x)[k]
    <3>1. \A k \in 1 .. length - 1 : Contents'[k] = Contents[k + 1]
      <4> TAKE k \in 1 .. length - 1
      <4>1. /\ k \in 1 .. length' /\ k + 1 \in 1 .. length
        BY <1>0, <1>1, <1>7
      <4>2. Contents'[k] = arrays'[Current][k]
        BY <1>4, <4>1
      <4>3. Contents[k + 1] = arrays[Current][k + 1]
        BY <1>0, <4>1
      <4>4. arrays'[Current][k] = arrays[Current][k + 1]
        BY <1>1, <1>7
      <4> QED
        BY <4>2, <4>3, <4>4
    <3>2. Contents'[length] = x
      BY <1>0, <1>1, <1>2, <1>4, <1>7
    <3>3. \A k \in 1 .. length : k \in 1 .. length - 1 \/ k = length
      BY <1>0
    <3>4. \A k \in 1 .. length - 1 : Contents'[k] = Append(Tail(Contents), x)[k]
      BY <2>2, <3>1
    <3> QED
      BY <2>2, <3>2, <3>3, <3>4, Zenon
  <2>4. Contents' = Append(Tail(Contents), x)
    BY <1>1, <1>4, <1>7, <2>2, <2>3, SameSeq
  <2> QED
    BY <1>0, <1>5, <1>7, <2>4
<1> QED
  BY <1>0, <1>6, <1>7

\* Drain leaves an empty queue.
LEMMA DrainContents ==
  ASSUME TypeOKMemory, Drain
  PROVE  Contents' = <<>> /\ TypeOKMemory'
<1>0. /\ arrays \in Seq(Cells) /\ Len(arrays) \in Nat \ {0}
      /\ Capacity \in Nat \ {0} /\ MaxArrays \in Nat
  BY Parts, CapacityAssumption
<1>1. /\ arrays' \in Seq(Cells) /\ Len(arrays') = Len(arrays) + 1
      /\ length' = 0
  BY DrainFacts
<1>2. Contents' \in Seq(Letters) /\ Len(Contents') = length'
  <2>1. Len(arrays') \in Nat \ {0} /\ length' \in 0 .. Capacity
    BY <1>0, <1>1
  <2>2. \A k \in 1 .. length' : arrays'[Current'][k] \in Letters
    BY <1>1
  <2> QED
    BY <1>1, <2>1, <2>2, ContentsFacts
<1>3. Contents' = <<>>
  BY <1>1, <1>2
<1>4. Current' \in 1 .. MaxArrays
  BY <1>0, <1>1 DEF Drain, Current
<1>5. drained' \in Seq(Returned)
  <2>1. [array |-> Current, length |-> length, was |-> Contents] \in Returned
    BY DEF TypeOKMemory, Returned
  <2>2. drained \in Seq(Returned)
    BY DEF TypeOKMemory, Returned
  <2>3. drained' = Append(drained, [array |-> Current, length |-> length, was |-> Contents])
    BY DEF Drain
  <2> HIDE DEF Returned
  <2> QED
    BY <2>1, <2>2, <2>3
<1>6. length' \in 0 .. Capacity
  BY <1>0, <1>1
<1> QED
  BY <1>1, <1>2, <1>3, <1>4, <1>5, <1>6 DEF TypeOKMemory, Cells, Returned

\* What a Drain returned reads the same as long as the arrays before the
\* current one are left alone.
LEMMA OldArraysStay ==
  ASSUME TypeOKMemory, DrainedArrays, NEW j \in 1 .. Len(drained),
         \A a \in 1 .. Current - 1 : arrays'[a] = arrays[a]
  PROVE  /\ drained[j].array \in 1 .. Current - 1
         /\ arrays'[drained[j].array] = arrays[drained[j].array]
<1>0. drained[j] \in Returned
  <2>1. drained \in Seq(Returned)
    BY DEF TypeOKMemory, Returned
  <2> QED
    BY <2>1
<1>1. drained[j].array \in 1 .. MaxArrays /\ drained[j].array < Current
  BY <1>0 DEF Returned, DrainedArrays
<1>2. drained[j].array \in 1 .. Current - 1
  <2>1. Current \in 1 .. MaxArrays
    BY DEF TypeOKMemory
  <2> QED
    BY <1>1, <2>1, CapacityAssumption
<1> QED
  BY <1>2

\* Push writes the current array only.
LEMMA PushKeepsDrained ==
  ASSUME IInvMemory, NEW x \in Letters, Push(x)
  PROVE  (DrainedArrays /\ DrainedIsStable)'
<1>1. /\ Current' = Current /\ drained' = drained
      /\ \A a \in 1 .. Current - 1 : arrays'[a] = arrays[a]
  BY PushFacts DEF IInvMemory, Push, Current
<1>2. DrainedArrays'
  BY <1>1 DEF IInvMemory, DrainedArrays
<1>3. ASSUME NEW j \in 1 .. Len(drained)
      PROVE  Slice(drained[j].array, drained[j].length)' = drained[j].was
  <2>1. arrays'[drained[j].array] = arrays[drained[j].array]
    BY <1>1, OldArraysStay DEF IInvMemory
  <2>2. Slice(drained[j].array, drained[j].length)' =
          Slice(drained[j].array, drained[j].length)
    BY <1>1, <2>1 DEF Slice
  <2> QED
    BY <2>2 DEF IInvMemory, DrainedIsStable
<1>4. DrainedIsStable'
  BY <1>1, <1>3 DEF DrainedIsStable
<1> QED
  BY <1>2, <1>4

\* Drain gives the current array away and moves on to a new one.
LEMMA DrainKeepsDrained ==
  ASSUME IInvMemory, Drain
  PROVE  (DrainedArrays /\ DrainedIsStable)'
<1> DEFINE new == [array |-> Current, length |-> length, was |-> Contents]
<1>1. /\ Current' = Current + 1 /\ Current \in 1 .. MaxArrays
      /\ \A a \in 1 .. Current : arrays'[a] = arrays[a]
  BY DrainFacts DEF IInvMemory, TypeOKMemory
<1>2. /\ drained \in Seq(Returned) /\ new \in Returned
      /\ drained' = Append(drained, new)
  BY DEF IInvMemory, TypeOKMemory, Returned, Drain
<1>3. /\ Len(drained) \in Nat /\ Len(drained') = Len(drained) + 1
      /\ \A j \in 1 .. Len(drained) : drained'[j] = drained[j]
      /\ drained'[Len(drained) + 1] = new
  <2> HIDE DEF new, Returned
  <2> QED
    BY <1>2
<1>4. \A j \in 1 .. Len(drained') : j \in 1 .. Len(drained) \/ j = Len(drained) + 1
  BY <1>3
<1>5. Current < Current + 1 /\ \A n \in 1 .. MaxArrays : n < Current => n < Current + 1
  BY <1>1, CapacityAssumption
<1>6. ASSUME NEW j \in 1 .. Len(drained)
      PROVE  /\ drained'[j].array < Current'
             /\ Slice(drained[j].array, drained[j].length)' = drained'[j].was
  <2>1. \A a \in 1 .. Current - 1 : arrays'[a] = arrays[a]
    BY <1>1, CapacityAssumption
  <2>2. /\ drained[j].array \in 1 .. Current - 1
        /\ arrays'[drained[j].array] = arrays[drained[j].array]
    BY <2>1, OldArraysStay DEF IInvMemory
  <2>3. drained'[j] = drained[j]
    BY <1>3
  <2>4. Slice(drained[j].array, drained[j].length)' =
          Slice(drained[j].array, drained[j].length)
    BY <2>2, <2>3 DEF Slice
  <2>5. drained[j].array < Current'
    BY <1>1, <2>2, CapacityAssumption
  <2> QED
    BY <2>3, <2>4, <2>5 DEF IInvMemory, DrainedIsStable
<1>7. /\ drained'[Len(drained) + 1].array < Current'
      /\ [k \in 1 .. drained'[Len(drained) + 1].length |->
            arrays'[drained'[Len(drained) + 1].array][k]] = drained'[Len(drained) + 1].was
  <2>1. /\ drained'[Len(drained) + 1].array = Current
        /\ drained'[Len(drained) + 1].length = length
        /\ drained'[Len(drained) + 1].was = Contents
    BY <1>3
  <2>2. arrays'[Current] = arrays[Current]
    BY <1>1, CapacityAssumption
  <2> QED
    BY <1>1, <1>5, <2>1, <2>2 DEF Contents, Slice
<1>8. DrainedArrays'
  BY <1>4, <1>6, <1>7 DEF DrainedArrays
<1>9. DrainedIsStable'
  BY <1>4, <1>6, <1>7 DEF DrainedIsStable, Slice
<1> QED
  BY <1>8, <1>9

LEMMA InitIInv ==
  ASSUME InitMemory
  PROVE  IInvMemory
<1>1. NewArray \in Cells
  BY DEF NewArray, Cells
<1>2. arrays \in Seq(Cells) /\ Current = 1 /\ length = 0 /\ drained = <<>>
  BY <1>1 DEF InitMemory, Current
<1>3. Contents \in Seq(Letters)
  <2>1. Contents \in [1 .. 0 -> Letters]
    BY <1>2 DEF Contents, Slice
  <2> QED
    BY <2>1, FunctionIsSeq
<1>4. TypeOKMemory
  BY <1>2, <1>3, CapacityAssumption DEF TypeOKMemory, Cells
<1> QED
  BY <1>2, <1>4 DEF IInvMemory, DrainedArrays, DrainedIsStable

LEMMA NextIInv ==
  ASSUME IInvMemory, [NextMemory]_memoryVars
  PROVE  IInvMemory'
<1>1. CASE Drain
  BY <1>1, DrainContents, DrainKeepsDrained DEF IInvMemory
<1>2. ASSUME NEW x \in Letters, Push(x)
      PROVE  IInvMemory'
  BY <1>2, PushContents, PushKeepsDrained DEF IInvMemory
<1>3. CASE UNCHANGED memoryVars
  BY <1>3 DEF IInvMemory, TypeOKMemory, DrainedArrays, DrainedIsStable, Contents, Current, Slice, memoryVars
<1> QED
  BY <1>1, <1>2, <1>3 DEF NextMemory

\* The queue holds at most its capacity of letters, at the front of its array,
\* for every capacity.
THEOREM MemoryTypeOK == SpecMemory => []TypeOKMemory
<1>1. IInvMemory => TypeOKMemory
  BY DEF IInvMemory
<1> QED
  BY InitIInv, NextIInv, <1>1, PTL DEF SpecMemory

\* The slice a Drain returned to the replay code reads the same forever, for
\* every capacity: no later Push writes into it.
THEOREM DrainedStaysStable == SpecMemory => []DrainedIsStable
<1>1. IInvMemory => DrainedIsStable
  BY DEF IInvMemory
<1> QED
  BY InitIInv, NextIInv, <1>1, PTL DEF SpecMemory

\* Shifting inside the array implements the bounded sequence that drops its
\* oldest message, for every capacity.
THEOREM MemoryIsABoundedQueue == SpecMemory => ImplementsBoundedQueue
<1>1. InitMemory => Abstract!Init
  <2> SUFFICES ASSUME InitMemory PROVE Abstract!Init
    OBVIOUS
  <2>1. Contents \in Seq(Letters) /\ DOMAIN Contents = 1 .. 0
    BY InitIInv DEF InitMemory, IInvMemory, TypeOKMemory, Contents, Slice
  <2> QED
    BY <2>1 DEF Abstract!Init
<1>2. IInvMemory /\ [NextMemory]_memoryVars => [Abstract!Next]_Contents
  <2> SUFFICES ASSUME IInvMemory, [NextMemory]_memoryVars
               PROVE  Abstract!Next \/ UNCHANGED Contents
    OBVIOUS
  <2>1. CASE Drain
    BY <2>1, DrainContents DEF IInvMemory, Abstract!Next, Abstract!Drain
  <2>2. ASSUME NEW x \in Letters, Push(x)
        PROVE  Abstract!Next
    <3>1. Abstract!Push(x)
      BY <2>2, PushContents DEF IInvMemory, Abstract!Push
    <3> QED
      BY <3>1 DEF Abstract!Next
  <2>3. CASE UNCHANGED memoryVars
    BY <2>3 DEF Contents, Current, Slice, memoryVars
  <2> QED
    BY <2>1, <2>2, <2>3 DEF NextMemory
<1> QED
  BY InitIInv, NextIInv, <1>1, <1>2, PTL DEF SpecMemory, ImplementsBoundedQueue, Abstract!Spec
-----------------------------------------------------------------------------
(***************************************************************************)
(* The path: what is proved of its two parts holds of it.                  *)
(***************************************************************************)
\* handleMessage uses Do and the queue as they are specified, one call of Do after
\* the other and one Push for each that fails, whoever drains the queue meanwhile.
THEOREM PathComposes == SpecPath => Spec /\ SpecMemory
<1>1. InitPath => Init /\ InitMemory
  BY DEF InitPath
<1>2. [NextPath]_pathVars => [Next]_vars /\ [NextMemory]_memoryVars
  <2> SUFFICES ASSUME [NextPath]_pathVars
               PROVE  [Next]_vars /\ [NextMemory]_memoryVars
    OBVIOUS
  <2>1. CASE InDo(Step \/ Cancel)
    BY <2>1 DEF InDo, Next
  <2>2. CASE Record
    BY <2>2 DEF Record, Next, NextMemory
  <2>3. CASE Delivered
    BY <2>3 DEF Delivered, InDo, Next
  <2>4. CASE Replay
    BY <2>4 DEF Replay, NextMemory
  <2>5. CASE UNCHANGED pathVars
    BY <2>5 DEF pathVars
  <2> QED
    BY <2>1, <2>2, <2>3, <2>4, <2>5 DEF NextPath
<1> QED
  BY <1>1, <1>2, PTL DEF SpecPath, Spec, SpecMemory

\* What the run of the path checks, for every set of options and every capacity.
THEOREM PathIsSound ==
  SpecPath => [](ResultIsTrue /\ DelayIsBounded /\ DrainedIsStable) /\ ImplementsBoundedQueue
BY PathComposes, ResultIsAlwaysTrue, DelayIsAlwaysBounded, DrainedStaysStable,
   MemoryIsABoundedQueue, PTL
=============================================================================
