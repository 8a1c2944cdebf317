--------------------------- MODULE DeadLetterQueue ---------------------------
(***************************************************************************)
(* The in-memory dead letter queue of pkg/dlq/dlq.go, down to its memory:  *)
(* m.messages is a slice of a backing array, Push shifts inside that array *)
(* when the queue is full, and Drain hands the array itself to its caller. *)
(* Every method runs under m.mu, so a method is one step.                  *)
(***************************************************************************)
EXTENDS Naturals, Sequences

CONSTANTS Letters,   \* the messages that may be pushed
          Empty,     \* a cell that has not been written
          Capacity,  \* the argument of NewMemory
          MaxArrays  \* bound: arrays ever allocated, one more than the drains

\* A capacity of 0 makes Push panic at m.messages[1:]; the worker uses 10000.
ASSUME CapacityAssumption == Capacity \in Nat \ {0} /\ MaxArrays \in Nat \ {0}

VARIABLES arrays,  \* the backing arrays, in the order of their allocation
          length,  \* len(m.messages), a slice of the last array from its start
          drained  \* what Drain returned: [array, length], and, as a history,
                   \* the contents at that time

memoryVars == <<arrays, length, drained>>

\* The elements of a slice of array number a.
Slice(a, n) == [k \in 1 .. n |-> arrays[a][k]]

Current == Len(arrays)

\* What Messages returns a copy of, and Len the length of.
Contents == Slice(Current, length)

NewArray == [k \in 1 .. Capacity |-> Empty]

TypeOKMemory ==
  /\ arrays \in Seq([1 .. Capacity -> Letters \cup {Empty}])
  /\ Current \in 1 .. MaxArrays
  /\ length \in 0 .. Capacity
  /\ Contents \in Seq(Letters)
  /\ drained \in Seq([array : 1 .. MaxArrays, length : 0 .. Capacity, was : Seq(Letters)])
-----------------------------------------------------------------------------
InitMemory == /\ arrays = <<NewArray>>
        /\ length = 0
        /\ drained = <<>>

\* copy(m.messages, m.messages[1:]), within the array.
Shifted(cells, n) == [k \in 1 .. Capacity |-> IF k < n THEN cells[k + 1] ELSE cells[k]]

\* Variant for the runs' mutants: a full queue writes over its newest message.
Push_DropsNewest(x) ==
  LET last == IF length = Capacity THEN Capacity ELSE length + 1 IN
  /\ arrays' = [arrays EXCEPT ![Current] = [@ EXCEPT ![last] = x]]
  /\ length' = last
  /\ UNCHANGED drained

\* Variant: the test is length > capacity, and append grows the array.
Push_Grows(x) ==
  /\ length <= Capacity
  /\ arrays' = [arrays EXCEPT ![Current] =
                  [k \in DOMAIN @ \cup {length + 1} |-> IF k = length + 1 THEN x ELSE @[k]]]
  /\ length' = length + 1
  /\ UNCHANGED drained

\* append never reallocates: there is room for one more after the shift.
Push(x) ==
  LET full  == length >= Capacity
      cells == IF full THEN Shifted(arrays[Current], length) ELSE arrays[Current]
      last  == IF full THEN length ELSE length + 1
  IN  /\ arrays' = [arrays EXCEPT ![Current] = [cells EXCEPT ![last] = x]]
      /\ length' = last
      /\ UNCHANGED drained

\* Variant: m.messages = m.messages[:0], which keeps the array.
Drain_KeepsArray ==
  /\ Len(drained) < MaxArrays - 1
  /\ drained' = Append(drained, [array |-> Current, length |-> length, was |-> Contents])
  /\ length' = 0
  /\ UNCHANGED arrays

Drain ==
  /\ Current < MaxArrays
  /\ drained' = Append(drained, [array |-> Current, length |-> length, was |-> Contents])
  /\ arrays' = Append(arrays, NewArray)
  /\ length' = 0

NextMemory == Drain \/ \E x \in Letters : Push(x)

SpecMemory == InitMemory /\ [][NextMemory]_memoryVars
-----------------------------------------------------------------------------
\* Drain never gives away the array that Push writes.
DrainedArrays ==
  \A j \in 1 .. Len(drained) : drained[j].array < Current

\* The slice that a Drain returned keeps its contents, whatever is pushed later:
\* the replay of the dead letters reads what was in the queue.
DrainedIsStable ==
  \A j \in 1 .. Len(drained) :
    Slice(drained[j].array, drained[j].length) = drained[j].was

IInvMemory == TypeOKMemory /\ DrainedArrays /\ DrainedIsStable

\* The queue is a bounded sequence that drops its oldest element.
Abstract == INSTANCE BoundedQueue WITH contents <- Contents
ImplementsBoundedQueue == Abstract!Spec
=============================================================================
