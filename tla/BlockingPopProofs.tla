-------------------------- MODULE BlockingPopProofs --------------------------
(***************************************************************************)
(* The invariant of BlockingPop, for any number of pushers, poppers and    *)
(* items.                                                                  *)
(***************************************************************************)
EXTENDS BlockingPop, TLAPS

\* While nothing is queued, or every popper is at work, there is nothing to
\* serve; what is left is the effect of each action on the poppers.
LEMMA QueueInit == InitQueue => IInv
  BY DEF InitQueue, IInv, TypeOK, GoroutineOfPop, AlertMeansQueued,
         AlertIsServed, PopperStates, WaiterStates

\* A removal that leaves the history variable TRUE left an item behind.
LEMMA RemoveType ==
  ASSUME TypeOK, NEW x \in Items, Remove(x)
  PROVE  /\ queue' \subseteq Items
         /\ alerted' \in BOOLEAN
         /\ alerted' => alerted
<1>1. queue' \subseteq Items
  BY DEF TypeOK, Remove
<1> QED
  BY <1>1 DEF TypeOK, Remove

\* Every step keeps the variables in their types.
LEMMA NextTypeOK == ASSUME TypeOK, NextQueue PROVE TypeOK'
<1> USE DEF TypeOK, PopperStates, WaiterStates
<1>1. ASSUME NEW u \in Pushers, NEW x \in Items, Insert(u, x) PROVE TypeOK'
  BY <1>1 DEF Insert
<1>2. ASSUME NEW u \in Pushers, Signal(u) PROVE TypeOK'
  <2>1. queue' \subseteq Items /\ pc' = pc /\ held' = held /\ done' = done
    BY <1>2 DEF Signal
  <2>2. signals' \in [Pushers -> Items \cup {NoItem}]
    BY <1>2 DEF Signal
  <2>3. waiter' \in [Poppers -> WaiterStates]
    BY <1>2 DEF Signal, Waiting
  <2>4. alerted' \in BOOLEAN
    BY <1>2, Zenon DEF Signal
  <2> QED
    BY <2>1, <2>2, <2>3, <2>4
<1>3. ASSUME NEW p \in Poppers, PopItem(p) PROVE TypeOK'
  <2>1. PICK x \in Best(queue) : Remove(x) /\ held' = [held EXCEPT ![p] = x]
    BY <1>3 DEF PopItem
  <2>2. x \in Items
    BY <2>1 DEF Best
  <2>3. queue' \subseteq Items /\ alerted' \in BOOLEAN
    <3> HIDE DEF TypeOK
    <3> QED
      BY <2>1, <2>2, RemoveType
  <2>4. x # NoItem
    BY <2>2, NoItemAssumption
  <2>5. /\ pc' = [pc EXCEPT ![p] = "holding"]
        /\ signals' = signals /\ waiter' = waiter /\ done' = done
    BY <1>3 DEF PopItem
  <2>6. held' \in [Poppers -> Items \cup {NoItem}] /\ pc' \in [Poppers -> PopperStates]
    BY <2>1, <2>2, <2>5
  <2>7. \A q \in Poppers : pc'[q] = "holding" <=> held'[q] # NoItem
    BY <2>1, <2>4, <2>5
  <2>8. /\ signals' \in [Pushers -> Items \cup {NoItem}]
        /\ waiter' \in [Poppers -> WaiterStates] /\ done' \in [Poppers -> BOOLEAN]
    BY <2>5
  <2> HIDE DEF PopperStates, WaiterStates
  <2> QED
    BY <2>3, <2>6, <2>7, <2>8, Zenon
<1>4. ASSUME NEW p \in Poppers, PopBlocks(p) PROVE TypeOK'
  BY <1>4 DEF PopBlocks, AtTest
<1>5. ASSUME NEW p \in Poppers, PopStops(p) PROVE TypeOK'
  BY <1>5 DEF PopStops
<1>6. ASSUME NEW p \in Poppers, WaiterStep(p) PROVE TypeOK'
  BY <1>6 DEF WaiterStep, WaiterWaits, WaiterEnds
<1>7. ASSUME NEW p \in Poppers, CallAgain(p) PROVE TypeOK'
  BY <1>7 DEF CallAgain
<1>8. ASSUME NEW p \in Poppers, CloseDone(p) PROVE TypeOK'
  BY <1>8 DEF CloseDone
<1>9. CASE TryPop
  <2>1. PICK x \in Best(queue) : Remove(x)
    BY <1>9 DEF TryPop
  <2>2. queue' \subseteq Items /\ alerted' \in BOOLEAN
    BY <2>1, RemoveType DEF Best
  <2> QED
    BY <1>9, <2>2 DEF TryPop
<1> QED
  BY <1>1, <1>2, <1>3, <1>4, <1>5, <1>6, <1>7, <1>8, <1>9 DEF NextQueue, PopperStep

\* A goroutine is started only by a Pop that has none at work, and outlives
\* only a Pop that stopped.
LEMMA NextGoroutine ==
  ASSUME TypeOK, GoroutineOfPop, NextQueue PROVE GoroutineOfPop'
<1> USE DEF TypeOK, GoroutineOfPop, PopperStates, WaiterStates
<1>1. ASSUME NEW u \in Pushers, NEW x \in Items, Insert(u, x) PROVE GoroutineOfPop'
  BY <1>1 DEF Insert
<1>2. ASSUME NEW u \in Pushers, Signal(u) PROVE GoroutineOfPop'
  BY <1>2 DEF Signal, Waiting
<1>3. ASSUME NEW p \in Poppers, PopItem(p) PROVE GoroutineOfPop'
  BY <1>3 DEF PopItem, AtTest
<1>4. ASSUME NEW p \in Poppers, PopBlocks(p) PROVE GoroutineOfPop'
  BY <1>4 DEF PopBlocks, AtTest
<1>5. ASSUME NEW p \in Poppers, PopStops(p) PROVE GoroutineOfPop'
  BY <1>5 DEF PopStops
<1>6. ASSUME NEW p \in Poppers, WaiterStep(p) PROVE GoroutineOfPop'
  BY <1>6 DEF WaiterStep, WaiterWaits, WaiterEnds
<1>7. ASSUME NEW p \in Poppers, CallAgain(p) PROVE GoroutineOfPop'
  BY <1>7 DEF CallAgain
<1>8. ASSUME NEW p \in Poppers, CloseDone(p) PROVE GoroutineOfPop'
  BY <1>8 DEF CloseDone
<1>9. CASE TryPop
  BY <1>9 DEF TryPop
<1> QED
  BY <1>1, <1>2, <1>3, <1>4, <1>5, <1>6, <1>7, <1>8, <1>9 DEF NextQueue, PopperStep

\* The history variable is reset by the removal that empties the queue.
LEMMA NextAlertQueued ==
  ASSUME TypeOK, AlertMeansQueued, NextQueue PROVE AlertMeansQueued'
<1> USE DEF TypeOK, AlertMeansQueued
<1>1. ASSUME NEW u \in Pushers, NEW x \in Items, Insert(u, x) PROVE AlertMeansQueued'
  BY <1>1 DEF Insert
<1>2. ASSUME NEW u \in Pushers, Signal(u) PROVE AlertMeansQueued'
  BY <1>2 DEF Signal
<1>3. ASSUME NEW x \in Best(queue), Remove(x) PROVE AlertMeansQueued'
  BY <1>3 DEF Remove
<1>4. ASSUME UNCHANGED <<queue, alerted>> PROVE AlertMeansQueued'
  BY <1>4
<1> QED
  BY <1>1, <1>2, <1>3, <1>4
     DEF NextQueue, PopperStep, WaiterStep, PopItem, PopBlocks, PopStops,
         WaiterWaits, WaiterEnds, CallAgain, CloseDone, TryPop

\* A popper becomes inactive only by finding the queue empty, which ends the
\* alert, or by stopping, which needs a closed done channel.
LEMMA NextAlert == ASSUME IInv, NextQueue PROVE AlertIsServed'
<1> SUFFICES ASSUME alerted', \A p \in Poppers : ~ done'[p]
             PROVE  \E p \in Poppers : Active(p)'
  BY DEF AlertIsServed
<1> USE DEF IInv, TypeOK, PopperStates, WaiterStates, Active
<1>0. alerted /\ (\A p \in Poppers : ~ done[p]) => \E p \in Poppers : Active(p)
  BY DEF AlertIsServed
<1>1. ASSUME NEW u \in Pushers, NEW x \in Items, Insert(u, x)
      PROVE  \E p \in Poppers : Active(p)'
  BY <1>0, <1>1 DEF Insert
<1>2. ASSUME NEW u \in Pushers, Signal(u) PROVE \E p \in Poppers : Active(p)'
  <2>1. CASE Waiting = {} /\ UNCHANGED <<waiter, alerted>>
    BY <1>0, <1>2, <2>1 DEF Signal
  <2>2. ASSUME NEW p \in Waiting, waiter' = [waiter EXCEPT ![p] = "woken"]
        PROVE  Active(p)'
    <3>1. p \in Poppers /\ waiter[p] = "waiting" /\ pc' = pc
      BY <1>2 DEF Waiting, Signal
    <3>2. pc[p] = "select"
      BY <1>2, <3>1 DEF GoroutineOfPop, Signal
    <3> QED
      BY <2>2, <3>1, <3>2
  <2> QED
    BY <1>2, <2>1, <2>2 DEF Signal, Waiting
<1>3. ASSUME NEW p \in Poppers, PopItem(p) PROVE Active(p)'
  BY <1>3 DEF PopItem
<1>4. ASSUME NEW p \in Poppers, PopBlocks(p) PROVE FALSE
  BY <1>4 DEF PopBlocks, AlertMeansQueued
<1>5. ASSUME NEW p \in Poppers, PopStops(p) PROVE FALSE
  BY <1>5 DEF PopStops
<1>6. ASSUME NEW p \in Poppers, WaiterStep(p) PROVE \E q \in Poppers : Active(q)'
  BY <1>0, <1>6 DEF WaiterStep, WaiterWaits, WaiterEnds
<1>7. ASSUME NEW p \in Poppers, CallAgain(p) PROVE Active(p)'
  BY <1>7 DEF CallAgain
<1>8. ASSUME NEW p \in Poppers, CloseDone(p) PROVE FALSE
  BY <1>8 DEF CloseDone
<1>9. CASE TryPop
  BY <1>0, <1>9 DEF TryPop, Remove
<1> QED
  BY <1>1, <1>2, <1>3, <1>4, <1>5, <1>6, <1>7, <1>8, <1>9 DEF NextQueue, PopperStep

\* Every step preserves the invariant.
LEMMA NextIInv == IInv /\ [NextQueue]_queueVars => IInv'
<1>1. ASSUME IInv, NextQueue PROVE IInv'
  <2>1. TypeOK' /\ GoroutineOfPop' /\ AlertMeansQueued'
    BY <1>1, NextTypeOK, NextGoroutine, NextAlertQueued DEF IInv
  <2> QED
    BY <1>1, <2>1, NextAlert DEF IInv
<1>2. ASSUME IInv, UNCHANGED queueVars PROVE IInv'
  BY <1>2 DEF IInv, TypeOK, GoroutineOfPop, AlertMeansQueued, AlertIsServed, Active,
              queueVars
<1> QED
  BY <1>1, <1>2

\* Every Pop has at most one goroutine at work, and the goroutine is the Pop's.
THEOREM OneGoroutinePerPop == SpecQueue => [](TypeOK /\ GoroutineOfPop)
<1>1. SpecQueue => []IInv
  BY QueueInit, NextIInv, PTL DEF SpecQueue
<1> QED
  BY <1>1, PTL DEF IInv

\* A Signal that reached a goroutine of Pop always brings a popper to the
\* queue, for any number of pushers and poppers.
THEOREM NoAlertIsWasted == SpecQueue => []AlertIsServed
<1>1. SpecQueue => []IInv
  BY QueueInit, NextIInv, PTL DEF SpecQueue
<1> QED
  BY <1>1, PTL DEF IInv

\* The run lost_wakeup finds a Pop that sleeps on a queue with items.  The next
\* Signal mends this, be it for another item: it wakes a goroutine if there is one
\* in Wait, and its Pop finds the item that was missed.
NextSignalMends ==
  \A u \in Pushers :
    Signal(u) /\ queue # {} /\ Waiting # {} /\ (\A p \in Poppers : ~ done[p]) =>
      alerted' /\ \E p \in Poppers : Active(p)'

\* Any Signal to a waiting goroutine, with something queued, puts a popper on its
\* way to the queue, however many wake-ups were lost before.
THEOREM SignalsMend == SpecQueue => [][NextSignalMends]_queueVars
<1>1. ASSUME IInv, IInv' PROVE NextSignalMends
  <2> SUFFICES ASSUME NEW u \in Pushers, Signal(u), queue # {}, Waiting # {},
                      \A p \in Poppers : ~ done[p]
               PROVE  alerted' /\ \E p \in Poppers : Active(p)'
    BY DEF NextSignalMends
  <2>1. alerted' /\ done' = done
    BY DEF Signal
  <2> QED
    BY <1>1, <2>1 DEF IInv, AlertIsServed
<1>2. SpecQueue => []IInv
  BY QueueInit, NextIInv, PTL DEF SpecQueue
<1> QED
  BY <1>1, <1>2, PTL
=============================================================================
