----------------------------- MODULE BlockingPop -----------------------------
(***************************************************************************)
(* How Push, Pop and TryPop of internal/gateway/priority/queue.go meet:    *)
(* the mutex, the condition variable and the goroutine that Pop starts     *)
(* because sync.Cond cannot be used in a select.                           *)
(*                                                                         *)
(* A critical section of q.mu is one step.  Between two of them others may *)
(* run: between Push's Unlock and its Signal, and between Pop's Unlock and *)
(* the moment its goroutine is inside cond.Wait.  The heap is abstracted   *)
(* to the set of queued items, of which pop() takes a best one             *)
(* (PriorityHeap implements exactly that).                                 *)
(***************************************************************************)
EXTENDS PriorityOrder

CONSTANTS Items,    \* the notifications that may be queued
          NoItem,   \* "no item": the zero Item
          Pushers,  \* goroutines that call Push
          Poppers   \* goroutines that call Pop in a loop

ASSUME NoItemAssumption == NoItem \notin Items

VARIABLES queue,    \* the items in q.items
          signals,  \* signals[u]: the item u has inserted and not signalled yet
          pc,       \* where each popper is
          held,     \* held[p]: the item p's last Pop returned, while p has it
          waiter,   \* the goroutine of p's current Pop
          done,     \* done[p]: the channel p passes to Pop is closed
          alerted   \* history: a Signal has woken a goroutine, with an item in
                    \* the queue, since the queue was last empty

queueVars == <<queue, signals, pc, held, waiter, done, alerted>>

\* A popper is calling Pop, blocked in its select, working on the item it
\* got, or has left its loop because Pop returned false.
PopperStates == {"call", "select", "holding", "stopped"}

\* The goroutine has not called Wait yet, is in Wait, has been notified but
\* not run since, or has closed the channel waiting.
WaiterStates == {"none", "starting", "waiting", "woken", "finished"}

TypeOK ==
  /\ queue \subseteq Items
  /\ signals \in [Pushers -> Items \cup {NoItem}]
  /\ pc \in [Poppers -> PopperStates]
  /\ held \in [Poppers -> Items \cup {NoItem}]
  /\ waiter \in [Poppers -> WaiterStates]
  /\ done \in [Poppers -> BOOLEAN]
  /\ alerted \in BOOLEAN
  /\ \A p \in Poppers : pc[p] = "holding" <=> held[p] # NoItem
-----------------------------------------------------------------------------
InitQueue == /\ queue = {}
             /\ signals = [u \in Pushers |-> NoItem]
             /\ pc = [p \in Poppers |-> "call"]
             /\ held = [p \in Poppers |-> NoItem]
             /\ waiter = [p \in Poppers |-> "none"]
             /\ done = [p \in Poppers |-> FALSE]
             /\ alerted = FALSE

\* Push, up to its Unlock.
Insert(u, x) == /\ signals[u] = NoItem
                /\ x \notin queue
                /\ queue' = queue \cup {x}
                /\ signals' = [signals EXCEPT ![u] = x]
                /\ UNCHANGED <<pc, held, waiter, done, alerted>>

Waiting == {p \in Poppers : waiter[p] = "waiting"}

\* Push's Signal wakes one goroutine that is in Wait, if there is any; which
\* one, sync.Cond leaves open.
Signal(u) ==
  /\ signals[u] # NoItem
  /\ signals' = [signals EXCEPT ![u] = NoItem]
  /\ \/ Waiting = {} /\ UNCHANGED <<waiter, alerted>>
     \/ \E p \in Waiting : /\ waiter' = [waiter EXCEPT ![p] = "woken"]
                           /\ alerted' = (alerted \/ queue # {})
  /\ UNCHANGED <<queue, pc, held, done>>

Remove(x) == /\ queue' = queue \ {x}
             /\ alerted' = (alerted /\ queue' # {})

\* p is at the test len(q.items) == 0 of Pop's loop, with the lock.  If
\* waiting and done are both ready the select may take either branch.
AtTest(p) == pc[p] = "call" \/ (pc[p] = "select" /\ waiter[p] = "finished")

\* Variant for the runs' mutants: the test is an if, and after its wait Pop
\* returns what is there, if only the zero Item.
PopItem_NoRecheck(p) ==
  /\ AtTest(p)
  /\ \/ \E x \in Best(queue) : Remove(x) /\ held' = [held EXCEPT ![p] = x]
     \/ queue = {} /\ pc[p] = "select" /\ UNCHANGED <<queue, alerted, held>>
  /\ pc' = [pc EXCEPT ![p] = "holding"]
  /\ UNCHANGED <<signals, waiter, done>>

PopItem(p) == /\ AtTest(p)
              /\ \E x \in Best(queue) : /\ Remove(x)
                                        /\ held' = [held EXCEPT ![p] = x]
              /\ pc' = [pc EXCEPT ![p] = "holding"]
              /\ UNCHANGED <<signals, waiter, done>>

\* Variant: Pop blocks first and looks afterwards.
PopBlocks_Unchecked(p) == /\ AtTest(p)
                          /\ waiter' = [waiter EXCEPT ![p] = "starting"]
                          /\ pc' = [pc EXCEPT ![p] = "select"]
                          /\ UNCHANGED <<queue, signals, held, done, alerted>>

PopBlocks(p) == /\ AtTest(p)
                /\ queue = {}
                /\ waiter' = [waiter EXCEPT ![p] = "starting"]
                /\ pc' = [pc EXCEPT ![p] = "select"]
                /\ UNCHANGED <<queue, signals, held, done, alerted>>

\* Variant: the done branch waits for the goroutine to end.
PopStops_Joins(p) == /\ pc[p] = "select"
                     /\ done[p]
                     /\ waiter[p] = "finished"
                     /\ pc' = [pc EXCEPT ![p] = "stopped"]
                     /\ UNCHANGED <<queue, signals, held, waiter, done, alerted>>

\* The done branch: Broadcast reaches the goroutines that are in Wait now.
PopStops(p) == /\ pc[p] = "select"
               /\ done[p]
               /\ waiter' = [q \in Poppers |-> IF waiter[q] = "waiting" THEN "woken"
                                                                        ELSE waiter[q]]
               /\ pc' = [pc EXCEPT ![p] = "stopped"]
               /\ UNCHANGED <<queue, signals, held, done, alerted>>

\* The goroutine takes the lock and waits; it does not look at the queue.
WaiterWaits(p) == /\ waiter[p] = "starting"
                  /\ waiter' = [waiter EXCEPT ![p] = "waiting"]
                  /\ UNCHANGED <<queue, signals, pc, held, done, alerted>>

\* Variant: the goroutine returns without close(waiting).
WaiterEnds_NoClose(p) == /\ waiter[p] = "woken"
                         /\ waiter' = [waiter EXCEPT ![p] = "none"]
                         /\ UNCHANGED <<queue, signals, pc, held, done, alerted>>

WaiterEnds(p) == /\ waiter[p] = "woken"
                 /\ waiter' = [waiter EXCEPT ![p] = "finished"]
                 /\ UNCHANGED <<queue, signals, pc, held, done, alerted>>

TryPop == /\ \E x \in Best(queue) : Remove(x)
          /\ UNCHANGED <<signals, pc, held, waiter, done>>

\* The callers: a popper is through with its item and calls Pop again; the
\* channel it passes is closed at any time and stays closed.
CallAgain(p) == /\ pc[p] = "holding"
                /\ pc' = [pc EXCEPT ![p] = "call"]
                /\ held' = [held EXCEPT ![p] = NoItem]
                /\ UNCHANGED <<queue, signals, waiter, done, alerted>>

CloseDone(p) == /\ ~ done[p]
                /\ done' = [done EXCEPT ![p] = TRUE]
                /\ UNCHANGED <<queue, signals, pc, held, waiter, alerted>>

PopperStep(p) == PopItem(p) \/ PopBlocks(p) \/ PopStops(p)
WaiterStep(p) == WaiterWaits(p) \/ WaiterEnds(p)

NextQueue ==
  \/ \E u \in Pushers : Signal(u) \/ \E x \in Items : Insert(u, x)
  \/ \E p \in Poppers : PopperStep(p) \/ WaiterStep(p) \/ CallAgain(p) \/ CloseDone(p)
  \/ TryPop

SpecQueue == InitQueue /\ [][NextQueue]_queueVars

\* A goroutine that can run does run: the pending Signal, the poppers and
\* Pop's goroutines.  Nobody is obliged to push, to TryPop or to close done.
QueueFairness ==
  /\ \A u \in Pushers : WF_queueVars(Signal(u))
  /\ \A p \in Poppers : /\ WF_queueVars(PopperStep(p))
                        /\ WF_queueVars(WaiterStep(p))
                        /\ WF_queueVars(CallAgain(p))

FairSpecQueue == SpecQueue /\ QueueFairness
-----------------------------------------------------------------------------
\* p's next step in the queue is the test of Pop's loop, whatever others do.
Active(p) == \/ pc[p] \in {"call", "holding"}
             \/ pc[p] = "select" /\ waiter[p] \in {"woken", "finished"}

\* A Pop in its select has a goroutine, and a goroutine that has not ended
\* belongs to a Pop in its select or to one that left through done: Pop never
\* has two goroutines at work and never waits for none.
GoroutineOfPop ==
  \A p \in Poppers :
    /\ pc[p] = "stopped" => done[p]
    /\ pc[p] = "select" => waiter[p] # "none"
    /\ waiter[p] \in {"starting", "waiting", "woken"} => pc[p] \in {"select", "stopped"}

\* While no done channel is closed, a Signal that reached a goroutine is never
\* wasted: as long as the queue has not been emptied since, some popper is on
\* its way to it.  (Signals that reach nobody are not covered: NoLostWakeup.)
AlertIsServed ==
  alerted /\ (\A p \in Poppers : ~ done[p]) => \E p \in Poppers : Active(p)

AlertMeansQueued == alerted => queue # {}

IInv == TypeOK /\ GoroutineOfPop /\ AlertMeansQueued /\ AlertIsServed

\* After a Signal that reached a goroutine the queue is emptied, unless a
\* popper is told to stop.
AlertLeadsToEmpty == alerted ~> (queue = {} \/ \E p \in Poppers : done[p])

\* A Pop blocked in its select when done is closed returns: it neither waits
\* for its goroutine nor for a Push.
BlockedPopReturns ==
  \A p \in Poppers : (pc[p] = "select" /\ done[p]) ~> pc[p] # "select"

\* queue.go:110 says Pop blocks until an item is available: it is never the
\* case that every popper is blocked for good, with no Signal pending and no
\* done channel closed, while an item is in the queue.
NoLostWakeup ==
  ~ /\ queue # {}
    /\ \A u \in Pushers : signals[u] = NoItem
    /\ \A p \in Poppers : pc[p] = "select" /\ waiter[p] = "waiting" /\ ~ done[p]
=============================================================================
