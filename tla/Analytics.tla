----------------------------- MODULE Analytics -----------------------------
(***************************************************************************)
(* Stats of internal/analytics/analytics.go: goroutines that record the    *)
(* outcome of deliveries and others that take snapshots (the handler of    *)
(* the analytics API), under one sync.RWMutex.  A step is one access to    *)
(* the shared counters or one operation of the mutex.                      *)
(***************************************************************************)
EXTENDS Integers

CONSTANTS Recorders, Readers,
          Calls,       \* the calls of RecordSuccess and RecordFailure to make
          Nobody

ASSUME AnalyticsAssumption ==
  /\ Nobody \notin Recorders
  /\ \A c \in Calls : c.ok \in BOOLEAN /\ c.ms \in Nat

VARIABLES todo,      \* calls not made yet
          pc,        \* where each recorder is in its call
          call,      \* the call it is making
          read,      \* what it has read of the counter it increments
          writer,    \* the recorder that has or waits for the write lock
          reading,   \* the readers that have the read lock
          blocked,   \* the readers that wait for it
          counters,  \* channel -> its ChannelStats
          snapshot,  \* what each reader has copied so far
          tally,     \* history: the counters that the calls that have
                     \* returned should have left
          asOf       \* history: tally when each reader got the read lock

vars == <<todo, pc, call, read, writer, reading, blocked, counters, snapshot,
          tally, asOf>>

Channels == {c.channel : c \in Calls}

Zero == [sent |-> 0, failed |-> 0, totalMs |-> 0]

ChannelStats == [sent : Nat, failed : Nat, totalMs : Nat]

EmptyMap == [n \in {} |-> Zero]

IsStats(map) == /\ DOMAIN map \subseteq Channels
                /\ \A n \in DOMAIN map : map[n] \in ChannelStats

TypeOK ==
  /\ todo \subseteq Calls
  /\ pc \in [Recorders -> {"idle", "lock", "wait", "create", "read", "write", "add", "unlock"}]
  /\ call \in [Recorders -> Calls \cup {Nobody}]
  /\ \A r \in Recorders : pc[r] # "idle" => call[r] \in Calls
  /\ \A r \in Recorders : pc[r] \in {"read", "write", "add"} =>
       call[r].channel \in DOMAIN counters
  /\ read \in [Recorders -> Nat]
  /\ writer \in Recorders \cup {Nobody}
  /\ reading \subseteq Readers /\ blocked \subseteq Readers
  /\ IsStats(counters) /\ IsStats(tally)

Init == /\ todo = Calls
        /\ pc = [r \in Recorders |-> "idle"]
        /\ call = [r \in Recorders |-> Nobody]
        /\ read = [r \in Recorders |-> 0]
        /\ writer = Nobody
        /\ reading = {} /\ blocked = {}
        /\ counters = EmptyMap
        /\ snapshot = [d \in Readers |-> EmptyMap]
        /\ tally = EmptyMap
        /\ asOf = [d \in Readers |-> EmptyMap]

readerVars == <<reading, blocked, snapshot, asOf>>

Moves(r, from, to) == pc[r] = from /\ pc' = [pc EXCEPT ![r] = to]

(***************************************************************************)
(* RecordSuccess and RecordFailure.                                        *)
(***************************************************************************)
Begin(r, c) == /\ c \in todo
               /\ Moves(r, "idle", "lock")
               /\ todo' = todo \ {c}
               /\ call' = [call EXCEPT ![r] = c]
               /\ UNCHANGED <<read, writer, counters, tally, readerVars>>

\* Lock keeps other writers and new readers out, then waits for the readers.
Lock(r) == /\ writer = Nobody
           /\ Moves(r, "lock", "wait")
           /\ writer' = r
           /\ UNCHANGED <<todo, call, read, counters, tally, readerVars>>

Locked(r) == /\ reading = {}
             /\ Moves(r, "wait", "create")
             /\ UNCHANGED <<todo, call, read, writer, counters, tally, readerVars>>

With(map, n) == [k \in DOMAIN map \cup {n} |-> IF k \in DOMAIN map THEN map[k] ELSE Zero]

\* Variant for the runs' mutants: the new ChannelStats is not put into the map.
GetOrCreate_NotStored(r) ==
  /\ Moves(r, "create", "read")
  /\ UNCHANGED <<todo, call, read, writer, counters, tally, readerVars>>

GetOrCreate(r) == /\ Moves(r, "create", "read")
                  /\ counters' = With(counters, call[r].channel)
                  /\ UNCHANGED <<todo, call, read, writer, tally, readerVars>>

\* Sent++ or Failed++: a read, then a write.
ReadCount(r) ==
  /\ Moves(r, "read", "write")
  /\ LET cs == counters[call[r].channel]
     IN  read' = [read EXCEPT ![r] = IF call[r].ok THEN cs.sent ELSE cs.failed]
  /\ UNCHANGED <<todo, call, writer, counters, tally, readerVars>>

WriteCount(r) ==
  /\ Moves(r, "write", IF call[r].ok THEN "add" ELSE "unlock")
  /\ LET n == call[r].channel
     IN  counters' = IF call[r].ok THEN [counters EXCEPT ![n].sent = read[r] + 1]
                                   ELSE [counters EXCEPT ![n].failed = read[r] + 1]
  /\ UNCHANGED <<todo, call, read, writer, tally, readerVars>>

AddLatency(r) ==
  /\ Moves(r, "add", "unlock")
  /\ counters' = [counters EXCEPT ![call[r].channel].totalMs = @ + call[r].ms]
  /\ UNCHANGED <<todo, call, read, writer, tally, readerVars>>

\* What one call should do to the counters.
Added(cs, c) == IF c.ok THEN [cs EXCEPT !.sent = @ + 1, !.totalMs = @ + c.ms]
                        ELSE [cs EXCEPT !.failed = @ + 1]

Counted(map, c) == [With(map, c.channel) EXCEPT ![c.channel] = Added(@, c)]

\* The readers that came meanwhile go before the next writer.
Unlock(r) ==
  /\ Moves(r, "unlock", "idle")
  /\ tally' = Counted(tally, call[r])
  /\ writer' = Nobody
  /\ reading' = blocked
  /\ blocked' = {}
  /\ asOf' = [d \in Readers |-> IF d \in blocked THEN tally' ELSE asOf[d]]
  /\ UNCHANGED <<todo, call, read, counters, snapshot>>

(***************************************************************************)
(* Snapshot.                                                               *)
(***************************************************************************)
\* Variants for the runs' mutants: the map is read without the lock.
RLock_Ignored(d) ==
  /\ d \notin reading \cup blocked
  /\ reading' = reading \cup {d}
  /\ snapshot' = [snapshot EXCEPT ![d] = EmptyMap]
  /\ asOf' = [asOf EXCEPT ![d] = tally]
  /\ UNCHANGED <<todo, pc, call, read, writer, blocked, counters, tally>>

\* Variant: only a writer that has the lock keeps readers out.
RLock_ReadersFirst(d) ==
  /\ d \notin reading \cup blocked
  /\ IF writer = Nobody \/ \E r \in Recorders : writer = r /\ pc[r] = "wait"
     THEN reading' = reading \cup {d} /\ UNCHANGED blocked
     ELSE blocked' = blocked \cup {d} /\ UNCHANGED reading
  /\ snapshot' = [snapshot EXCEPT ![d] = EmptyMap]
  /\ asOf' = [asOf EXCEPT ![d] = tally]
  /\ UNCHANGED <<todo, pc, call, read, writer, counters, tally>>

\* A writer that has the lock, or waits for it, blocks new readers.
RLock(d) ==
  /\ d \notin reading \cup blocked
  /\ IF writer = Nobody
     THEN reading' = reading \cup {d} /\ UNCHANGED blocked
     ELSE blocked' = blocked \cup {d} /\ UNCHANGED reading
  /\ snapshot' = [snapshot EXCEPT ![d] = EmptyMap]
  /\ asOf' = [asOf EXCEPT ![d] = tally]
  /\ UNCHANGED <<todo, pc, call, read, writer, counters, tally>>

\* Quotients are pairs; a channel without deliveries has none.
Quotient(n, d) == IF d > 0 THEN <<n, d>> ELSE <<0, 1>>

Report(cs) == [sent |-> cs.sent, failed |-> cs.failed,
               rate |-> Quotient(cs.sent, cs.sent + cs.failed),
               avg  |-> Quotient(cs.totalMs, cs.sent)]

\* One round of the loop, which takes the channels in any order.
Copy(d) ==
  /\ d \in reading
  /\ \E n \in DOMAIN counters \ DOMAIN snapshot[d] :
       snapshot' = [snapshot EXCEPT ![d] =
                      [k \in DOMAIN @ \cup {n} |-> IF k = n THEN Report(counters[n]) ELSE @[k]]]
  /\ UNCHANGED <<todo, pc, call, read, writer, reading, blocked, counters, tally, asOf>>

RUnlock(d) ==
  /\ d \in reading
  /\ DOMAIN counters \subseteq DOMAIN snapshot[d]
  /\ reading' = reading \ {d}
  /\ UNCHANGED <<todo, pc, call, read, writer, blocked, counters, snapshot, tally, asOf>>

Records(r) == \/ Lock(r) \/ Locked(r) \/ GetOrCreate(r) \/ ReadCount(r)
              \/ WriteCount(r) \/ AddLatency(r) \/ Unlock(r)

Reads(d) == Copy(d) \/ RUnlock(d)

Next == \/ \E r \in Recorders : Records(r) \/ \E c \in Calls : Begin(r, c)
        \/ \E d \in Readers : Reads(d) \/ RLock(d)

Spec == Init /\ [][Next]_vars

\* Goroutines run; nobody is obliged to call anything.
Fairness == /\ \A r \in Recorders : WF_vars(Records(r))
            /\ \A d \in Readers : WF_vars(Reads(d))

FairSpec == Spec /\ Fairness
-----------------------------------------------------------------------------
\* What Snapshot returns is "a point-in-time copy of all channel stats": for
\* every channel it gives what the calls made up to one moment, between its call
\* and its return, should have left, with the averages and rates of that moment,
\* whatever is recorded meanwhile.
SnapshotIsPointInTime ==
  \A d \in Readers \ (reading \cup blocked) :
    snapshot[d] = [n \in DOMAIN asOf[d] |-> Report(asOf[d][n])]

\* Recording goes on while snapshots are taken again and again, and snapshots
\* while deliveries are recorded: every call returns.
CallsReturn ==
  /\ \A r \in Recorders : pc[r] # "idle" ~> pc[r] = "idle"
  /\ \A d \in Readers : d \in reading \cup blocked ~> d \notin reading \cup blocked
=============================================================================
