-------------------------- MODULE AnalyticsProofs --------------------------
(***************************************************************************)
(* A snapshot of Analytics is of one moment, for any number of recorders,  *)
(* readers and calls.                                                      *)
(***************************************************************************)
EXTENDS Analytics, TLAPS

Inside == {"create", "read", "write", "add", "unlock"}

\* The recorder past Lock is the writer, alone with the counters once it is in;
\* readers wait for a writer only.
Exclusion ==
  /\ \A r \in Recorders : pc[r] \in Inside \cup {"wait"} <=> writer = r
  /\ \A r \in Recorders : pc[r] \in Inside => reading = {}
  /\ reading \cap blocked = {}
  /\ blocked # {} => writer # Nobody

\* How much of its call the writer has done to the counters.
Progress(r) ==
  LET n == call[r].channel
      cs == With(tally, n)[n]
  IN  /\ pc[r] \in {"wait", "create"} => counters = tally
      /\ pc[r] \in {"read", "write"} => counters = With(tally, n)
      /\ pc[r] = "write" => read[r] = IF call[r].ok THEN cs.sent ELSE cs.failed
      /\ pc[r] = "add" => /\ call[r].ok
                          /\ counters = [With(tally, n) EXCEPT ![n] = [cs EXCEPT !.sent = @ + 1]]
      /\ pc[r] = "unlock" => counters = Counted(tally, call[r])

Counts == /\ writer = Nobody => counters = tally
          /\ \A r \in Recorders : Progress(r)

ReportOf(map, dom) == [n \in dom |-> Report(map[n])]

\* A reader has copied some of the counters as they are while it reads.
Copies ==
  /\ snapshot = [d \in Readers |-> snapshot[d]] /\ asOf = [d \in Readers |-> asOf[d]]
  /\ \A d \in reading :
       /\ asOf[d] = tally
       /\ DOMAIN snapshot[d] \subseteq DOMAIN counters
       /\ snapshot[d] = ReportOf(counters, DOMAIN snapshot[d])
  /\ \A d \in blocked : snapshot[d] = EmptyMap
  /\ \A d \in Readers \ (reading \cup blocked) : snapshot[d] = ReportOf(asOf[d], DOMAIN asOf[d])

StatsInv == TypeOK /\ Exclusion /\ Counts /\ Copies

LEMMA WithFacts ==
  ASSUME NEW map, IsStats(map), NEW n \in Channels
  PROVE  /\ IsStats(With(map, n)) /\ n \in DOMAIN With(map, n)
         /\ DOMAIN With(map, n) = DOMAIN map \cup {n}
         /\ With(map, n)[n] \in ChannelStats
BY DEF IsStats, With, Zero, ChannelStats

LEMMA CallFacts ==
  ASSUME TypeOK, NEW r \in Recorders, pc[r] # "idle"
  PROVE  /\ call[r] \in Calls /\ call[r].channel \in Channels
         /\ call[r].ok \in BOOLEAN /\ call[r].ms \in Nat
BY AnalyticsAssumption DEF TypeOK, Channels

\* Changing one channel's counters keeps the map's type.
LEMMA UpdateStats ==
  ASSUME NEW map, IsStats(map), NEW n \in DOMAIN map, NEW cs \in ChannelStats
  PROVE  IsStats([map EXCEPT ![n] = cs]) /\ DOMAIN [map EXCEPT ![n] = cs] = DOMAIN map
BY DEF IsStats

(***************************************************************************)
(* The steps of a recorder.                                                *)
(***************************************************************************)
States == {"idle", "lock", "wait", "create", "read", "write", "add", "unlock"}

LEMMA MoveFacts ==
  ASSUME TypeOK, NEW r \in Recorders, NEW from, NEW to \in States, Moves(r, from, to)
  PROVE  /\ pc[r] = from /\ pc'[r] = to
         /\ \A q \in Recorders \ {r} : pc'[q] = pc[q]
         /\ pc' \in [Recorders -> States]
BY DEF Moves, TypeOK, States

LEMMA InitStatsInv == Init => StatsInv
<1> SUFFICES ASSUME Init PROVE StatsInv
  OBVIOUS
<1>1. IsStats(EmptyMap)
  BY DEF IsStats, EmptyMap
<1>2. TypeOK
  BY <1>1 DEF Init, TypeOK
<1>3. Exclusion
  BY AnalyticsAssumption DEF Init, Exclusion, Inside
<1>4. Counts
  BY DEF Init, Counts, Progress
<1>5. EmptyMap = ReportOf(EmptyMap, DOMAIN EmptyMap)
  BY DEF EmptyMap, ReportOf
<1>6. Copies
  BY <1>5 DEF Init, Copies
<1> QED
  BY <1>2, <1>3, <1>4, <1>6 DEF StatsInv

\* Only the writer changes the counters, and only where its call says.
LEMMA RecordTypes == ASSUME StatsInv, NEW r \in Recorders, Records(r) PROVE TypeOK'
<1>0. TypeOK /\ Counts /\ Progress(r)
  BY DEF StatsInv, Counts
<1>1. pc[r] # "idle" => call[r] \in Calls /\ call[r].channel \in Channels
                        /\ call[r].ok \in BOOLEAN /\ call[r].ms \in Nat
  BY <1>0, CallFacts
<1>2. CASE Lock(r)
  <2>1. pc'[r] = "wait" /\ (\A q \in Recorders \ {r} : pc'[q] = pc[q])
        /\ pc' \in [Recorders -> States] /\ pc[r] = "lock"
    BY <1>0, <1>2, MoveFacts DEF Lock, States
  <2> QED
    BY <1>0, <1>2, <2>1 DEF Lock, readerVars, TypeOK, States
<1>3. CASE Locked(r)
  <2>1. pc'[r] = "create" /\ (\A q \in Recorders \ {r} : pc'[q] = pc[q])
        /\ pc' \in [Recorders -> States] /\ pc[r] = "wait"
    BY <1>0, <1>3, MoveFacts DEF Locked, States
  <2> QED
    BY <1>0, <1>3, <2>1 DEF Locked, readerVars, TypeOK, States
<1>4. CASE GetOrCreate(r)
  <2>1. pc'[r] = "read" /\ (\A q \in Recorders \ {r} : pc'[q] = pc[q])
        /\ pc' \in [Recorders -> States] /\ pc[r] = "create"
    BY <1>0, <1>4, MoveFacts DEF GetOrCreate, States
  <2>2. IsStats(counters') /\ DOMAIN counters' = DOMAIN counters \cup {call[r].channel}
    BY <1>0, <1>1, <1>4, <2>1, WithFacts DEF GetOrCreate, TypeOK
  <2> QED
    BY <1>0, <1>4, <2>1, <2>2 DEF GetOrCreate, readerVars, TypeOK, States
<1>5. CASE ReadCount(r)
  <2>1. pc'[r] = "write" /\ (\A q \in Recorders \ {r} : pc'[q] = pc[q])
        /\ pc' \in [Recorders -> States] /\ pc[r] = "read"
    BY <1>0, <1>5, MoveFacts DEF ReadCount, States
  <2>2. counters[call[r].channel] \in ChannelStats
    BY <1>0, <2>1 DEF TypeOK, IsStats
  <2>3. read' \in [Recorders -> Nat]
    BY <1>0, <1>5, <2>2 DEF ReadCount, TypeOK, ChannelStats
  <2> QED
    BY <1>0, <1>5, <2>1, <2>3 DEF ReadCount, readerVars, TypeOK, States
<1>6. CASE WriteCount(r)
  <2>1. pc'[r] \in {"add", "unlock"} /\ (\A q \in Recorders \ {r} : pc'[q] = pc[q])
        /\ pc' \in [Recorders -> States] /\ pc[r] = "write"
    BY <1>0, <1>6, MoveFacts DEF WriteCount, States
  <2>2. counters[call[r].channel] \in ChannelStats /\ call[r].channel \in DOMAIN counters
    BY <1>0, <2>1 DEF TypeOK, IsStats
  <2>3. read[r] + 1 \in Nat
    BY <1>0 DEF TypeOK
  <2>4. PICK cs \in ChannelStats : counters' = [counters EXCEPT ![call[r].channel] = cs]
    BY <1>6, <2>2, <2>3 DEF WriteCount, ChannelStats
  <2>5. IsStats(counters') /\ DOMAIN counters' = DOMAIN counters
    BY <1>0, <2>2, <2>4, UpdateStats DEF TypeOK
  <2> QED
    BY <1>0, <1>6, <2>1, <2>5 DEF WriteCount, readerVars, TypeOK, States
<1>7. CASE AddLatency(r)
  <2>1. pc'[r] = "unlock" /\ (\A q \in Recorders \ {r} : pc'[q] = pc[q])
        /\ pc' \in [Recorders -> States] /\ pc[r] = "add"
    BY <1>0, <1>7, MoveFacts DEF AddLatency, States
  <2>2. counters[call[r].channel] \in ChannelStats /\ call[r].channel \in DOMAIN counters
    BY <1>0, <2>1 DEF TypeOK, IsStats
  <2> DEFINE cs == [counters[call[r].channel] EXCEPT !.totalMs = @ + call[r].ms]
  <2>3. cs \in ChannelStats /\ counters' = [counters EXCEPT ![call[r].channel] = cs]
    BY <1>1, <1>7, <2>1, <2>2 DEF AddLatency, ChannelStats
  <2> HIDE DEF cs
  <2>4. IsStats(counters') /\ DOMAIN counters' = DOMAIN counters
    BY <1>0, <2>2, <2>3, UpdateStats DEF TypeOK
  <2> QED
    BY <1>0, <1>7, <2>1, <2>4 DEF AddLatency, readerVars, TypeOK, States
<1>8. CASE Unlock(r)
  <2>1. pc'[r] = "idle" /\ (\A q \in Recorders \ {r} : pc'[q] = pc[q])
        /\ pc' \in [Recorders -> States] /\ pc[r] = "unlock"
    BY <1>0, <1>8, MoveFacts DEF Unlock, States
  <2>2. tally' = counters
    BY <1>0, <1>8, <2>1 DEF Unlock, Progress
  <2> QED
    BY <1>0, <1>8, <2>1, <2>2 DEF Unlock, TypeOK, States
<1> QED
  BY <1>2, <1>3, <1>4, <1>5, <1>6, <1>7, <1>8 DEF Records

LEMMA RecordExclusion == ASSUME StatsInv, NEW r \in Recorders, Records(r) PROVE Exclusion'
<1> USE AnalyticsAssumption DEF StatsInv, TypeOK, Exclusion, Inside, Moves
<1>1. CASE Lock(r)
  BY <1>1 DEF Lock, readerVars
<1>2. CASE Locked(r)
  BY <1>2 DEF Locked, readerVars
<1>3. CASE GetOrCreate(r)
  BY <1>3 DEF GetOrCreate, readerVars
<1>4. CASE ReadCount(r)
  BY <1>4 DEF ReadCount, readerVars
<1>5. CASE WriteCount(r)
  BY <1>5 DEF WriteCount, readerVars
<1>6. CASE AddLatency(r)
  BY <1>6 DEF AddLatency, readerVars
<1>7. CASE Unlock(r)
  BY <1>7 DEF Unlock
<1> QED
  BY <1>1, <1>2, <1>3, <1>4, <1>5, <1>6, <1>7 DEF Records

LEMMA ProgressKept ==
  ASSUME NEW r \in Recorders, Progress(r), UNCHANGED <<pc[r], call[r], read[r], counters, tally>>
  PROVE  Progress(r)'
<1>1. With(tally, call[r].channel)' = With(tally, call[r].channel)
  BY DEF With
<1>2. Counted(tally, call[r])' = Counted(tally, call[r])
  BY <1>1 DEF Counted, Added
<1> QED
  BY <1>1, <1>2 DEF Progress

\* Each access of the counters is the next part of the call.
LEMMA RecordProgress ==
  ASSUME StatsInv, NEW r \in Recorders, Records(r)
  PROVE  /\ Progress(r)' /\ writer' \in {r, Nobody}
         /\ writer' = Nobody => counters' = tally'
<1>0. TypeOK /\ Exclusion /\ Counts /\ Progress(r)
  BY DEF StatsInv, Counts
<1> DEFINE n == call[r].channel
           cs == With(tally, n)[n]
<1>1. pc[r] # "idle" => call[r] \in Calls /\ n \in Channels
                        /\ call[r].ok \in BOOLEAN /\ call[r].ms \in Nat
  BY <1>0, CallFacts
<1>2. pc[r] # "idle" => /\ n \in DOMAIN With(tally, n) /\ cs \in ChannelStats
                        /\ DOMAIN With(tally, n) = DOMAIN tally \cup {n}
  BY <1>0, <1>1, WithFacts DEF TypeOK
<1>3. pc[r] \in Inside \cup {"wait"} => writer = r
  BY <1>0 DEF Exclusion
<1>4. CASE Lock(r)
  <2>1. pc'[r] = "wait"
    BY <1>0, <1>4, MoveFacts DEF Lock, States
  <2>2. writer' = r /\ counters' = tally'
    BY <1>0, <1>4 DEF Lock, Counts
  <2> QED
    BY <2>1, <2>2, AnalyticsAssumption DEF Progress
<1>5. CASE Locked(r)
  <2>1. pc'[r] = "create" /\ pc[r] = "wait"
    BY <1>0, <1>5, MoveFacts DEF Locked, States
  <2>2. writer' = r /\ counters' = tally'
    BY <1>0, <1>3, <1>5, <2>1 DEF Locked, Progress
  <2> QED
    BY <2>1, <2>2, AnalyticsAssumption DEF Progress
<1>6. CASE GetOrCreate(r)
  <2>1. pc'[r] = "read" /\ pc[r] = "create"
    BY <1>0, <1>6, MoveFacts DEF GetOrCreate, States
  <2>2. writer' = r /\ call' = call /\ tally' = tally /\ counters' = With(tally, n)
    BY <1>0, <1>3, <1>6, <2>1 DEF GetOrCreate, Progress, Inside
  <2>3. Progress(r)'
    BY <2>1, <2>2 DEF Progress, With
  <2> QED
    BY <2>2, <2>3, AnalyticsAssumption
<1>7. CASE ReadCount(r)
  <2>1. pc'[r] = "write" /\ pc[r] = "read"
    BY <1>0, <1>7, MoveFacts DEF ReadCount, States
  <2>2. writer' = r /\ call' = call /\ tally' = tally /\ counters' = With(tally, n)
    BY <1>0, <1>3, <1>7, <2>1 DEF ReadCount, Progress, Inside
  <2>3. read'[r] = IF call[r].ok THEN cs.sent ELSE cs.failed
    BY <1>0, <1>7, <2>1 DEF ReadCount, Progress, TypeOK
  <2>4. Progress(r)'
    BY <2>1, <2>2, <2>3 DEF Progress, With
  <2> QED
    BY <2>2, <2>4, AnalyticsAssumption
<1>8. CASE WriteCount(r)
  <2>1. pc'[r] = (IF call[r].ok THEN "add" ELSE "unlock") /\ pc[r] = "write"
    BY <1>0, <1>8, MoveFacts DEF WriteCount, States
  <2>2. writer' = r /\ call' = call /\ tally' = tally
    BY <1>3, <1>8, <2>1 DEF WriteCount, Inside
  <2>3. /\ counters = With(tally, n)
        /\ read[r] = IF call[r].ok THEN cs.sent ELSE cs.failed
    BY <1>0, <2>1 DEF Progress
  <2>4. CASE call[r].ok
    <3>1. counters' = [With(tally, n) EXCEPT ![n] = [cs EXCEPT !.sent = @ + 1]]
      BY <1>1, <1>2, <1>8, <2>1, <2>3, <2>4 DEF WriteCount, ChannelStats
    <3> QED
      BY <2>1, <2>2, <2>4, <3>1, AnalyticsAssumption DEF Progress, With
  <2>5. CASE ~call[r].ok
    <3>1. counters' = Counted(tally, call[r])
      BY <1>1, <1>2, <1>8, <2>1, <2>3, <2>5 DEF WriteCount, ChannelStats, Counted, Added
    <3>2. Counted(tally, call[r])' = Counted(tally, call[r])
      BY <2>2 DEF Counted, Added, With
    <3> QED
      BY <2>1, <2>2, <2>5, <3>1, <3>2, AnalyticsAssumption DEF Progress
  <2> QED
    BY <2>4, <2>5
<1>9. CASE AddLatency(r)
  <2>1. pc'[r] = "unlock" /\ pc[r] = "add"
    BY <1>0, <1>9, MoveFacts DEF AddLatency, States
  <2>2. writer' = r /\ call' = call /\ tally' = tally
    BY <1>3, <1>9, <2>1 DEF AddLatency, Inside
  <2>3. /\ call[r].ok
        /\ counters = [With(tally, n) EXCEPT ![n] = [cs EXCEPT !.sent = @ + 1]]
    BY <1>0, <2>1 DEF Progress
  <2>4. counters' = Counted(tally, call[r])
    BY <1>1, <1>2, <1>9, <2>1, <2>3 DEF AddLatency, ChannelStats, Counted, Added
  <2>5. Counted(tally, call[r])' = Counted(tally, call[r])
    BY <2>2 DEF Counted, Added, With
  <2> QED
    BY <2>1, <2>2, <2>4, <2>5, AnalyticsAssumption DEF Progress
<1>10. CASE Unlock(r)
  <2>1. pc'[r] = "idle" /\ pc[r] = "unlock"
    BY <1>0, <1>10, MoveFacts DEF Unlock, States
  <2>2. counters' = tally' /\ writer' = Nobody
    BY <1>0, <1>10, <2>1 DEF Unlock, Progress
  <2> QED
    BY <2>1, <2>2 DEF Progress
<1> QED
  BY <1>4, <1>5, <1>6, <1>7, <1>8, <1>9, <1>10 DEF Records

LEMMA RecordCounts == ASSUME StatsInv, NEW r \in Recorders, Records(r) PROVE Counts'
<1>1. Exclusion' /\ TypeOK'
  BY RecordExclusion, RecordTypes
<1>2. /\ Progress(r)' /\ writer' \in {r, Nobody}
      /\ writer' = Nobody => counters' = tally'
  BY RecordProgress
<1>3. ASSUME NEW q \in Recorders \ {r} PROVE Progress(q)'
  <2>1. pc'[q] \notin Inside \cup {"wait"}
    BY <1>1, <1>2, AnalyticsAssumption DEF Exclusion
  <2> QED
    BY <2>1 DEF Progress, Inside
<1> QED
  BY <1>2, <1>3 DEF Counts

\* A recorder changes the counters only while nobody reads, and lets the readers
\* that wait start when counters and tally agree again.
LEMMA RecordCopies == ASSUME StatsInv, NEW r \in Recorders, Records(r) PROVE Copies'
<1>0. TypeOK /\ Exclusion /\ Counts /\ Progress(r) /\ Copies
  BY DEF StatsInv, Counts
<1>1. CASE Unlock(r)
  <2>1. pc[r] = "unlock" /\ reading = {}
    BY <1>0, <1>1 DEF Unlock, Moves, Exclusion, Inside
  <2>2. counters' = tally'
    BY <1>0, <1>1, <2>1 DEF Unlock, Progress
  <2>3. /\ snapshot' = snapshot /\ reading' = blocked /\ blocked' = {}
        /\ asOf' = [d \in Readers |-> IF d \in blocked THEN tally' ELSE asOf[d]]
    BY <1>1 DEF Unlock
  <2>4. /\ snapshot' = [d \in Readers |-> snapshot'[d]]
        /\ asOf' = [d \in Readers |-> asOf'[d]]
    BY <1>0, <2>3 DEF Copies
  <2>5. ASSUME NEW d \in blocked
        PROVE  /\ asOf'[d] = tally'
               /\ DOMAIN snapshot'[d] \subseteq DOMAIN counters'
               /\ snapshot'[d] = ReportOf(counters', DOMAIN snapshot'[d])
    BY <1>0, <2>3, <2>5 DEF Copies, TypeOK, EmptyMap, ReportOf
  <2>6. ASSUME NEW d \in Readers \ (reading' \cup blocked')
        PROVE  snapshot'[d] = ReportOf(asOf'[d], DOMAIN asOf'[d])
    BY <1>0, <2>1, <2>3 DEF Copies
  <2> QED
    BY <2>3, <2>4, <2>5, <2>6 DEF Copies
<1>2. CASE UNCHANGED readerVars /\ (reading = {} \/ UNCHANGED <<counters, tally>>)
  BY <1>0, <1>2 DEF Copies, readerVars
<1>3. CASE Lock(r) \/ Locked(r)
  BY <1>2, <1>3 DEF Lock, Locked
<1>4. CASE GetOrCreate(r) \/ ReadCount(r) \/ WriteCount(r) \/ AddLatency(r)
  <2>1. pc[r] \in Inside
    BY <1>4 DEF GetOrCreate, ReadCount, WriteCount, AddLatency, Moves, Inside
  <2>2. reading = {}
    BY <1>0, <2>1 DEF Exclusion
  <2> QED
    BY <1>2, <1>4, <2>2 DEF GetOrCreate, ReadCount, WriteCount, AddLatency
<1> QED
  BY <1>1, <1>3, <1>4 DEF Records

LEMMA BeginInv == ASSUME StatsInv, NEW r \in Recorders, NEW c \in Calls, Begin(r, c) PROVE StatsInv'
<1>0. TypeOK /\ Exclusion /\ Counts /\ Copies /\ c \in Calls /\ pc[r] = "idle"
  BY DEF StatsInv, Begin, Moves
<1>1. pc'[r] = "lock" /\ (\A q \in Recorders \ {r} : pc'[q] = pc[q])
      /\ pc' \in [Recorders -> States]
  BY <1>0, MoveFacts DEF Begin, States
<1>2. /\ call' \in [Recorders -> Calls \cup {Nobody}] /\ call'[r] = c
      /\ \A q \in Recorders \ {r} : call'[q] = call[q]
      /\ UNCHANGED <<read, writer, counters, tally, reading, blocked, snapshot, asOf>>
      /\ todo' \subseteq Calls
  BY <1>0 DEF Begin, TypeOK, readerVars
<1>3. TypeOK'
  BY <1>0, <1>1, <1>2 DEF TypeOK, States
<1>4. Exclusion'
  BY <1>0, <1>1, <1>2 DEF Exclusion, Inside
<1>5. ASSUME NEW q \in Recorders PROVE Progress(q)'
  <2>1. CASE q = r
    BY <1>1, <2>1 DEF Progress
  <2>2. CASE q # r
    BY <1>0, <1>1, <1>2, <2>2, ProgressKept DEF Counts
  <2> QED
    BY <2>1, <2>2
<1>6. Counts'
  BY <1>0, <1>2, <1>5 DEF Counts
<1>7. Copies'
  BY <1>0, <1>2 DEF Copies
<1> QED
  BY <1>3, <1>4, <1>6, <1>7 DEF StatsInv

(***************************************************************************)
(* The steps of a reader.                                                  *)
(***************************************************************************)
\* A reader leaves the recorders alone.
LEMMA RecordersUndisturbed ==
  ASSUME StatsInv, UNCHANGED <<pc, call, read, writer, counters, tally>>
  PROVE  Counts'
BY ProgressKept DEF StatsInv, Counts

LEMMA RLockInv == ASSUME StatsInv, NEW d \in Readers, RLock(d) PROVE StatsInv'
<1>0. TypeOK /\ Exclusion /\ Counts /\ Copies
  BY DEF StatsInv
<1>1. /\ UNCHANGED <<todo, pc, call, read, writer, counters, tally>>
      /\ d \notin reading \cup blocked
      /\ snapshot' = [snapshot EXCEPT ![d] = EmptyMap]
      /\ asOf' = [asOf EXCEPT ![d] = tally]
      /\ reading' \subseteq reading \cup {d} /\ blocked' \subseteq blocked \cup {d}
      /\ reading \subseteq reading' /\ blocked \subseteq blocked'
      /\ d \in reading' \cup blocked' /\ reading' \cap blocked' \subseteq reading \cap blocked
      /\ d \in reading' => writer = Nobody /\ blocked' = blocked
      /\ d \in blocked' => writer # Nobody /\ reading' = reading
  BY DEF RLock
<1>2. TypeOK'
  BY <1>0, <1>1 DEF TypeOK, IsStats
<1>3. Exclusion'
  BY <1>0, <1>1, AnalyticsAssumption DEF Exclusion, Inside
<1>4. Counts'
  BY <1>1, RecordersUndisturbed
<1>5. Copies'
  <2>1. /\ snapshot' = [e \in Readers |-> snapshot'[e]] /\ asOf' = [e \in Readers |-> asOf'[e]]
        /\ snapshot'[d] = EmptyMap /\ asOf'[d] = tally
        /\ \A e \in Readers \ {d} : snapshot'[e] = snapshot[e] /\ asOf'[e] = asOf[e]
    BY <1>0, <1>1 DEF Copies
  <2>2. d \in reading' => counters = tally
    BY <1>0, <1>1 DEF Counts
  <2>3. ASSUME NEW e \in reading'
        PROVE  /\ asOf'[e] = tally'
               /\ DOMAIN snapshot'[e] \subseteq DOMAIN counters'
               /\ snapshot'[e] = ReportOf(counters', DOMAIN snapshot'[e])
    <3>1. CASE e = d
      BY <1>1, <2>1, <2>2, <3>1 DEF EmptyMap, ReportOf
    <3>2. CASE e # d
      BY <1>0, <1>1, <2>1, <3>2 DEF Copies, TypeOK
    <3> QED
      BY <3>1, <3>2
  <2>4. \A e \in blocked' : snapshot'[e] = EmptyMap
    BY <1>0, <1>1, <2>1 DEF Copies, TypeOK
  <2>5. \A e \in Readers \ (reading' \cup blocked') : snapshot'[e] = ReportOf(asOf'[e], DOMAIN asOf'[e])
    BY <1>0, <1>1, <2>1 DEF Copies
  <2> QED
    BY <2>1, <2>3, <2>4, <2>5 DEF Copies
<1> QED
  BY <1>2, <1>3, <1>4, <1>5 DEF StatsInv

LEMMA CopyInv == ASSUME StatsInv, NEW d \in Readers, Copy(d) PROVE StatsInv'
<1>0. TypeOK /\ Exclusion /\ Counts /\ Copies
  BY DEF StatsInv
<1>1. /\ UNCHANGED <<todo, pc, call, read, writer, reading, blocked, counters, tally, asOf>>
      /\ d \in reading
  BY DEF Copy
<1>2. PICK n \in DOMAIN counters :
        snapshot' = [snapshot EXCEPT ![d] =
          [k \in DOMAIN @ \cup {n} |-> IF k = n THEN Report(counters[n]) ELSE @[k]]]
  BY DEF Copy
<1>3. TypeOK' /\ Exclusion' /\ Counts'
  BY <1>0, <1>1, RecordersUndisturbed DEF TypeOK, IsStats, Exclusion
<1>4. Copies'
  <2> DEFINE more == [k \in DOMAIN snapshot[d] \cup {n} |->
                        IF k = n THEN Report(counters[n]) ELSE snapshot[d][k]]
  <2>1. /\ snapshot' = [e \in Readers |-> snapshot'[e]] /\ snapshot'[d] = more
        /\ \A e \in Readers \ {d} : snapshot'[e] = snapshot[e]
    BY <1>0, <1>2 DEF Copies
  <2>2. /\ DOMAIN more \subseteq DOMAIN counters
        /\ more = ReportOf(counters, DOMAIN more)
    <3>1. /\ DOMAIN snapshot[d] \subseteq DOMAIN counters
          /\ \A k \in DOMAIN snapshot[d] : snapshot[d][k] = Report(counters[k])
      BY <1>0, <1>1 DEF Copies, ReportOf
    <3> QED
      BY <3>1 DEF ReportOf
  <2>3. ASSUME NEW e \in reading
        PROVE  /\ asOf[e] = tally
               /\ DOMAIN snapshot'[e] \subseteq DOMAIN counters
               /\ snapshot'[e] = ReportOf(counters, DOMAIN snapshot'[e])
    <3>1. CASE e = d
      <4> HIDE DEF more
      <4> QED
        BY <1>0, <1>1, <2>1, <2>2, <3>1 DEF Copies
    <3>2. CASE e # d
      BY <1>0, <2>1, <3>2 DEF Copies, TypeOK
    <3> QED
      BY <3>1, <3>2
  <2>4. \A e \in blocked \cup (Readers \ (reading \cup blocked)) : snapshot'[e] = snapshot[e]
    BY <1>0, <1>1, <2>1 DEF Exclusion, TypeOK
  <2> QED
    BY <1>0, <1>1, <2>1, <2>3, <2>4 DEF Copies
<1> QED
  BY <1>3, <1>4 DEF StatsInv

LEMMA RUnlockInv == ASSUME StatsInv, NEW d \in Readers, RUnlock(d) PROVE StatsInv'
<1>0. TypeOK /\ Exclusion /\ Counts /\ Copies
  BY DEF StatsInv
<1>1. /\ UNCHANGED <<todo, pc, call, read, writer, blocked, counters, snapshot, tally, asOf>>
      /\ d \in reading /\ reading' = reading \ {d}
      /\ DOMAIN counters \subseteq DOMAIN snapshot[d]
  BY DEF RUnlock
<1>2. TypeOK' /\ Exclusion' /\ Counts'
  BY <1>0, <1>1, RecordersUndisturbed DEF TypeOK, IsStats, Exclusion
<1>3. snapshot[d] = ReportOf(asOf[d], DOMAIN asOf[d])
  <2>1. counters = tally
    <3>1. \A r \in Recorders : pc[r] \notin Inside
      BY <1>0, <1>1 DEF Exclusion
    <3>2. CASE writer = Nobody
      BY <1>0, <3>2 DEF Counts
    <3>3. CASE writer # Nobody
      <4>1. PICK r \in Recorders : writer = r
        BY <1>0, <3>3 DEF TypeOK
      <4>2. pc[r] = "wait"
        BY <1>0, <3>1, <4>1 DEF Exclusion
      <4> QED
        BY <1>0, <4>2 DEF Counts, Progress
    <3> QED
      BY <3>2, <3>3
  <2>2. /\ asOf[d] = tally /\ DOMAIN snapshot[d] = DOMAIN counters
        /\ snapshot[d] = ReportOf(counters, DOMAIN snapshot[d])
    BY <1>0, <1>1 DEF Copies
  <2> QED
    BY <2>1, <2>2
<1>4. Copies'
  BY <1>0, <1>1, <1>3 DEF Copies
<1> QED
  BY <1>2, <1>4 DEF StatsInv

LEMMA NextStatsInv == StatsInv /\ [Next]_vars => StatsInv'
<1> SUFFICES ASSUME StatsInv, [Next]_vars PROVE StatsInv'
  OBVIOUS
<1>1. CASE UNCHANGED vars
  <2>1. TypeOK' /\ Exclusion' /\ Copies'
    BY <1>1 DEF StatsInv, vars, TypeOK, IsStats, Exclusion, Copies
  <2>2. Counts'
    BY <1>1, RecordersUndisturbed DEF vars
  <2> QED
    BY <2>1, <2>2 DEF StatsInv
<1>2. ASSUME NEW r \in Recorders, Records(r) PROVE StatsInv'
  BY <1>2, RecordTypes, RecordExclusion, RecordCounts, RecordCopies DEF StatsInv
<1>3. ASSUME NEW r \in Recorders, NEW c \in Calls, Begin(r, c) PROVE StatsInv'
  BY <1>3, BeginInv
<1>4. ASSUME NEW d \in Readers, Reads(d) \/ RLock(d) PROVE StatsInv'
  BY <1>4, RLockInv, CopyInv, RUnlockInv DEF Reads
<1> QED
  BY <1>1, <1>2, <1>3, <1>4 DEF Next

\* The counters and their history are maps of channels to counters, and only a
\* recorder with a call in hand touches them.
THEOREM StatsTypeOK == Spec => []TypeOK
<1>1. StatsInv => TypeOK
  BY DEF StatsInv
<1> QED
  BY <1>1, InitStatsInv, NextStatsInv, PTL DEF Spec

\* Snapshot gives the reports of one moment between its call and its return,
\* whatever RecordSuccess and RecordFailure do meanwhile.
THEOREM SnapshotIsOfOneMoment == Spec => []SnapshotIsPointInTime
<1>1. StatsInv => SnapshotIsPointInTime
  BY DEF StatsInv, Copies, SnapshotIsPointInTime, ReportOf
<1> QED
  BY <1>1, InitStatsInv, NextStatsInv, PTL DEF Spec
-----------------------------------------------------------------------------
(***************************************************************************)
(* The increments.  Nothing is lost, and nothing that was counted once is  *)
(* taken back, in the counters or from one snapshot to the next.           *)
(***************************************************************************)
LEMMA StatsInvariant == Spec => []StatsInv
BY InitStatsInv, NextStatsInv, PTL DEF Spec

\* Sent++ is a read and a write, and recorders run side by side: still, whenever no
\* recorder is inside the lock the counters are what the calls that have returned
\* should have left.
NoIncrementIsLost == (\A r \in Recorders : pc[r] \notin Inside) => counters = tally

LEMMA QuietCounters == ASSUME StatsInv PROVE NoIncrementIsLost
<1> SUFFICES ASSUME \A r \in Recorders : pc[r] \notin Inside PROVE counters = tally
  BY DEF NoIncrementIsLost
<1>1. CASE writer = Nobody
  BY <1>1 DEF StatsInv, Counts
<1>2. CASE writer # Nobody
  <2>1. PICK r \in Recorders : writer = r
    BY <1>2 DEF StatsInv, TypeOK
  <2>2. pc[r] = "wait"
    BY <2>1 DEF StatsInv, Exclusion
  <2> QED
    BY <2>2 DEF StatsInv, Counts, Progress
<1> QED
  BY <1>1, <1>2

\* Increments of any number of recorders, none of them lost.
THEOREM IncrementsAreKept == Spec => []NoIncrementIsLost
BY StatsInvariant, QuietCounters, PTL

\* b has all that a has, and counts no less of it.
Grew(a, b) == \A n \in DOMAIN a : /\ n \in DOMAIN b
                                   /\ a[n].sent <= b[n].sent
                                   /\ a[n].failed <= b[n].failed
                                   /\ a[n].totalMs <= b[n].totalMs

LEMMA GrewReflexive == ASSUME NEW a, IsStats(a) PROVE Grew(a, a)
BY DEF Grew, IsStats, ChannelStats

LEMMA GrewTransitive ==
  ASSUME NEW a, IsStats(a), NEW b, IsStats(b), NEW c, IsStats(c), Grew(a, b), Grew(b, c)
  PROVE  Grew(a, c)
<1> SUFFICES ASSUME NEW n \in DOMAIN a
             PROVE  /\ n \in DOMAIN c /\ a[n].sent <= c[n].sent
                    /\ a[n].failed <= c[n].failed /\ a[n].totalMs <= c[n].totalMs
  BY DEF Grew
<1>1. n \in DOMAIN b /\ n \in DOMAIN c
  BY DEF Grew
<1>2. a[n] \in ChannelStats /\ b[n] \in ChannelStats /\ c[n] \in ChannelStats
  BY <1>1 DEF IsStats
<1>3. /\ a[n].sent <= b[n].sent /\ b[n].sent <= c[n].sent
      /\ a[n].failed <= b[n].failed /\ b[n].failed <= c[n].failed
      /\ a[n].totalMs <= b[n].totalMs /\ b[n].totalMs <= c[n].totalMs
  BY <1>1 DEF Grew
<1> QED
  BY <1>1, <1>2, <1>3 DEF ChannelStats

\* A new channel starts at zero and leaves the others alone.
LEMMA WithGrows ==
  ASSUME NEW map, IsStats(map), NEW n \in Channels PROVE Grew(map, With(map, n))
BY DEF Grew, With, IsStats, ChannelStats

LEMMA UpdateGrows ==
  ASSUME NEW map, IsStats(map), NEW n \in DOMAIN map, NEW cs \in ChannelStats,
         map[n].sent <= cs.sent, map[n].failed <= cs.failed, map[n].totalMs <= cs.totalMs
  PROVE  Grew(map, [map EXCEPT ![n] = cs])
BY DEF Grew, IsStats, ChannelStats

LEMMA AddedFacts ==
  ASSUME NEW cs \in ChannelStats, NEW c \in Calls
  PROVE  /\ Added(cs, c) \in ChannelStats
         /\ cs.sent <= Added(cs, c).sent /\ cs.failed <= Added(cs, c).failed
         /\ cs.totalMs <= Added(cs, c).totalMs
<1>1. /\ c.ok \in BOOLEAN /\ c.ms \in Nat
      /\ cs.sent \in Nat /\ cs.failed \in Nat /\ cs.totalMs \in Nat
  BY AnalyticsAssumption DEF ChannelStats
<1>2. cs = [sent |-> cs.sent, failed |-> cs.failed, totalMs |-> cs.totalMs]
  BY DEF ChannelStats
<1>3. CASE c.ok
  <2>1. Added(cs, c) = [sent |-> cs.sent + 1, failed |-> cs.failed, totalMs |-> cs.totalMs + c.ms]
    BY <1>2, <1>3 DEF Added
  <2> QED
    BY <1>1, <2>1 DEF ChannelStats
<1>4. CASE ~ c.ok
  <2>1. Added(cs, c) = [sent |-> cs.sent, failed |-> cs.failed + 1, totalMs |-> cs.totalMs]
    BY <1>2, <1>4 DEF Added
  <2> QED
    BY <1>1, <2>1 DEF ChannelStats
<1> QED
  BY <1>3, <1>4

LEMMA CountedGrows ==
  ASSUME NEW map, IsStats(map), NEW c \in Calls
  PROVE  Grew(map, Counted(map, c)) /\ IsStats(Counted(map, c))
<1> DEFINE n == c.channel
           with == With(map, n)
           cs == Added(with[n], c)
<1>1. n \in Channels
  BY DEF Channels
<1>2. IsStats(with) /\ n \in DOMAIN with /\ with[n] \in ChannelStats /\ Grew(map, with)
  BY <1>1, WithFacts, WithGrows
<1>3. /\ cs \in ChannelStats /\ with[n].sent <= cs.sent
      /\ with[n].failed <= cs.failed /\ with[n].totalMs <= cs.totalMs
  BY <1>2, AddedFacts
<1>4. Counted(map, c) = [with EXCEPT ![n] = cs]
  BY DEF Counted
<1> HIDE DEF n, with, cs
<1>5. IsStats([with EXCEPT ![n] = cs]) /\ Grew(with, [with EXCEPT ![n] = cs])
  BY <1>2, <1>3, UpdateStats, UpdateGrows
<1> QED
  BY <1>2, <1>4, <1>5, GrewTransitive

\* What a recorder writes is never below what was there: the value it has read is
\* still the one it overwrites.
LEMMA RecordGrows == ASSUME StatsInv, NEW r \in Recorders, Records(r) PROVE Grew(counters, counters')
<1> DEFINE n == call[r].channel
<1>0. TypeOK /\ Progress(r) /\ IsStats(counters)
  BY DEF StatsInv, Counts, TypeOK
<1>1. pc[r] # "idle" => call[r] \in Calls /\ n \in Channels
                        /\ call[r].ok \in BOOLEAN /\ call[r].ms \in Nat
  BY <1>0, CallFacts
<1>2. CASE UNCHANGED counters
  BY <1>0, <1>2, GrewReflexive
<1>3. CASE GetOrCreate(r)
  BY <1>0, <1>1, <1>3, WithGrows DEF GetOrCreate, Moves
<1>4. CASE WriteCount(r)
  <2>1. /\ pc[r] = "write" /\ n \in DOMAIN counters /\ counters[n] \in ChannelStats
        /\ read[r] = IF call[r].ok THEN counters[n].sent ELSE counters[n].failed
    BY <1>0, <1>4 DEF WriteCount, Moves, TypeOK, IsStats, Progress
  <2> DEFINE cs == IF call[r].ok THEN [counters[n] EXCEPT !.sent = read[r] + 1]
                                 ELSE [counters[n] EXCEPT !.failed = read[r] + 1]
  <2>2. counters' = [counters EXCEPT ![n] = cs]
    BY <1>1, <1>4, <2>1 DEF WriteCount
  <2>3. /\ cs \in ChannelStats /\ counters[n].sent <= cs.sent
        /\ counters[n].failed <= cs.failed /\ counters[n].totalMs <= cs.totalMs
    BY <1>1, <2>1 DEF ChannelStats
  <2> HIDE DEF cs, n
  <2> QED
    BY <1>0, <2>1, <2>2, <2>3, UpdateGrows
<1>5. CASE AddLatency(r)
  <2>1. pc[r] = "add" /\ n \in DOMAIN counters /\ counters[n] \in ChannelStats
    BY <1>0, <1>5 DEF AddLatency, Moves, TypeOK, IsStats
  <2> DEFINE cs == [counters[n] EXCEPT !.totalMs = counters[n].totalMs + call[r].ms]
  <2>2. counters' = [counters EXCEPT ![n] = cs]
    BY <1>5 DEF AddLatency
  <2>3. /\ cs \in ChannelStats /\ counters[n].sent <= cs.sent
        /\ counters[n].failed <= cs.failed /\ counters[n].totalMs <= cs.totalMs
    BY <1>1, <2>1 DEF ChannelStats
  <2> HIDE DEF cs, n
  <2> QED
    BY <1>0, <2>1, <2>2, <2>3, UpdateGrows
<1> QED
  BY <1>2, <1>3, <1>4, <1>5 DEF Records, Lock, Locked, ReadCount, Unlock

\* What a reader reported is part of what should be counted by now.
PastInv == \A d \in Readers : IsStats(asOf[d]) /\ Grew(asOf[d], tally)

\* Counters only grow, and a reader's next snapshot is of a moment that is not
\* before the one of its last: no dashboard sees a counter go back.
CountsGrow == Grew(counters, counters') /\ \A d \in Readers : Grew(asOf[d], asOf'[d])

\* A step adds to the counters and to the moments of the snapshots.
LEMMA StepGrows == ASSUME StatsInv, PastInv, [Next]_vars PROVE CountsGrow /\ PastInv'
<1>0. IsStats(counters) /\ IsStats(tally) /\ asOf = [d \in Readers |-> asOf[d]]
  BY DEF StatsInv, TypeOK, Copies
<1>1. \A d \in Readers : IsStats(asOf[d]) /\ Grew(asOf[d], tally)
  BY DEF PastInv
<1>2. /\ Grew(counters, counters) /\ Grew(tally, tally)
      /\ \A d \in Readers : Grew(asOf[d], asOf[d])
  BY <1>0, <1>1, GrewReflexive
<1>3. ASSUME UNCHANGED <<tally, asOf>>, Grew(counters, counters') PROVE CountsGrow /\ PastInv'
  BY <1>1, <1>2, <1>3 DEF CountsGrow, PastInv, IsStats, Channels
<1>4. ASSUME NEW d \in Readers, RLock(d) PROVE CountsGrow /\ PastInv'
  <2>1. /\ UNCHANGED <<tally, counters>> /\ asOf'[d] = tally
        /\ \A e \in Readers \ {d} : asOf'[e] = asOf[e]
    BY <1>0, <1>4 DEF RLock
  <2>2. ASSUME NEW e \in Readers PROVE Grew(asOf[e], asOf'[e]) /\ Grew(asOf'[e], tally) /\ IsStats(asOf'[e])
    BY <1>0, <1>1, <1>2, <2>1
  <2> QED
    BY <1>2, <2>1, <2>2 DEF CountsGrow, PastInv, IsStats, Channels
<1>5. ASSUME NEW r \in Recorders, Unlock(r) PROVE CountsGrow /\ PastInv'
  <2>1. call[r] \in Calls
    BY <1>5, CallFacts DEF Unlock, Moves, StatsInv
  <2>2. tally' = Counted(tally, call[r]) /\ counters' = counters
    BY <1>5 DEF Unlock
  <2>3. Grew(tally, tally') /\ IsStats(tally') /\ Grew(tally', tally')
    BY <1>0, <2>1, <2>2, CountedGrows, GrewReflexive
  <2>4. \A d \in Readers : asOf'[d] \in {tally', asOf[d]}
    BY <1>5 DEF Unlock
  <2>5. \A d \in Readers : Grew(asOf[d], tally')
    BY <1>0, <1>1, <2>3, GrewTransitive
  <2>6. \A d \in Readers : Grew(asOf[d], asOf'[d]) /\ Grew(asOf'[d], tally') /\ IsStats(asOf'[d])
    BY <1>1, <1>2, <2>3, <2>4, <2>5
  <2> QED
    BY <1>2, <2>2, <2>6 DEF CountsGrow, PastInv, IsStats, Channels
<1>6. ASSUME NEW r \in Recorders, Records(r), ~ Unlock(r) PROVE CountsGrow /\ PastInv'
  <2>1. UNCHANGED <<tally, asOf>>
    BY <1>6 DEF Records, Lock, Locked, GetOrCreate, ReadCount, WriteCount, AddLatency, readerVars
  <2> QED
    BY <1>3, <1>6, <2>1, RecordGrows
<1> QED
  BY <1>2, <1>3, <1>4, <1>5, <1>6 DEF Next, Begin, Reads, Copy, RUnlock, readerVars, vars

\* No counter and no reader's view of it ever goes back.
THEOREM CountsAlwaysGrow == Spec => [][CountsGrow]_vars
<1>1. Init => PastInv
  BY DEF Init, PastInv, Grew, IsStats, EmptyMap
<1>2. StatsInv /\ PastInv /\ [Next]_vars => PastInv' /\ CountsGrow
  BY StepGrows
<1> QED
  BY <1>1, <1>2, StatsInvariant, PTL DEF Spec
=============================================================================
