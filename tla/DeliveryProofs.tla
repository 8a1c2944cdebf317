--------------------------- MODULE DeliveryProofs ---------------------------
(***************************************************************************)
(* The workers' part of at-least-once delivery, for any number of workers, *)
(* messages, channels, attempts and faults: a notification is acked only   *)
(* after every channel has got it or has dead-lettered it, the whole       *)
(* implements AtLeastOnce, and duplicates need failures or faults.         *)
(***************************************************************************)
EXTENDS Delivery, FiniteSetTheorems, TLAPS

IInv == TypeOK /\ ProgressIsSettled /\ AckedIsSettled

ChannelCount == Len(Channels) \in Nat \ {0} /\ ChannelIndexes = 1 .. Len(Channels)

\* run registers the log whatever the configuration is.
LEMMA ChannelCountHolds == ChannelCount
<1> DEFINE S == Seq(Names)
<1>1. <<"log">> \in S
  BY DEF Names
<1>2. \A enabled \in BOOLEAN, name \in Names : Optional(enabled, name) \in S
  BY DEF Optional
<1>3. /\ Optional(Config.webhook_url, "webhook") \in S
      /\ Optional(Config.telegram_token, "telegram") \in S
      /\ Optional(Config.slack_webhook, "slack") \in S
  BY <1>2, ChannelsAssumption DEF Configs, Names
<1>4. \A s, t \in S : s \o t \in S /\ Len(s \o t) = Len(s) + Len(t) /\ Len(s) \in Nat
  OBVIOUS
<1>5. Len(<<"log">>) = 1
  OBVIOUS
<1> HIDE DEF S
<1>6. Len(Channels) \in Nat \ {0}
  BY <1>1, <1>3, <1>4, <1>5 DEF Channels
<1> QED
  BY <1>6 DEF ChannelCount, ChannelIndexes

\* A Send that returns nil has reached its receiver, unless there is none.
LEMMA SuccessIsReached ==
  ASSUME NEW name, NEW done, NEW o \in Outcomes(name, done), o.ok, ~ Skips(name)
  PROVE  o.reached
<1>1. ASSUME NEW a \in Answers, Accepts(name, a.status) PROVE a.reached
  <2>1. a.status \in Statuses \cup {NoAnswer} /\ (a.status \in 200 .. 299 => a.reached)
    BY DEF Answers
  <2>2. a.status \in 200 .. 599 \/ a.status = 0
    BY <2>1, ChannelsAssumption DEF NoAnswer
  <2>3. a.status \in 200 .. 299
    BY <1>1, <2>2
       DEF Accepts, WebhookAccepts, TelegramAccepts, SlackAccepts, NoAnswer
  <2> QED
    BY <2>1, <2>3
<1>2. CASE name = "log"
  BY <1>2 DEF Outcomes
<1>3. CASE name # "log" /\ done
  BY <1>3 DEF Outcomes
<1>4. CASE name # "log" /\ ~ done
  <2>1. PICK a \in Answers : o = [ok |-> Accepts(name, a.status), reached |-> a.reached]
    BY <1>4 DEF Outcomes
  <2>2. Accepts(name, a.status) /\ o.reached = a.reached
    BY <2>1
  <2> QED
    BY <1>1, <2>2
<1> QED
  BY <1>2, <1>3, <1>4

\* A Send changes what was received at the worker's place, or nothing.
LEMMA SendsFacts ==
  ASSUME NEW w \in Workers, NEW ok, Sends(w, ok)
  PROVE  /\ worker[w] = "send"
         /\ Receives(w) \/ UNCHANGED received
         /\ ok /\ ~ Skips(Channels[ch[w]]) => Receives(w)
BY SuccessIsReached DEF Sends

\* Initially nothing is stored and no worker runs.
LEMMA InitIInv == Init => IInv
<1> SUFFICES ASSUME Init PROVE IInv
  OBVIOUS
<1>1. TypeOK
  BY ChannelCountHolds, DeliveryAssumption
     DEF Init, TypeOK, InPlace, ChannelCount, StatusValues, WorkerStates
<1> QED
  BY <1>1 DEF Init, IInv, ProgressIsSettled, AckedIsSettled

\* What a channel gets stays counted, whoever does the next step.
LEMMA ReceivesFacts ==
  ASSUME TypeOK, NEW w \in Workers, msg[w] \in Messages, ch[w] \in ChannelIndexes,
         Receives(w)
  PROVE  /\ received' \in [Messages -> [ChannelIndexes -> Nat]]
         /\ received'[msg[w]][ch[w]] > 0
         /\ \A m \in Messages, k \in ChannelIndexes :
              received[m][k] > 0 => received'[m][k] > 0
<1>1. received \in [Messages -> [ChannelIndexes -> Nat]]
  BY DEF TypeOK
<1>2. received' = [received EXCEPT ![msg[w]] =
                     [received[msg[w]] EXCEPT ![ch[w]] = received[msg[w]][ch[w]] + 1]]
  BY DEF Receives
<1>3. received' \in [Messages -> [ChannelIndexes -> Nat]]
  BY <1>1, <1>2
<1>4. received'[msg[w]] = [received[msg[w]] EXCEPT ![ch[w]] = received[msg[w]][ch[w]] + 1]
  BY <1>1, <1>2
<1>5. \A m \in Messages : m # msg[w] => received'[m] = received[m]
  BY <1>1, <1>2
<1>6. received'[msg[w]][ch[w]] > 0
  BY <1>1, <1>4
<1>7. \A k \in ChannelIndexes : k # ch[w] => received'[msg[w]][k] = received[msg[w]][k]
  BY <1>1, <1>4
<1> QED
  BY <1>3, <1>5, <1>6, <1>7

\* The dead letter queue never exceeds its capacity.
LEMMA PushFacts ==
  ASSUME NEW q \in Seq(Entries), Len(q) <= Capacity, NEW e \in Entries
  PROVE  Push(q, e) \in Seq(Entries) /\ Len(Push(q, e)) <= Capacity
<1>1. CASE Len(q) >= Capacity
  BY <1>1, DeliveryAssumption DEF Push
<1>2. CASE ~ (Len(q) >= Capacity)
  BY <1>2, DeliveryAssumption DEF Push
<1> QED
  BY <1>1, <1>2

\* Moving on puts the worker at the next channel, or past the last one to the ack.
LEMMA NextChannelFacts ==
  ASSUME TypeOK, NEW w \in Workers, ch[w] \in ChannelIndexes, NextChannel(w)
  PROVE  /\ ch' \in [Workers -> 1 .. Len(Channels) + 1]
         /\ attempt' \in [Workers -> 1 .. MaxAttempts]
         /\ worker' \in [Workers -> WorkerStates]
         /\ ch'[w] = ch[w] + 1
         /\ \/ worker'[w] = "send" /\ ch'[w] \in ChannelIndexes
            \/ worker'[w] = "ack" /\ ch'[w] = Len(Channels) + 1
         /\ \A v \in Workers \ {w} : worker'[v] = worker[v] /\ ch'[v] = ch[v]
BY ChannelCountHolds, DeliveryAssumption
   DEF TypeOK, ChannelCount, NextChannel, WorkerStates

\* A dead letter keeps the queues in their type and bounds.
LEMMA DeadLetterFacts ==
  ASSUME TypeOK, NEW w \in Workers, msg[w] \in Messages, ch[w] \in ChannelIndexes,
         DeadLetter(w)
  PROVE  /\ dead' = dead \cup {<<msg[w], ch[w]>>}
         /\ dlq' \in [Workers -> Seq(Entries)]
         /\ \A v \in Workers : Len(dlq'[v]) <= Capacity
         /\ NextChannel(w)
<1> DEFINE entry == [msg |-> msg[w], channel |-> ch[w]]
<1>1. entry \in Entries
  BY DEF Entries
<1>2. dlq \in [Workers -> Seq(Entries)] /\ \A v \in Workers : Len(dlq[v]) <= Capacity
  BY DEF TypeOK, InPlace
<1>3. Push(dlq[w], entry) \in Seq(Entries) /\ Len(Push(dlq[w], entry)) <= Capacity
  BY <1>1, <1>2, PushFacts
<1>4. dlq' = [dlq EXCEPT ![w] = Push(dlq[w], entry)]
  BY DEF DeadLetter
<1> HIDE DEF entry
<1>5. dlq' \in [Workers -> Seq(Entries)] /\ \A v \in Workers : Len(dlq'[v]) <= Capacity
  BY <1>2, <1>3, <1>4
<1> QED
  BY <1>5 DEF DeadLetter
-----------------------------------------------------------------------------
\* Where a worker is in handleMessage it has a message and a channel.
LEMMA AtSend ==
  ASSUME TypeOK, NEW w \in Workers, worker[w] \in {"send", "backoff"}
  PROVE  msg[w] \in Messages /\ ch[w] \in ChannelIndexes /\ attempt[w] \in 1 .. MaxAttempts
BY DEF TypeOK, InPlace

\* The end of a process keeps the types.
LEMMA TerminateFacts ==
  ASSUME TypeOK, NEW w \in Workers, Terminate(w), faults' \in 0 .. MaxFaults,
         status' \in [Messages -> StatusValues]
  PROVE  TypeOK'
<1>1. \A v \in Workers : InPlace(v)'
  BY DeliveryAssumption DEF Terminate, TypeOK, InPlace
<1>2. dlq' \in [Workers -> Seq(Entries)]
  BY DEF Terminate, TypeOK
<1> QED
  BY <1>1, <1>2 DEF Terminate, TypeOK, historyVars, WorkerStates

\* A step that moves a worker on to the next channel keeps the types.
LEMMA MoveFacts ==
  ASSUME TypeOK, NEW w \in Workers, worker[w] \in {"send", "backoff"}, NextChannel(w),
         UNCHANGED <<status, cancelled, msg, faults>>,
         received' \in [Messages -> [ChannelIndexes -> Nat]],
         dead' \subseteq Messages \X ChannelIndexes,
         refused' \subseteq Messages \X ChannelIndexes,
         tried' \in [Workers -> Nat],
         dlq' \in [Workers -> Seq(Entries)],
         \A v \in Workers : Len(dlq'[v]) <= Capacity
  PROVE  TypeOK'
<1>1. msg[w] \in Messages /\ ch[w] \in ChannelIndexes
  BY AtSend
<1>2. /\ ch' \in [Workers -> 1 .. Len(Channels) + 1]
      /\ attempt' \in [Workers -> 1 .. MaxAttempts]
      /\ worker' \in [Workers -> WorkerStates]
      /\ \/ worker'[w] = "send" /\ ch'[w] \in ChannelIndexes
         \/ worker'[w] = "ack"
      /\ \A v \in Workers \ {w} : worker'[v] = worker[v] /\ ch'[v] = ch[v]
  BY <1>1, NextChannelFacts
<1>3. \A v \in Workers \ {w} : attempt'[v] = attempt[v]
  BY DEF NextChannel, TypeOK
<1>4. InPlace(w)'
  BY <1>1, <1>2, DeliveryAssumption DEF InPlace
<1>5. ASSUME NEW v \in Workers \ {w} PROVE InPlace(v)'
  BY <1>2, <1>3, <1>5 DEF InPlace, TypeOK
<1>6. \A v \in Workers : InPlace(v)'
  BY <1>4, <1>5
<1> QED
  BY <1>2, <1>6 DEF TypeOK

\* A step of the worker's loop keeps the types.
LEMMA WorkerTypeOK ==
  ASSUME TypeOK, NEW w \in Workers, WorkerStep(w) PROVE TypeOK'
<1> USE ChannelCountHolds, DeliveryAssumption DEF ChannelCount
<1>0. /\ dlq \in [Workers -> Seq(Entries)] /\ \A v \in Workers : Len(dlq[v]) <= Capacity
      /\ received \in [Messages -> [ChannelIndexes -> Nat]]
      /\ dead \subseteq Messages \X ChannelIndexes
      /\ refused \subseteq Messages \X ChannelIndexes
      /\ tried \in [Workers -> Nat]
  BY DEF TypeOK, InPlace
<1>1. ASSUME NEW m \in Messages, Fetch(w, m) PROVE TypeOK'
  <2>1. \A v \in Workers : InPlace(v)'
    BY <1>1 DEF Fetch, TypeOK, InPlace
  <2> QED
    BY <1>1, <2>1 DEF Fetch, TypeOK, historyVars, StatusValues, WorkerStates
<1>2. CASE FetchNothing(w)
  BY <1>2, TerminateFacts DEF FetchNothing, TypeOK
<1>3. CASE SendSucceeds(w)
  <2>1. msg[w] \in Messages /\ ch[w] \in ChannelIndexes /\ worker[w] = "send"
    BY <1>3, AtSend, SendsFacts DEF SendSucceeds
  <2>2. received' \in [Messages -> [ChannelIndexes -> Nat]]
    BY <1>0, <1>3, <2>1, SendsFacts, ReceivesFacts DEF SendSucceeds
  <2>3. /\ NextChannel(w)
        /\ tried' \in [Workers -> Nat]
        /\ UNCHANGED <<status, dead, refused, cancelled, msg, dlq, faults>>
    BY <1>0, <1>3 DEF SendSucceeds
  <2> QED
    BY <1>0, <2>1, <2>2, <2>3, MoveFacts
<1>4. CASE SendFails(w)
  <2>1. /\ msg[w] \in Messages /\ ch[w] \in ChannelIndexes
        /\ attempt[w] \in 1 .. MaxAttempts /\ worker[w] = "send"
    BY <1>4, AtSend, SendsFacts DEF SendFails
  <2>2. received' \in [Messages -> [ChannelIndexes -> Nat]]
    <3>1. UNCHANGED received \/ Receives(w)
      BY <1>4, SendsFacts DEF SendFails
    <3> QED
      BY <1>0, <2>1, <3>1, ReceivesFacts
  <2>3. /\ refused' \subseteq Messages \X ChannelIndexes
        /\ tried' \in [Workers -> Nat]
        /\ UNCHANGED <<status, cancelled, msg, faults>>
    BY <1>0, <1>4, <2>1 DEF SendFails
  <2>4. CASE attempt[w] = MaxAttempts /\ DeadLetter(w)
    <3>1. /\ dead' = dead \cup {<<msg[w], ch[w]>>}
          /\ dlq' \in [Workers -> Seq(Entries)]
          /\ \A v \in Workers : Len(dlq'[v]) <= Capacity
          /\ NextChannel(w)
      BY <2>1, <2>4, DeadLetterFacts
    <3>2. dead' \subseteq Messages \X ChannelIndexes
      BY <1>0, <2>1, <3>1
    <3> QED
      BY <2>1, <2>2, <2>3, <3>1, <3>2, MoveFacts
  <2>5. CASE /\ attempt[w] < MaxAttempts
             /\ worker' = [worker EXCEPT ![w] = "backoff"]
             /\ UNCHANGED <<dead, dlq, ch, attempt>>
    <3>1. \A v \in Workers : InPlace(v)'
      BY <2>1, <2>3, <2>5 DEF TypeOK, InPlace
    <3> QED
      BY <2>2, <2>3, <2>5, <3>1 DEF TypeOK, WorkerStates
  <2> QED
    BY <1>4, <2>4, <2>5 DEF SendFails
<1>5. CASE BackoffCancelled(w)
  <2>1. /\ msg[w] \in Messages /\ ch[w] \in ChannelIndexes
        /\ attempt[w] \in 1 .. MaxAttempts /\ worker[w] = "backoff"
    BY <1>5, AtSend DEF BackoffCancelled
  <2>2. /\ DeadLetter(w)
        /\ UNCHANGED <<status, received, refused, cancelled, msg, tried, faults>>
    BY <1>5 DEF BackoffCancelled
  <2>3. /\ dead' = dead \cup {<<msg[w], ch[w]>>}
        /\ dlq' \in [Workers -> Seq(Entries)]
        /\ \A v \in Workers : Len(dlq'[v]) <= Capacity
        /\ NextChannel(w)
    BY <2>1, <2>2, DeadLetterFacts
  <2>4. dead' \subseteq Messages \X ChannelIndexes
    BY <1>0, <2>1, <2>3
  <2> QED
    BY <1>0, <2>1, <2>2, <2>3, <2>4, MoveFacts
<1>6. CASE BackoffElapses(w)
  <2>1. attempt[w] + 1 \in 1 .. MaxAttempts
    BY <1>6 DEF BackoffElapses, TypeOK, InPlace
  <2>2. \A v \in Workers : InPlace(v)'
    BY <1>6 DEF BackoffElapses, TypeOK, InPlace
  <2> QED
    BY <1>6, <2>1, <2>2 DEF BackoffElapses, TypeOK, historyVars, WorkerStates
<1>7. CASE Ack(w)
  <2>1. msg[w] \in Messages /\ worker[w] = "ack"
    BY <1>7 DEF Ack, TypeOK, InPlace
  <2>2. status' \in [Messages -> StatusValues] /\ faults' \in 0 .. MaxFaults
    <3>1. \/ /\ status' = [status EXCEPT ![msg[w]] =
                            IF @ = "expired" THEN @ ELSE "acked"]
             /\ faults' = faults
          \/ status' = status /\ Fault("lostAck")
      BY <1>7 DEF Ack
    <3>2. faults' \in 0 .. MaxFaults
      BY <3>1 DEF Fault, TypeOK
    <3>3. status' \in [Messages -> StatusValues]
      BY <2>1, <3>1 DEF TypeOK, StatusValues
    <3> QED
      BY <3>2, <3>3
  <2>3. CASE Terminate(w)
    BY <2>2, <2>3, TerminateFacts
  <2>4. CASE ~ cancelled[w]
    <3>1. /\ worker' = [worker EXCEPT ![w] = "fetch"]
          /\ msg' = [msg EXCEPT ![w] = NoMessage]
          /\ UNCHANGED <<historyVars, cancelled, ch, attempt, tried, dlq>>
      BY <1>7, <2>4 DEF Ack, AfterMessage
    <3>2. \A v \in Workers : InPlace(v)'
      BY <3>1 DEF TypeOK, InPlace
    <3> QED
      BY <2>2, <3>1, <3>2 DEF TypeOK, historyVars, WorkerStates
  <2> QED
    BY <1>7, <2>3, <2>4 DEF Ack, AfterMessage
<1> QED
  BY <1>1, <1>2, <1>3, <1>4, <1>5, <1>6, <1>7 DEF WorkerStep

\* The other steps keep the types.
LEMMA OtherTypeOK ==
  ASSUME TypeOK, Next, \A w \in Workers : ~ WorkerStep(w) PROVE TypeOK'
<1> USE DeliveryAssumption DEF workerVars, historyVars, StatusValues, WorkerStates, Fault
<1>1. ASSUME NEW w \in Workers, Start(w) PROVE TypeOK'
  BY <1>1 DEF Start, TypeOK, InPlace
<1>2. ASSUME NEW w \in Workers, Cancel(w) PROVE TypeOK'
  <2>1. faults' \in 0 .. MaxFaults
    BY <1>2 DEF Cancel, TypeOK
  <2>2. cancelled' \in [Workers -> BOOLEAN]
    BY <1>2 DEF Cancel, TypeOK
  <2>3. UNCHANGED <<status, historyVars, worker, msg, ch, attempt, tried, dlq>>
    BY <1>2 DEF Cancel
  <2>4. \A v \in Workers : InPlace(v)'
    BY <2>3 DEF TypeOK, InPlace
  <2> QED
    BY <2>1, <2>2, <2>3, <2>4 DEF TypeOK
<1>3. ASSUME NEW w \in Workers, Crash(w) PROVE TypeOK'
  <2>1. faults' \in 0 .. MaxFaults /\ status' \in [Messages -> StatusValues]
    BY <1>3 DEF Crash, TypeOK
  <2> QED
    BY <1>3, <2>1, TerminateFacts DEF Crash
<1>4. ASSUME NEW m \in Messages, Store(m) PROVE TypeOK'
  <2>1. status' \in [Messages -> StatusValues]
    BY <1>4 DEF Store, TypeOK
  <2>2. UNCHANGED <<workerVars, historyVars, faults>>
    BY <1>4 DEF Store
  <2>3. \A v \in Workers : InPlace(v)'
    BY <2>2 DEF TypeOK, InPlace
  <2> QED
    BY <2>1, <2>2, <2>3 DEF TypeOK
<1>5. ASSUME NEW m \in Messages, AckWaitEnds(m) PROVE TypeOK'
  <2>1. faults' \in 0 .. MaxFaults
    BY <1>5 DEF AckWaitEnds, TypeOK
  <2>2. status' \in [Messages -> StatusValues]
    BY <1>5 DEF AckWaitEnds, TypeOK
  <2>3. UNCHANGED <<workerVars, historyVars>>
    BY <1>5 DEF AckWaitEnds
  <2>4. \A v \in Workers : InPlace(v)'
    BY <2>3 DEF TypeOK, InPlace
  <2> QED
    BY <2>1, <2>2, <2>3, <2>4 DEF TypeOK
<1>6. ASSUME NEW m \in Messages, Expire(m) PROVE TypeOK'
  <2>1. status' \in [Messages -> StatusValues]
    BY <1>6 DEF Expire, TypeOK
  <2>2. UNCHANGED <<workerVars, historyVars, faults>>
    BY <1>6 DEF Expire
  <2>3. \A v \in Workers : InPlace(v)'
    BY <2>2 DEF TypeOK, InPlace
  <2> QED
    BY <2>1, <2>2, <2>3 DEF TypeOK
<1> QED
  BY <1>1, <1>2, <1>3, <1>4, <1>5, <1>6 DEF Next, StreamStep
-----------------------------------------------------------------------------
\* What moves a worker on from a channel has settled that channel.
LEMMA SettledFacts ==
  ASSUME TypeOK, NEW w \in Workers,
         SendSucceeds(w) \/ SendFails(w) \/ BackoffCancelled(w)
  PROVE  /\ \A m \in Messages, k \in ChannelIndexes : Settled(m, k) => Settled(m, k)'
         /\ \/ /\ NextChannel(w)
               /\ \/ received'[msg[w]][ch[w]] > 0
                  \/ <<msg[w], ch[w]>> \in dead'
                  \/ Skips(Channels[ch[w]])
            \/ worker' = [worker EXCEPT ![w] = "backoff"] /\ ch' = ch
<1>1. /\ msg[w] \in Messages /\ ch[w] \in ChannelIndexes
      /\ attempt[w] \in 1 .. MaxAttempts
  BY AtSend, SendsFacts DEF SendSucceeds, SendFails, BackoffCancelled
<1>2. CASE SendSucceeds(w)
  <2>1. /\ received'[msg[w]][ch[w]] > 0 \/ Skips(Channels[ch[w]])
        /\ \A m \in Messages, k \in ChannelIndexes :
             received[m][k] > 0 => received'[m][k] > 0
    BY <1>1, <1>2, SendsFacts, ReceivesFacts DEF SendSucceeds
  <2> QED
    BY <1>1, <1>2, <2>1 DEF SendSucceeds, Settled
<1>3. CASE SendFails(w)
  <2>1. \A m \in Messages, k \in ChannelIndexes :
          received[m][k] > 0 => received'[m][k] > 0
    <3>1. UNCHANGED received \/ Receives(w)
      BY <1>3, SendsFacts DEF SendFails
    <3> QED
      BY <1>1, <3>1, ReceivesFacts
  <2>2. CASE DeadLetter(w)
    BY <1>1, <2>1, <2>2 DEF DeadLetter, Settled
  <2>3. CASE /\ worker' = [worker EXCEPT ![w] = "backoff"]
             /\ UNCHANGED <<dead, dlq, ch, attempt>>
    BY <1>1, <2>1, <2>3 DEF Settled
  <2> QED
    BY <1>3, <2>2, <2>3 DEF SendFails
<1>4. CASE BackoffCancelled(w)
  BY <1>1, <1>4 DEF BackoffCancelled, DeadLetter, Settled
<1> QED
  BY <1>2, <1>3, <1>4

\* A worker's progress through the channels stays settled.
LEMMA NextProgress ==
  ASSUME TypeOK, ProgressIsSettled, Next PROVE ProgressIsSettled'
<1> DEFINE Progress(w) ==
      worker[w] \in {"send", "backoff", "ack"} /\ msg[w].valid =>
        /\ \A k \in ChannelIndexes : k < ch[w] => Settled(msg[w], k)
        /\ worker[w] = "ack" => ch[w] = Len(Channels) + 1
<1>0. \A w \in Workers : Progress(w)
  BY DEF ProgressIsSettled
<1> SUFFICES ASSUME NEW v \in Workers PROVE Progress(v)'
  BY DEF ProgressIsSettled, ChannelIndexes
<1>1. worker[v] \in {"send", "backoff", "ack"} => msg[v] \in Messages
  BY DEF TypeOK, InPlace
<1>2. ASSUME \A m \in Messages, k \in ChannelIndexes : Settled(m, k) => Settled(m, k)',
             UNCHANGED <<worker[v], msg[v], ch[v]>>
      PROVE  Progress(v)'
  BY <1>0, <1>1, <1>2 DEF ChannelIndexes
<1>3. ASSUME worker'[v] \in {"down", "fetch"} PROVE Progress(v)'
  BY <1>3
<1>4. ASSUME UNCHANGED historyVars
      PROVE  \A m \in Messages, k \in ChannelIndexes : Settled(m, k) => Settled(m, k)'
  BY <1>4 DEF historyVars, Settled
<1>5. ASSUME NEW w \in Workers, Terminate(w) PROVE Progress(v)'
  <2>1. UNCHANGED historyVars
    BY <1>5 DEF Terminate
  <2>2. CASE v = w
    <3>1. worker'[v] \in {"down", "fetch"}
      BY <1>5, <2>2 DEF Terminate, TypeOK
    <3> QED
      BY <1>3, <3>1
  <2>3. CASE v # w
    <3>1. UNCHANGED <<worker[v], msg[v], ch[v]>>
      BY <1>5, <2>3 DEF Terminate, TypeOK
    <3> QED
      BY <1>2, <1>4, <2>1, <3>1
  <2> QED
    BY <2>2, <2>3
<1>6. ASSUME NEW w \in Workers, Start(w) \/ Cancel(w) \/ BackoffElapses(w)
      PROVE  Progress(v)'
  <2>1. UNCHANGED historyVars
    BY <1>6 DEF Start, Cancel, BackoffElapses
  <2>2. CASE v = w /\ Start(w)
    <3>1. worker'[v] \in {"down", "fetch"}
      BY <2>2 DEF Start, TypeOK
    <3> QED
      BY <1>3, <3>1
  <2>3. CASE v = w /\ BackoffElapses(w)
    <3>1. /\ worker[v] = "backoff" /\ worker'[v] = "send"
          /\ msg'[v] = msg[v] /\ ch'[v] = ch[v]
      BY <2>3 DEF BackoffElapses, TypeOK
    <3> QED
      BY <1>0, <1>1, <1>4, <2>1, <3>1 DEF ChannelIndexes
  <2>4. CASE v # w \/ Cancel(w)
    <3>1. UNCHANGED <<worker[v], msg[v], ch[v]>>
      BY <1>6, <2>4 DEF Start, Cancel, BackoffElapses, TypeOK
    <3> QED
      BY <1>2, <1>4, <2>1, <3>1
  <2> QED
    BY <1>6, <2>2, <2>3, <2>4
<1>7. ASSUME NEW w \in Workers, NEW m \in Messages, Fetch(w, m) PROVE Progress(v)'
  <2>1. UNCHANGED historyVars
    BY <1>7 DEF Fetch
  <2>2. CASE v = w
    <3>1. ch'[v] = 1 /\ msg'[v] = m /\ (m.valid => worker'[v] = "send")
      BY <1>7, <2>2 DEF Fetch, TypeOK
    <3> QED
      BY <3>1 DEF ChannelIndexes
  <2>3. CASE v # w
    <3>1. UNCHANGED <<worker[v], msg[v], ch[v]>>
      BY <1>7, <2>3 DEF Fetch, TypeOK
    <3> QED
      BY <1>2, <1>4, <2>1, <3>1
  <2> QED
    BY <2>2, <2>3
<1>8. ASSUME NEW w \in Workers,
             SendSucceeds(w) \/ SendFails(w) \/ BackoffCancelled(w)
      PROVE  Progress(v)'
  <2>1. /\ msg[w] \in Messages /\ ch[w] \in ChannelIndexes
        /\ worker[w] \in {"send", "backoff"} /\ msg' = msg
    BY <1>8, AtSend, SendsFacts DEF SendSucceeds, SendFails, BackoffCancelled
  <2>2. \A m \in Messages, k \in ChannelIndexes : Settled(m, k) => Settled(m, k)'
    BY <1>8, SettledFacts
  <2>3. CASE /\ NextChannel(w)
             /\ \/ received'[msg[w]][ch[w]] > 0
                \/ <<msg[w], ch[w]>> \in dead'
                \/ Skips(Channels[ch[w]])
    <3>1. /\ ch'[w] = ch[w] + 1
          /\ \/ worker'[w] = "send"
             \/ worker'[w] = "ack" /\ ch'[w] = Len(Channels) + 1
          /\ \A u \in Workers \ {w} : worker'[u] = worker[u] /\ ch'[u] = ch[u]
      BY <2>1, <2>3, NextChannelFacts
    <3>2. CASE v = w
      <4>1. ASSUME NEW k \in ChannelIndexes, k < ch'[w], msg[w].valid
            PROVE  Settled(msg[w], k)'
        <5>1. k < ch[w] \/ k = ch[w]
          BY <2>1, <3>1, <4>1 DEF ChannelIndexes
        <5>2. CASE k < ch[w]
          BY <1>0, <2>1, <2>2, <4>1, <5>2
        <5>3. CASE k = ch[w]
          BY <2>1, <2>3, <5>3 DEF Settled
        <5> QED
          BY <5>1, <5>2, <5>3
      <4> QED
        BY <2>1, <3>1, <3>2, <4>1 DEF ChannelIndexes
    <3>3. CASE v # w
      BY <1>2, <2>1, <2>2, <3>1, <3>3
    <3> QED
      BY <3>2, <3>3
  <2>4. CASE worker' = [worker EXCEPT ![w] = "backoff"] /\ ch' = ch
    <3>1. CASE v = w
      <4>1. worker'[v] = "backoff"
        BY <2>4, <3>1 DEF TypeOK
      <4> QED
        BY <1>0, <2>1, <2>2, <2>4, <3>1, <4>1 DEF ChannelIndexes
    <3>2. CASE v # w
      <4>1. UNCHANGED <<worker[v], msg[v], ch[v]>>
        BY <2>1, <2>4, <3>2 DEF TypeOK
      <4> QED
        BY <1>2, <2>2, <4>1
    <3> QED
      BY <3>1, <3>2
  <2> QED
    BY <1>8, <2>3, <2>4, SettledFacts
<1>9. ASSUME NEW w \in Workers, Ack(w) PROVE Progress(v)'
  <2>1. CASE Terminate(w)
    BY <1>5, <2>1
  <2>2. CASE ~ cancelled[w]
    <3>1. /\ worker' = [worker EXCEPT ![w] = "fetch"]
          /\ msg' = [msg EXCEPT ![w] = NoMessage]
          /\ ch' = ch /\ UNCHANGED historyVars
      BY <1>9, <2>2 DEF Ack, AfterMessage
    <3>2. CASE v = w
      <4>1. worker'[v] \in {"down", "fetch"}
        BY <3>1, <3>2 DEF TypeOK
      <4> QED
        BY <1>3, <4>1
    <3>3. CASE v # w
      <4>1. UNCHANGED <<worker[v], msg[v], ch[v]>>
        BY <3>1, <3>3 DEF TypeOK
      <4> QED
        BY <1>2, <1>4, <3>1, <4>1
    <3> QED
      BY <3>2, <3>3
  <2> QED
    BY <1>9, <2>1, <2>2 DEF Ack, AfterMessage
<1>10. ASSUME NEW m \in Messages, StreamStep(m) PROVE Progress(v)'
  <2>1. UNCHANGED historyVars /\ UNCHANGED <<worker[v], msg[v], ch[v]>>
    BY <1>10 DEF StreamStep, Store, AckWaitEnds, Expire, workerVars
  <2> QED
    BY <1>2, <1>4, <2>1
<1> QED
  BY <1>5, <1>6, <1>7, <1>8, <1>9, <1>10
     DEF Next, WorkerStep, Crash, FetchNothing

\* Nothing settled is undone by any step.
LEMMA SettledStays ==
  ASSUME TypeOK, Next
  PROVE  \A m \in Messages, k \in ChannelIndexes : Settled(m, k) => Settled(m, k)'
<1>1. CASE UNCHANGED historyVars
  BY <1>1 DEF historyVars, Settled
<1>2. ASSUME NEW w \in Workers,
             SendSucceeds(w) \/ SendFails(w) \/ BackoffCancelled(w)
      PROVE  \A m \in Messages, k \in ChannelIndexes : Settled(m, k) => Settled(m, k)'
  BY <1>2, SettledFacts
<1>3. ASSUME NEW w \in Workers, Ack(w) PROVE UNCHANGED historyVars
  BY <1>3 DEF Ack, AfterMessage, Terminate
<1> QED
  BY <1>1, <1>2, <1>3
     DEF Next, WorkerStep, StreamStep, Start, Cancel, Crash, Terminate, Fetch,
         FetchNothing, BackoffElapses, Store, AckWaitEnds, Expire

\* The ack comes from a worker that is past its last channel.
LEMMA NextAcked == ASSUME IInv, Next PROVE AckedIsSettled'
<1> SUFFICES ASSUME NEW m \in Messages, status'[m] = "acked", m.valid,
                    NEW k \in ChannelIndexes
             PROVE  Settled(m, k)'
  BY DEF AckedIsSettled, ChannelIndexes
<1>1. Settled(m, k) => Settled(m, k)'
  BY SettledStays DEF IInv
<1>2. CASE status[m] = "acked"
  BY <1>1, <1>2 DEF IInv, AckedIsSettled
<1>3. CASE status[m] # "acked"
  <2>1. ASSUME NEW w \in Workers, Ack(w) PROVE Settled(m, k)
    <3>1. /\ worker[w] = "ack" /\ msg[w] \in Messages
          /\ status \in [Messages -> StatusValues]
      BY <2>1 DEF Ack, IInv, TypeOK, InPlace
    <3>2. msg[w] = m
      BY <1>3, <2>1, <3>1 DEF Ack
    <3>3. ch[w] = Len(Channels) + 1
      BY <3>1, <3>2 DEF IInv, ProgressIsSettled
    <3>4. k < ch[w]
      BY <3>3, ChannelCountHolds DEF ChannelCount, ChannelIndexes
    <3> QED
      BY <3>1, <3>2, <3>4 DEF IInv, ProgressIsSettled
  <2>2. ASSUME NEW n \in Messages, NEW s \in StatusValues \ {"acked"},
               status' = [status EXCEPT ![n] = s]
        PROVE  FALSE
    BY <1>3, <2>2 DEF IInv, TypeOK
  <2>3. ASSUME UNCHANGED status PROVE FALSE
    BY <1>3, <2>3
  <2>4. ASSUME NEW w \in Workers, WorkerStep(w) PROVE Settled(m, k)
    <3>1. ASSUME NEW n \in Messages, Fetch(w, n) PROVE FALSE
      BY <2>2, <3>1 DEF Fetch, StatusValues
    <3>2. ASSUME \/ FetchNothing(w) \/ SendSucceeds(w) \/ SendFails(w)
                 \/ BackoffCancelled(w) \/ BackoffElapses(w)
          PROVE  UNCHANGED status
      BY <3>2 DEF FetchNothing, SendSucceeds, SendFails, BackoffCancelled,
                  BackoffElapses
    <3> QED
      BY <2>1, <2>3, <2>4, <3>1, <3>2 DEF WorkerStep
  <2>5. ASSUME NEW n \in Messages, StreamStep(n) PROVE FALSE
    BY <2>2, <2>5 DEF StreamStep, Store, AckWaitEnds, Expire, StatusValues
  <2>6. ASSUME NEW w \in Workers, Start(w) \/ Cancel(w) \/ Crash(w) PROVE FALSE
    BY <2>3, <2>6 DEF Start, Cancel, Crash
  <2> QED
    BY <1>1, <2>4, <2>5, <2>6 DEF Next
<1> QED
  BY <1>2, <1>3

\* Every step preserves the invariant.
LEMMA NextIInv == IInv /\ [Next]_vars => IInv'
<1>1. ASSUME IInv, Next PROVE IInv'
  <2>1. TypeOK'
    BY <1>1, WorkerTypeOK, OtherTypeOK DEF IInv
  <2>2. ProgressIsSettled'
    BY <1>1, NextProgress DEF IInv
  <2> QED
    BY <1>1, <2>1, <2>2, NextAcked DEF IInv
<1>2. ASSUME IInv, UNCHANGED vars PROVE IInv'
  BY <1>2 DEF IInv, TypeOK, InPlace, ProgressIsSettled, AckedIsSettled, Settled, vars
<1> QED
  BY <1>1, <1>2

\* The types of Delivery hold in every reachable state.
THEOREM DeliveryTypeOK == Spec => []TypeOK
<1>1. Spec => []IInv
  BY InitIInv, NextIInv, PTL DEF Spec
<1> QED
  BY <1>1, PTL DEF IInv

\* Whatever crashes, is redelivered or cancelled: an acked notification has been
\* received or dead-lettered on every channel.
THEOREM AckedIsAlwaysSettled == Spec => []AckedIsSettled
<1>1. Spec => []IInv
  BY InitIInv, NextIInv, PTL DEF Spec
<1> QED
  BY <1>1, PTL DEF IInv

\* What a worker is at stays settled: ProgressIsSettled in every reachable state.
THEOREM ProgressIsAlwaysSettled == Spec => []ProgressIsSettled
<1>1. Spec => []IInv
  BY InitIInv, NextIInv, PTL DEF Spec
<1> QED
  BY <1>1, PTL DEF IInv
-----------------------------------------------------------------------------
(***************************************************************************)
(* The refinement.  A worker's message was stored once, whatever became of *)
(* it in the stream since.                                                 *)
(***************************************************************************)
HandledIsStored ==
  \A w \in Workers :
    worker[w] \in {"send", "backoff", "ack"} => status[msg[w]] # "absent"

StateMap   == [m \in Messages |-> StateOf(status[m])]
SettledMap == [m \in Messages |-> {k \in ChannelIndexes : Settled(m, k)}]

\* A step that leaves the stream alone keeps what the workers handle stored.
LEMMA KeepsHandled ==
  ASSUME TypeOK, HandledIsStored, NEW w \in Workers, UNCHANGED status,
         \A v \in Workers \ {w} : worker'[v] = worker[v] /\ msg'[v] = msg[v],
         \/ worker'[w] \in {"down", "fetch"}
         \/ worker[w] \in {"send", "backoff", "ack"} /\ msg'[w] = msg[w]
  PROVE  HandledIsStored'
BY DEF HandledIsStored

\* A message is fetched from the stream and never becomes absent again.
LEMMA NextHandled == ASSUME TypeOK, HandledIsStored, Next PROVE HandledIsStored'
<1>1. ASSUME NEW m \in Messages, StreamStep(m) PROVE HandledIsStored'
  <2>1. worker' = worker /\ msg' = msg
    BY <1>1 DEF StreamStep, Store, AckWaitEnds, Expire, workerVars
  <2>2. \A n \in Messages : status[n] # "absent" => status'[n] # "absent"
    BY <1>1 DEF StreamStep, Store, AckWaitEnds, Expire, TypeOK
  <2> QED
    BY <2>1, <2>2 DEF HandledIsStored, TypeOK, InPlace
<1>2. ASSUME NEW w \in Workers, NEW m \in Messages, Fetch(w, m) PROVE HandledIsStored'
  <2>1. /\ \A n \in Messages : status[n] # "absent" => status'[n] # "absent"
        /\ status'[m] # "absent" /\ msg'[w] = m
        /\ \A v \in Workers \ {w} : worker'[v] = worker[v] /\ msg'[v] = msg[v]
    BY <1>2 DEF Fetch, TypeOK
  <2> QED
    BY <2>1 DEF HandledIsStored, TypeOK, InPlace
<1>3. ASSUME NEW w \in Workers, UNCHANGED status, Terminate(w) PROVE HandledIsStored'
  <2>1. /\ worker'[w] = "down"
        /\ \A v \in Workers \ {w} : worker'[v] = worker[v] /\ msg'[v] = msg[v]
    BY <1>3 DEF Terminate, TypeOK
  <2> QED
    BY <1>3, <2>1, KeepsHandled
<1>4. ASSUME NEW w \in Workers, Start(w) \/ Cancel(w) \/ BackoffElapses(w)
      PROVE  HandledIsStored'
  <2>1. /\ UNCHANGED <<status, msg>>
        /\ \A v \in Workers \ {w} : worker'[v] = worker[v]
    BY <1>4 DEF Start, Cancel, BackoffElapses, TypeOK
  <2>2. worker'[w] = "fetch" \/ worker'[w] = worker[w] \/ worker[w] = "backoff"
    BY <1>4 DEF Start, Cancel, BackoffElapses, TypeOK
  <2> QED
    BY <2>1, <2>2, KeepsHandled DEF HandledIsStored, TypeOK
<1>5. ASSUME NEW w \in Workers,
             SendSucceeds(w) \/ SendFails(w) \/ BackoffCancelled(w)
      PROVE  HandledIsStored'
  <2>1. /\ UNCHANGED <<status, msg>> /\ worker[w] \in {"send", "backoff"}
        /\ ch[w] \in ChannelIndexes
    BY <1>5, AtSend, SendsFacts DEF SendSucceeds, SendFails, BackoffCancelled
  <2>2. \A v \in Workers \ {w} : worker'[v] = worker[v]
    BY <1>5, SettledFacts DEF NextChannel, TypeOK
  <2> QED
    BY <2>1, <2>2, KeepsHandled
<1>6. ASSUME NEW w \in Workers, Ack(w) PROVE HandledIsStored'
  <2>1. /\ worker'[w] \in {"down", "fetch"}
        /\ \A v \in Workers \ {w} : worker'[v] = worker[v] /\ msg'[v] = msg[v]
    BY <1>6 DEF Ack, AfterMessage, Terminate, TypeOK
  <2>2. \A n \in Messages : status[n] # "absent" => status'[n] # "absent"
    BY <1>6 DEF Ack, TypeOK
  <2> QED
    BY <2>1, <2>2 DEF HandledIsStored, TypeOK, InPlace
<1> QED
  BY <1>1, <1>2, <1>3, <1>4, <1>5, <1>6 DEF Next, WorkerStep, Crash, FetchNothing

\* A step that neither moves a message nor settles a channel is a stutter.
LEMMA Stutters ==
  ASSUME \A m \in Messages : StateOf(status'[m]) = StateOf(status[m]),
         UNCHANGED <<received, dead>>
  PROVE  UNCHANGED <<StateMap, SettledMap>>
BY DEF StateMap, SettledMap, Settled

\* The move of one message is a move of the abstract message.
LEMMA Moves ==
  ASSUME TypeOK, NEW m \in Messages, NEW s \in StatusValues,
         status' = [status EXCEPT ![m] = s], UNCHANGED <<received, dead>>
  PROVE  /\ StateMap' = [StateMap EXCEPT ![m] = StateOf(s)]
         /\ UNCHANGED SettledMap
BY DEF TypeOK, StateMap, SettledMap, Settled

\* What a worker does at a channel settles this channel for its message, or
\* nothing.
LEMMA Settles ==
  ASSUME TypeOK, NEW w \in Workers,
         SendSucceeds(w) \/ SendFails(w) \/ BackoffCancelled(w)
  PROVE  \/ UNCHANGED SettledMap
         \/ SettledMap' = [SettledMap EXCEPT ![msg[w]] = @ \cup {ch[w]}]
<1>1. msg[w] \in Messages /\ ch[w] \in ChannelIndexes
  BY AtSend, SendsFacts DEF SendSucceeds, SendFails, BackoffCancelled
<1>2. PICK n \in Messages, c \in ChannelIndexes : n = msg[w] /\ c = ch[w]
  BY <1>1
<1>3. UNCHANGED received \/ Receives(w)
  BY SendsFacts DEF SendSucceeds, SendFails, BackoffCancelled
<1>4. dead' \in {dead, dead \cup {<<n, c>>}}
  BY <1>2 DEF SendSucceeds, SendFails, BackoffCancelled, DeadLetter
<1>5. ASSUME NEW m \in Messages, NEW k \in ChannelIndexes, <<m, k>> # <<n, c>>
      PROVE  Settled(m, k)' <=> Settled(m, k)
  <2>1. received'[m][k] = received[m][k]
    BY <1>1, <1>2, <1>3, <1>5 DEF Receives, TypeOK
  <2> QED
    BY <1>4, <1>5, <2>1 DEF Settled
<1>6. Settled(n, c) => Settled(n, c)'
  BY SettledFacts
<1>7. CASE Settled(n, c)' <=> Settled(n, c)
  <2>1. \A m \in Messages, k \in ChannelIndexes : Settled(m, k)' <=> Settled(m, k)
    BY <1>5, <1>7
  <2> QED
    BY <2>1 DEF SettledMap, ChannelIndexes
<1>8. CASE Settled(n, c)' /\ ~ Settled(n, c)
  <2>1. \A m \in Messages \ {n} :
          {k \in ChannelIndexes : Settled(m, k)'} = {k \in ChannelIndexes : Settled(m, k)}
    BY <1>5
  <2>2. {k \in ChannelIndexes : Settled(n, k)'}
          = {k \in ChannelIndexes : Settled(n, k)} \cup {c}
    BY <1>5, <1>8
  <2>3. SettledMap' = [m \in Messages |-> {k \in ChannelIndexes : Settled(m, k)'}]
    BY DEF SettledMap, ChannelIndexes
  <2>4. SettledMap' = [SettledMap EXCEPT ![n] = @ \cup {c}]
    BY <2>1, <2>2, <2>3 DEF SettledMap
  <2> QED
    BY <1>2, <2>4
<1> QED
  BY <1>6, <1>7, <1>8

\* Each step is a step of AtLeastOnce or a stutter.
LEMMA StepRefines ==
  ASSUME IInv, HandledIsStored, Next
  PROVE  Abstract!Next \/ UNCHANGED <<StateMap, SettledMap>>
<1>0. TypeOK
  BY DEF IInv
<1>1. ASSUME NEW m \in Messages, Store(m) PROVE Abstract!Next
  <2>1. /\ StateMap' = [StateMap EXCEPT ![m] = "stored"]
        /\ UNCHANGED SettledMap
        /\ StateMap[m] = "absent"
    BY <1>0, <1>1, Moves DEF Store, StatusValues, StateOf, historyVars, StateMap
  <2> QED
    BY <2>1 DEF Abstract!Next, Abstract!Store, Abstract!Move, StateMap, SettledMap
<1>2. ASSUME NEW m \in Messages, Expire(m) PROVE Abstract!Next
  <2>1. /\ StateMap' = [StateMap EXCEPT ![m] = "expired"]
        /\ UNCHANGED SettledMap
        /\ StateMap[m] = "stored"
    BY <1>0, <1>2, Moves DEF Expire, StatusValues, StateOf, historyVars, StateMap
  <2> QED
    BY <2>1 DEF Abstract!Next, Abstract!Expire, Abstract!Move, StateMap, SettledMap
<1>3. ASSUME NEW m \in Messages, AckWaitEnds(m) PROVE UNCHANGED <<StateMap, SettledMap>>
  BY <1>0, <1>3, Stutters DEF AckWaitEnds, TypeOK, StateOf, historyVars
<1>4. ASSUME NEW w \in Workers, NEW m \in Messages, Fetch(w, m)
      PROVE  UNCHANGED <<StateMap, SettledMap>>
  BY <1>0, <1>4, Stutters DEF Fetch, TypeOK, StateOf, historyVars
<1>5. ASSUME NEW w \in Workers,
             \/ Start(w) \/ Cancel(w) \/ Crash(w) \/ FetchNothing(w) \/ BackoffElapses(w)
      PROVE  UNCHANGED <<StateMap, SettledMap>>
  <2>1. UNCHANGED <<status, received, dead>>
    BY <1>5 DEF Start, Cancel, Crash, FetchNothing, BackoffElapses, Terminate, historyVars
  <2> QED
    BY <2>1, Stutters
<1>6. ASSUME NEW w \in Workers,
             SendSucceeds(w) \/ SendFails(w) \/ BackoffCancelled(w)
      PROVE  Abstract!Next \/ UNCHANGED <<StateMap, SettledMap>>
  <2>1. /\ worker[w] \in {"send", "backoff"} /\ UNCHANGED status
        /\ msg[w] \in Messages /\ ch[w] \in ChannelIndexes
    BY <1>0, <1>6, AtSend, SendsFacts DEF SendSucceeds, SendFails, BackoffCancelled
  <2>2. UNCHANGED StateMap /\ StateMap[msg[w]] # "absent"
    BY <2>1 DEF StateMap, HandledIsStored, StateOf
  <2>3. CASE UNCHANGED SettledMap
    BY <2>2, <2>3
  <2>4. CASE SettledMap' = [SettledMap EXCEPT ![msg[w]] = @ \cup {ch[w]}]
    BY <2>1, <2>2, <2>4 DEF Abstract!Next, Abstract!Settle, StateMap, SettledMap
  <2> QED
    BY <1>0, <1>6, <2>3, <2>4, Settles
<1>7. ASSUME NEW w \in Workers, Ack(w)
      PROVE  Abstract!Next \/ UNCHANGED <<StateMap, SettledMap>>
  <2>1. /\ worker[w] = "ack" /\ msg[w] \in Messages
        /\ status \in [Messages -> StatusValues]
        /\ UNCHANGED <<received, dead>>
    BY <1>0, <1>7 DEF Ack, AfterMessage, Terminate, TypeOK, InPlace, historyVars
  <2>2. CASE UNCHANGED status \/ status[msg[w]] \in {"acked", "expired"}
    <3>1. \A m \in Messages : StateOf(status'[m]) = StateOf(status[m])
      BY <1>7, <2>1, <2>2 DEF Ack
    <3> QED
      BY <2>1, <3>1, Stutters
  <2>3. CASE ~ UNCHANGED status /\ status[msg[w]] \in {"pending", "outstanding"}
    <3>1. status' = [status EXCEPT ![msg[w]] = "acked"]
      BY <1>7, <2>3 DEF Ack
    <3>2. /\ StateMap' = [StateMap EXCEPT ![msg[w]] = "acked"]
          /\ UNCHANGED SettledMap
          /\ StateMap[msg[w]] = "stored"
      BY <1>0, <2>1, <2>3, <3>1, Moves DEF StatusValues, StateOf, StateMap
    <3>3. msg[w].valid => SettledMap[msg[w]] = ChannelIndexes
      <4> SUFFICES ASSUME msg[w].valid PROVE SettledMap[msg[w]] = ChannelIndexes
        OBVIOUS
      <4>1. ASSUME NEW k \in ChannelIndexes PROVE Settled(msg[w], k)
        <5>1. ch[w] = Len(Channels) + 1 /\ k < ch[w]
          BY <2>1, ChannelCountHolds DEF IInv, ProgressIsSettled, ChannelIndexes, ChannelCount
        <5> QED
          BY <2>1, <5>1 DEF IInv, ProgressIsSettled
      <4> QED
        BY <2>1, <4>1 DEF SettledMap
    <3> QED
      BY <2>1, <3>2, <3>3 DEF Abstract!Next, Abstract!Ack, Abstract!Move, StateMap, SettledMap
  <2>4. status[msg[w]] # "absent"
    BY <2>1 DEF HandledIsStored
  <2> QED
    BY <2>1, <2>2, <2>3, <2>4 DEF StatusValues
<1> QED
  BY <1>1, <1>2, <1>3, <1>4, <1>5, <1>6, <1>7 DEF Next, WorkerStep, StreamStep

\* Workers, retries, dead letters and redeliveries implement at-least-once
\* delivery.
THEOREM DeliveryIsAtLeastOnce == Spec => ImplementsAtLeastOnce
<1>1. Init => Abstract!Init /\ HandledIsStored
  <2> SUFFICES ASSUME Init PROVE Abstract!Init /\ HandledIsStored
    OBVIOUS
  <2>1. \A m \in Messages, k \in ChannelIndexes : Settled(m, k) <=> Skips(Channels[k])
    BY DEF Init, Settled
  <2> QED
    BY <2>1 DEF Init, Abstract!Init, HandledIsStored, StateOf
<1>2. IInv /\ HandledIsStored /\ [Next]_vars => HandledIsStored'
  BY NextHandled DEF IInv, HandledIsStored, vars
<1>3. IInv /\ HandledIsStored /\ [Next]_vars => [Abstract!Next]_(Abstract!vars)
  <2>1. ASSUME UNCHANGED vars PROVE UNCHANGED <<StateMap, SettledMap>>
    BY <2>1, Stutters DEF vars
  <2>2. UNCHANGED <<StateMap, SettledMap>> => UNCHANGED Abstract!vars
    BY DEF Abstract!vars, StateMap, SettledMap
  <2> QED
    BY <2>1, <2>2, StepRefines
<1> QED
  BY <1>1, <1>2, <1>3, InitIInv, NextIInv, PTL DEF Spec, ImplementsAtLeastOnce, Abstract!Spec
-----------------------------------------------------------------------------
(***************************************************************************)
(* The duplicates.  A message that a worker may still send to a channel,   *)
(* or that may still be fetched without a fault, is counted with what the  *)
(* channel has got: the sum grows with the faults only, and not with a     *)
(* cancellation, after which a worker finishes the message it has.         *)
(***************************************************************************)
Graceful == FaultKinds \subseteq {"cancel"}

\* How often a channel that never fails may get one message.
Allowed == IF Graceful THEN 1 ELSE 1 + faults

LEMMA AllowedFacts ==
  ASSUME TypeOK
  PROVE  /\ Allowed \in Nat
         /\ UNCHANGED faults => Allowed' = Allowed
         /\ Fault("cancel") => Allowed' \in {Allowed, Allowed + 1}
         /\ \A kind \in AllFaults \ {"cancel"} : Fault(kind) => Allowed' = Allowed + 1
BY DeliveryAssumption DEF Allowed, Graceful, Fault, TypeOK, AllFaults

\* The workers that will send m to channel k, or have not finished with it.
Ahead(m, k) == {w \in Workers : worker[w] \in {"send", "backoff"} /\ msg[w] = m /\ ch[w] <= k}

Handled(m) == \E w \in Workers : Handles(w, m)

\* A fetch to come that no fault has to allow.
Due(m) == IF status[m] \in {"absent", "pending"} \/ (status[m] = "outstanding" /\ ~ Handled(m))
          THEN 1 ELSE 0

Within(m, k) ==
  /\ IsFiniteSet(Ahead(m, k))
  /\ <<m, k>> \notin refused =>
       received[m][k] + Cardinality(Ahead(m, k)) + Due(m) <= Allowed

Budget == \A m \in Messages, k \in ChannelIndexes : Within(m, k)

\* No more is due, unless there was a fault.
Dues(m) == \/ Allowed' = Allowed /\ (Due(m)' = Due(m) \/ Due(m)' = 0)
           \/ Allowed' = Allowed + 1

LEMMA StepWithin ==
  ASSUME TypeOK, NEW m \in Messages, NEW k \in ChannelIndexes, Within(m, k),
         Ahead(m, k)' \subseteq Ahead(m, k),
         <<m, k>> \in refused' \/ received'[m][k] = received[m][k],
         refused \subseteq refused', Dues(m)
  PROVE  Within(m, k)'
<1>1. /\ IsFiniteSet(Ahead(m, k)') /\ Cardinality(Ahead(m, k)') <= Cardinality(Ahead(m, k))
      /\ Cardinality(Ahead(m, k)') \in Nat /\ Cardinality(Ahead(m, k)) \in Nat
  BY FS_Subset, FS_CardinalityType DEF Within
<1>2. Due(m) \in {0, 1} /\ Due(m)' \in {0, 1}
  BY DEF Due
<1>3. Allowed \in Nat /\ received[m][k] \in Nat
  BY AllowedFacts DEF TypeOK
<1> HIDE DEF Due, Ahead
<1>4. ASSUME <<m, k>> \notin refused'
      PROVE  received'[m][k] + Cardinality(Ahead(m, k)') + Due(m)' <= Allowed'
  <2>1. received[m][k] + Cardinality(Ahead(m, k)) + Due(m) <= Allowed
    BY <1>4 DEF Within
  <2>2. received'[m][k] = received[m][k]
    BY <1>4
  <2> QED
    BY <1>1, <1>2, <1>3, <2>1, <2>2 DEF Dues
<1> QED
  BY <1>1, <1>4 DEF Within

\* Who handles a message is changed by the worker that moves only.
LEMMA HandledKept ==
  ASSUME NEW w \in Workers, NEW m,
         \A v \in Workers \ {w} : worker'[v] = worker[v] /\ msg'[v] = msg[v],
         Handles(w, m)' <=> Handles(w, m)
  PROVE  Handled(m)' <=> Handled(m)
BY DEF Handled, Handles

LEMMA AheadKept ==
  ASSUME NEW w \in Workers, NEW m, NEW k,
         \A v \in Workers \ {w} : worker'[v] = worker[v] /\ msg'[v] = msg[v] /\ ch'[v] = ch[v],
         w \in Ahead(m, k)' => w \in Ahead(m, k)
  PROVE  Ahead(m, k)' \subseteq Ahead(m, k)
BY DEF Ahead

\* A worker's step that sends nothing and takes no message.
LEMMA QuietWithin ==
  ASSUME TypeOK, Budget, NEW w \in Workers,
         \A v \in Workers \ {w} : worker'[v] = worker[v] /\ msg'[v] = msg[v] /\ ch'[v] = ch[v],
         UNCHANGED <<status, received, refused>>,
         \/ worker[w] \in {"down", "fetch"} /\ worker'[w] \in {"down", "fetch"} /\ Allowed' = Allowed
         \/ worker'[w] \in {"down", "fetch"} /\ Allowed' = Allowed + 1
         \/ /\ worker[w] \in {"send", "backoff"} /\ msg'[w] = msg[w] /\ Allowed' = Allowed
            /\ worker'[w] \in {"send", "backoff", "ack"} /\ ch'[w] \in {ch[w], ch[w] + 1}
         \/ UNCHANGED <<worker, msg, ch>> /\ Allowed' \in {Allowed, Allowed + 1}
  PROVE  Budget'
<1> SUFFICES ASSUME NEW m \in Messages, NEW k \in ChannelIndexes PROVE Within(m, k)'
  BY DEF Budget
<1>1. ch[w] \in Int /\ k \in Int
  BY ChannelCountHolds DEF TypeOK, ChannelCount
<1>2. Ahead(m, k)' \subseteq Ahead(m, k)
  <2>1. w \in Ahead(m, k)' => w \in Ahead(m, k)
    BY <1>1 DEF Ahead
  <2> QED
    BY <2>1, AheadKept
<1>3. Dues(m)
  <2>1. CASE Allowed' = Allowed + 1
    BY <2>1 DEF Dues
  <2>2. CASE Allowed' # Allowed + 1
    <3>1. (Handles(w, m)' <=> Handles(w, m)) /\ Allowed' = Allowed
      BY <2>2 DEF Handles
    <3>2. Handled(m)' <=> Handled(m)
      BY <3>1, HandledKept
    <3> QED
      BY <3>1, <3>2 DEF Dues, Due
  <2> QED
    BY <2>1, <2>2
<1> QED
  BY <1>2, <1>3, StepWithin DEF Budget

LEMMA FetchWithin ==
  ASSUME TypeOK, Budget, NEW w \in Workers, NEW n \in Messages, Fetch(w, n) PROVE Budget'
<1> SUFFICES ASSUME NEW m \in Messages, NEW k \in ChannelIndexes PROVE Within(m, k)'
  BY DEF Budget
<1>1. /\ worker[w] = "fetch" /\ status[n] = "pending"
      /\ worker'[w] \in {"send", "ack"} /\ msg'[w] = n
      /\ \A v \in Workers \ {w} : worker'[v] = worker[v] /\ msg'[v] = msg[v] /\ ch'[v] = ch[v]
      /\ status' = [status EXCEPT ![n] = "outstanding"]
      /\ UNCHANGED <<received, refused>> /\ Allowed' = Allowed
  BY AllowedFacts DEF Fetch, TypeOK, historyVars
<1>2. CASE m # n
  <2>1. Ahead(m, k)' \subseteq Ahead(m, k)
    <3>1. w \notin Ahead(m, k)'
      BY <1>1, <1>2 DEF Ahead
    <3> QED
      BY <1>1, <3>1, AheadKept
  <2>2. Handled(m)' <=> Handled(m)
    <3>1. ~ Handles(w, m)' /\ ~ Handles(w, m)
      BY <1>1, <1>2 DEF Handles
    <3> QED
      BY <1>1, <3>1, HandledKept
  <2>3. Dues(m)
    BY <1>1, <1>2, <2>2 DEF Dues, Due, TypeOK
  <2> QED
    BY <1>1, <2>1, <2>3, StepWithin DEF Budget
<1>3. CASE m = n
  <2>1. Due(m) = 1
    BY <1>1, <1>3 DEF Due
  <2>2. Due(m)' = 0
    <3>1. Handles(w, m)' /\ status'[m] = "outstanding"
      BY <1>1, <1>3 DEF Handles, TypeOK
    <3> QED
      BY <3>1 DEF Due, Handled
  <2>3. Ahead(m, k)' \subseteq Ahead(m, k) \cup {w}
    BY <1>1 DEF Ahead
  <2>4. /\ IsFiniteSet(Ahead(m, k)) /\ Cardinality(Ahead(m, k)) \in Nat
        /\ IsFiniteSet(Ahead(m, k) \cup {w})
        /\ Cardinality(Ahead(m, k) \cup {w}) <= Cardinality(Ahead(m, k)) + 1
    <3>1. IsFiniteSet(Ahead(m, k))
      BY DEF Budget, Within
    <3>2. Cardinality(Ahead(m, k)) \in Nat
      BY <3>1, FS_CardinalityType
    <3> HIDE DEF Ahead
    <3>3. /\ IsFiniteSet(Ahead(m, k) \cup {w})
          /\ Cardinality(Ahead(m, k) \cup {w}) =
               IF w \in Ahead(m, k) THEN Cardinality(Ahead(m, k))
                                    ELSE Cardinality(Ahead(m, k)) + 1
      BY <3>1, FS_AddElement, Zenon
    <3> QED
      BY <3>1, <3>2, <3>3
  <2>5. /\ IsFiniteSet(Ahead(m, k)') /\ Cardinality(Ahead(m, k)') \in Nat
        /\ Cardinality(Ahead(m, k)') <= Cardinality(Ahead(m, k) \cup {w})
    BY <2>3, <2>4, FS_Subset, FS_CardinalityType
  <2>6. Cardinality(Ahead(m, k)') <= Cardinality(Ahead(m, k)) + 1
    <3>1. Cardinality(Ahead(m, k) \cup {w}) \in Nat
      BY <2>4, FS_CardinalityType
    <3> QED
      BY <2>4, <2>5, <3>1
  <2>7. received[m][k] \in Nat /\ Allowed \in Nat
    BY AllowedFacts DEF TypeOK
  <2>8. <<m, k>> \notin refused =>
          received[m][k] + Cardinality(Ahead(m, k)) + 1 <= Allowed
    BY <2>1 DEF Budget, Within
  <2> HIDE DEF Ahead, Due
  <2>9. <<m, k>> \notin refused' =>
          received'[m][k] + Cardinality(Ahead(m, k)') + Due(m)' <= Allowed'
    BY <1>1, <2>2, <2>4, <2>5, <2>6, <2>7, <2>8
  <2> QED
    BY <2>5, <2>9 DEF Within
<1> QED
  BY <1>2, <1>3

\* The only step that adds to what a channel has got, at a worker that counted
\* and counts no longer.
LEMMA SendWithin ==
  ASSUME TypeOK, Budget, NEW w \in Workers, SendSucceeds(w) \/ SendFails(w) PROVE Budget'
<1> SUFFICES ASSUME NEW m \in Messages, NEW k \in ChannelIndexes PROVE Within(m, k)'
  BY DEF Budget
<1>0. /\ msg[w] \in Messages /\ ch[w] \in ChannelIndexes /\ worker[w] = "send"
      /\ Receives(w) \/ UNCHANGED received
      /\ UNCHANGED <<status, msg>> /\ Allowed' = Allowed /\ refused \subseteq refused'
  BY AtSend, SendsFacts, AllowedFacts DEF SendSucceeds, SendFails
<1>1. /\ \A v \in Workers \ {w} : worker'[v] = worker[v] /\ msg'[v] = msg[v] /\ ch'[v] = ch[v]
      /\ worker'[w] \in {"send", "backoff", "ack"} /\ msg'[w] = msg[w]
      /\ ch'[w] \in {ch[w], ch[w] + 1} /\ ch[w] \in Int /\ k \in Int
      /\ SendFails(w) \/ ch'[w] = ch[w] + 1
  <2>1. ch[w] \in Int /\ k \in Int
    BY <1>0, ChannelCountHolds DEF ChannelCount
  <2>2. CASE NextChannel(w)
    BY <1>0, <2>1, <2>2 DEF NextChannel, TypeOK
  <2>3. CASE UNCHANGED ch /\ worker' = [worker EXCEPT ![w] = "backoff"] /\ SendFails(w)
    BY <1>0, <2>1, <2>3 DEF TypeOK
  <2> QED
    BY <2>2, <2>3 DEF SendSucceeds, SendFails, DeadLetter
<1>2. Dues(m)
  <2>1. Handles(w, m)' <=> Handles(w, m)
    BY <1>0, <1>1 DEF Handles
  <2>2. Handled(m)' <=> Handled(m)
    BY <1>1, <2>1, HandledKept
  <2> QED
    BY <1>0, <2>2 DEF Dues, Due
<1>3. Ahead(m, k)' \subseteq Ahead(m, k)
  <2>1. w \in Ahead(m, k)' => w \in Ahead(m, k)
    BY <1>0, <1>1 DEF Ahead
  <2> QED
    BY <1>1, <2>1, AheadKept
<1>4. CASE m # msg[w] \/ k # ch[w]
  <2>1. received'[m][k] = received[m][k]
    <3>1. CASE Receives(w)
      BY <1>0, <1>4, <3>1 DEF Receives, TypeOK
    <3> QED
      BY <1>0, <3>1
  <2> QED
    BY <1>0, <1>2, <1>3, <2>1, StepWithin DEF Budget
<1>5. CASE SendFails(w) /\ m = msg[w] /\ k = ch[w]
  <2>1. <<m, k>> \in refused'
    BY <1>5 DEF SendFails
  <2> QED
    BY <1>0, <1>2, <1>3, <2>1, StepWithin DEF Budget
<1>6. CASE ch'[w] = ch[w] + 1 /\ m = msg[w] /\ k = ch[w]
  <2>1. w \in Ahead(m, k) /\ w \notin Ahead(m, k)'
    BY <1>0, <1>1, <1>6 DEF Ahead
  <2>2. Ahead(m, k)' \subseteq Ahead(m, k) \ {w}
    BY <1>3, <2>1
  <2>3. /\ IsFiniteSet(Ahead(m, k)) /\ Cardinality(Ahead(m, k)) \in Nat
        /\ IsFiniteSet(Ahead(m, k) \ {w}) /\ Cardinality(Ahead(m, k) \ {w}) \in Nat
        /\ Cardinality(Ahead(m, k) \ {w}) = Cardinality(Ahead(m, k)) - 1
    BY <2>1, FS_RemoveElement, FS_CardinalityType DEF Budget, Within
  <2>4. /\ IsFiniteSet(Ahead(m, k)') /\ Cardinality(Ahead(m, k)') \in Nat
        /\ Cardinality(Ahead(m, k)') <= Cardinality(Ahead(m, k) \ {w})
    BY <2>2, <2>3, FS_Subset, FS_CardinalityType
  <2>5. received'[m][k] \in {received[m][k], received[m][k] + 1}
    BY <1>0, <1>6 DEF Receives, TypeOK
  <2>6. received[m][k] \in Nat /\ Allowed \in Nat /\ Due(m) \in {0, 1} /\ Due(m)' \in {0, 1}
    BY AllowedFacts DEF TypeOK, Due
  <2>7. <<m, k>> \notin refused =>
          received[m][k] + Cardinality(Ahead(m, k)) + Due(m) <= Allowed
    BY DEF Budget, Within
  <2> HIDE DEF Ahead, Due
  <2>8. <<m, k>> \notin refused' =>
          received'[m][k] + Cardinality(Ahead(m, k)') + Due(m)' <= Allowed'
    BY <1>0, <1>2, <2>3, <2>4, <2>5, <2>6, <2>7 DEF Dues
  <2> QED
    BY <2>4, <2>8 DEF Within
<1> QED
  BY <1>1, <1>4, <1>5, <1>6

LEMMA AckWithin == ASSUME TypeOK, Budget, NEW w \in Workers, Ack(w) PROVE Budget'
<1> SUFFICES ASSUME NEW m \in Messages, NEW k \in ChannelIndexes PROVE Within(m, k)'
  BY DEF Budget
<1>1. /\ worker[w] = "ack" /\ worker'[w] \in {"down", "fetch"} /\ msg[w] \in Messages
      /\ \A v \in Workers \ {w} : worker'[v] = worker[v] /\ msg'[v] = msg[v] /\ ch'[v] = ch[v]
      /\ UNCHANGED <<received, refused>>
  BY DEF Ack, AfterMessage, Terminate, TypeOK, InPlace, historyVars
<1>2. Ahead(m, k)' \subseteq Ahead(m, k)
  <2>1. w \notin Ahead(m, k)'
    BY <1>1 DEF Ahead
  <2> QED
    BY <1>1, <2>1, AheadKept
<1>3. Dues(m)
  <2>1. CASE Allowed' = Allowed + 1
    BY <2>1 DEF Dues
  <2>2. CASE status' = [status EXCEPT ![msg[w]] = IF @ = "expired" THEN @ ELSE "acked"]
             /\ Allowed' = Allowed
    <3>1. CASE m = msg[w]
      BY <1>1, <2>2, <3>1 DEF Dues, Due, TypeOK
    <3>2. CASE m # msg[w]
      <4>1. ~ Handles(w, m)' /\ ~ Handles(w, m)
        BY <1>1, <3>2 DEF Handles
      <4>2. Handled(m)' <=> Handled(m)
        BY <1>1, <4>1, HandledKept
      <4> QED
        BY <1>1, <2>2, <3>2, <4>2 DEF Dues, Due, TypeOK
    <3> QED
      BY <3>1, <3>2
  <2> QED
    BY <2>1, <2>2, AllowedFacts DEF Ack, AllFaults
<1> QED
  BY <1>1, <1>2, <1>3, StepWithin DEF Budget

LEMMA StreamWithin == ASSUME TypeOK, Budget, NEW n \in Messages, StreamStep(n) PROVE Budget'
<1> SUFFICES ASSUME NEW m \in Messages, NEW k \in ChannelIndexes PROVE Within(m, k)'
  BY DEF Budget
<1>1. UNCHANGED <<worker, msg, ch, received, refused>>
  BY DEF StreamStep, Store, AckWaitEnds, Expire, workerVars, historyVars
<1>2. (Handled(m)' <=> Handled(m)) /\ Ahead(m, k)' = Ahead(m, k)
  BY <1>1 DEF Handled, Handles, Ahead
<1>3. Dues(m)
  <2>1. CASE Store(n) \/ Expire(n)
    BY <1>2, <2>1, AllowedFacts DEF Store, Expire, Dues, Due, TypeOK
  <2>2. CASE AckWaitEnds(n)
    <3>1. CASE Allowed' = Allowed + 1
      BY <3>1 DEF Dues
    <3>2. CASE ~ Handled(n) /\ Allowed' = Allowed
      BY <1>2, <2>2, <3>2 DEF AckWaitEnds, Dues, Due, TypeOK
    <3> QED
      BY <2>2, <3>1, <3>2, AllowedFacts DEF AckWaitEnds, Handled, AllFaults
  <2> QED
    BY <2>1, <2>2 DEF StreamStep
<1> QED
  BY <1>1, <1>2, <1>3, StepWithin DEF Budget

LEMMA NextWithin == ASSUME TypeOK, Budget, Next PROVE Budget'
<1>1. ASSUME NEW w \in Workers, Start(w) \/ FetchNothing(w) PROVE Budget'
  <2>1. /\ \A v \in Workers \ {w} : worker'[v] = worker[v] /\ msg'[v] = msg[v] /\ ch'[v] = ch[v]
        /\ worker[w] \in {"down", "fetch"} /\ worker'[w] \in {"down", "fetch"}
        /\ UNCHANGED <<status, received, refused, faults>>
    BY <1>1 DEF Start, FetchNothing, Terminate, historyVars, TypeOK
  <2> QED
    BY <2>1, QuietWithin, AllowedFacts
<1>2. ASSUME NEW w \in Workers, Cancel(w) PROVE Budget'
  BY <1>2, QuietWithin, AllowedFacts DEF Cancel, historyVars
<1>3. ASSUME NEW w \in Workers, Crash(w) PROVE Budget'
  <2>1. /\ \A v \in Workers \ {w} : worker'[v] = worker[v] /\ msg'[v] = msg[v] /\ ch'[v] = ch[v]
        /\ worker'[w] = "down" /\ Allowed' = Allowed + 1
        /\ UNCHANGED <<status, received, refused>>
    BY <1>3, AllowedFacts DEF Crash, Terminate, historyVars, TypeOK, AllFaults
  <2> QED
    BY <2>1, QuietWithin
<1>4. ASSUME NEW w \in Workers, BackoffCancelled(w) \/ BackoffElapses(w) PROVE Budget'
  <2>1. /\ \A v \in Workers \ {w} : worker'[v] = worker[v] /\ msg'[v] = msg[v] /\ ch'[v] = ch[v]
        /\ worker[w] = "backoff" /\ worker'[w] \in {"send", "ack"} /\ msg'[w] = msg[w]
        /\ ch'[w] \in {ch[w], ch[w] + 1}
        /\ UNCHANGED <<status, received, refused, faults>>
    BY <1>4 DEF BackoffCancelled, BackoffElapses, DeadLetter, NextChannel, historyVars, TypeOK
  <2> QED
    BY <2>1, QuietWithin, AllowedFacts
<1> QED
  BY <1>1, <1>2, <1>3, <1>4, FetchWithin, SendWithin, AckWithin, StreamWithin
     DEF Next, WorkerStep

LEMMA BudgetInvariant == Spec => [](IInv /\ Budget)
<1>1. Init => Budget
  <2> SUFFICES ASSUME Init, NEW m \in Messages, NEW k \in ChannelIndexes PROVE Within(m, k)
    BY DEF Budget
  <2>1. Ahead(m, k) = {}
    BY DEF Init, Ahead
  <2>2. Due(m) = 1 /\ received[m][k] = 0 /\ Allowed = 1
    BY DEF Init, Due, Allowed
  <2> QED
    BY <2>1, <2>2, FS_EmptySet DEF Within
<1>2. IInv /\ Budget /\ [Next]_vars => Budget'
  <2>1. ASSUME Budget, UNCHANGED vars PROVE Budget'
    <3> SUFFICES ASSUME NEW m \in Messages, NEW k \in ChannelIndexes PROVE Within(m, k)'
      BY DEF Budget
    <3>1. Ahead(m, k)' = Ahead(m, k) /\ Due(m)' = Due(m) /\ Allowed' = Allowed
      BY <2>1 DEF vars, Ahead, Due, Handled, Handles, Allowed
    <3> QED
      BY <2>1, <3>1 DEF vars, Budget, Within
  <2> QED
    BY <2>1, NextWithin DEF IInv
<1> QED
  BY <1>1, <1>2, InitIInv, NextIInv, PTL DEF Spec

LEMMA ReceivedIsAllowed ==
  ASSUME IInv, Budget, NEW m \in Messages, NEW k \in ChannelIndexes, <<m, k>> \notin refused
  PROVE  received[m][k] <= Allowed
<1>1. Cardinality(Ahead(m, k)) \in Nat /\ Due(m) \in {0, 1}
  BY FS_CardinalityType DEF Budget, Within, Due
<1>2. received[m][k] \in Nat /\ Allowed \in Nat
  BY AllowedFacts DEF IInv, TypeOK
<1>3. received[m][k] + Cardinality(Ahead(m, k)) + Due(m) <= Allowed
  BY DEF Budget, Within
<1> HIDE DEF Ahead, Due
<1> QED
  BY <1>1, <1>2, <1>3

\* Without a failed Send a channel gets a message once, and once more for each
\* crash, cancellation, lost ack or late redelivery at most.
THEOREM DuplicatesNeedFaults == Spec => []NoSpuriousDuplicates
<1>1. ASSUME IInv, Budget PROVE NoSpuriousDuplicates
  <2>1. faults \in Nat
    BY <1>1, DeliveryAssumption DEF IInv, TypeOK
  <2>2. Allowed <= 1 + faults /\ Allowed \in Nat
    BY <2>1 DEF Allowed
  <2>3. \A m \in Messages, k \in ChannelIndexes : received[m][k] \in Nat
    BY <1>1 DEF IInv, TypeOK
  <2> QED
    BY <1>1, <2>1, <2>2, <2>3, ReceivedIsAllowed DEF NoSpuriousDuplicates
<1> QED
  BY <1>1, BudgetInvariant, PTL

\* The run independent finds ChannelsAreIndependent violated by a redelivery
\* that comes too early.  A worker that is told to stop finishes its message and
\* acks it: with SIGTERMs alone, however many and whenever they come, a channel
\* that never fails gets each message once.
THEOREM GracefulStopsSendOnce ==
  ASSUME FaultKinds \subseteq {"cancel"}
  PROVE  Spec => []ChannelsAreIndependent
<1>1. ASSUME IInv, Budget PROVE ChannelsAreIndependent
  <2>1. Allowed = 1
    BY DEF Allowed, Graceful
  <2> QED
    BY <1>1, <2>1, ReceivedIsAllowed DEF ChannelsAreIndependent
<1> QED
  BY <1>1, BudgetInvariant, PTL
-----------------------------------------------------------------------------
(***************************************************************************)
(* What is done stays done, and the dead letters.                          *)
(***************************************************************************)
\* A message that was acked or has expired stays so: an ack that comes late
\* does not bring it back, nor does a redelivery.  What a channel has got or has
\* a dead letter for stays settled, through the end of the worker that did it.
WhatIsDoneStays ==
  \A m \in Messages :
    /\ status[m] \in {"acked", "expired"} => status'[m] = status[m]
    /\ \A k \in ChannelIndexes : Settled(m, k) => Settled(m, k)'

\* No step takes back an ack, an expiry or a settled channel.
THEOREM DoneStaysDone == Spec => [][WhatIsDoneStays]_vars
<1>1. ASSUME IInv, Next PROVE WhatIsDoneStays
  <2>1. status \in [Messages -> StatusValues]
    BY <1>1 DEF IInv, TypeOK
  <2>2. ASSUME NEW m \in Messages, status[m] \in {"acked", "expired"}
        PROVE  status'[m] = status[m]
    <3>1. ASSUME NEW n \in Messages, StreamStep(n) PROVE status'[m] = status[m]
      BY <2>1, <2>2, <3>1 DEF StreamStep, Store, AckWaitEnds, Expire
    <3>2. ASSUME NEW w \in Workers, NEW n \in Messages, Fetch(w, n)
          PROVE  status'[m] = status[m]
      BY <2>1, <2>2, <3>2 DEF Fetch
    <3>3. ASSUME NEW w \in Workers, Ack(w) PROVE status'[m] = status[m]
      <4>1. msg[w] \in Messages
        BY <1>1, <3>3 DEF Ack, IInv, TypeOK, InPlace
      <4> QED
        BY <2>1, <2>2, <3>3, <4>1 DEF Ack
    <3> QED
      BY <1>1, <3>1, <3>2, <3>3
         DEF Next, WorkerStep, Start, Cancel, Crash, FetchNothing, SendSucceeds,
             SendFails, BackoffCancelled, BackoffElapses
  <2> QED
    BY <1>1, <2>2, SettledStays DEF WhatIsDoneStays, IInv
<1>2. Spec => []IInv
  BY InitIInv, NextIInv, PTL DEF Spec
<1> QED
  BY <1>1, <1>2, PTL DEF Spec

\* A dead letter is about a notification that a channel with settings has failed
\* for, never about the log, and what a queue holds was put there by DeadLetter.
DeadLettersAreTrue ==
  /\ dead \subseteq refused
  /\ \A m \in Messages, k \in ChannelIndexes :
       <<m, k>> \in refused =>
         m.valid /\ Channels[k] # "log" /\ ~ Skips(Channels[k])
  /\ \A w \in Workers : \A j \in 1 .. Len(dlq[w]) :
       <<dlq[w][j].msg, dlq[w][j].channel>> \in dead

\* Between two attempts there was a failure, and only notifications are sent.
AttemptIsTrue ==
  \A w \in Workers :
    /\ worker[w] \in {"send", "backoff"} => msg[w].valid
    /\ worker[w] = "backoff" => <<msg[w], ch[w]>> \in refused

LettersInv == DeadLettersAreTrue /\ AttemptIsTrue

\* Every entry of a queue after a Push was there before or has been pushed.
LEMMA PushAdds ==
  ASSUME NEW q \in Seq(Entries), Len(q) <= Capacity, NEW e \in Entries
  PROVE  \A j \in 1 .. Len(Push(q, e)) :
           Push(q, e)[j] = e \/ \E i \in 1 .. Len(q) : Push(q, e)[j] = q[i]
<1>1. CASE Len(q) >= Capacity
  <2> DEFINE n == Len(q)
             p == Push(q, e)
  <2>1. /\ n \in Nat \ {0} /\ Len(p) = n /\ p[n] = e
        /\ \A j \in 1 .. n - 1 : p[j] = q[j + 1]
    BY <1>1, DeliveryAssumption DEF Push
  <2> HIDE DEF n, p
  <2>2. ASSUME NEW j \in 1 .. n PROVE p[j] = e \/ \E i \in 1 .. n : p[j] = q[i]
    <3>1. j = n \/ (j \in 1 .. n - 1 /\ j + 1 \in 1 .. n)
      BY <2>1
    <3> QED
      BY <2>1, <3>1
  <2> QED
    BY <2>1, <2>2 DEF n, p
<1>2. CASE ~ (Len(q) >= Capacity)
  BY <1>2 DEF Push
<1> QED
  BY <1>1, <1>2

\* A step that touches neither history nor queues, and keeps what each worker
\* attempts or lets it rest.
LEMMA QuietLetters ==
  ASSUME TypeOK, LettersInv, UNCHANGED historyVars,
         \A v \in Workers : dlq'[v] = dlq[v] \/ dlq'[v] = <<>>,
         \A v \in Workers :
           \/ UNCHANGED <<worker[v], msg[v], ch[v]>>
           \/ worker'[v] \in {"down", "fetch", "ack"}
           \/ worker'[v] = "send" /\ msg'[v].valid
  PROVE  LettersInv'
<1>1. UNCHANGED <<dead, refused, Channels>>
  BY DEF historyVars
<1>2. AttemptIsTrue'
  BY <1>1 DEF LettersInv, AttemptIsTrue
<1>3. ASSUME NEW w \in Workers, NEW j \in 1 .. Len(dlq'[w])
      PROVE  <<dlq'[w][j].msg, dlq'[w][j].channel>> \in dead'
  BY <1>1, <1>3 DEF LettersInv, DeadLettersAreTrue
<1> QED
  BY <1>1, <1>2, <1>3 DEF LettersInv, DeadLettersAreTrue, ChannelIndexes

\* A dead letter for a channel that has failed.
LEMMA DeadLetterIsTrue ==
  ASSUME TypeOK, LettersInv, NEW w \in Workers, worker[w] \in {"send", "backoff"},
         DeadLetter(w), msg' = msg, refused \subseteq refused',
         <<msg[w], ch[w]>> \in refused',
         \A m \in Messages, k \in ChannelIndexes :
           <<m, k>> \in refused' =>
             m.valid /\ Channels[k] # "log" /\ ~ Skips(Channels[k])
  PROVE  LettersInv'
<1>1. /\ msg[w] \in Messages /\ ch[w] \in ChannelIndexes /\ msg[w].valid
      /\ dlq \in [Workers -> Seq(Entries)] /\ Len(dlq[w]) <= Capacity
  BY AtSend DEF LettersInv, AttemptIsTrue, TypeOK, InPlace
<1>2. /\ dead' = dead \cup {<<msg[w], ch[w]>>}
      /\ worker'[w] \in {"send", "ack"}
      /\ \A v \in Workers \ {w} : worker'[v] = worker[v] /\ ch'[v] = ch[v]
  BY <1>1, NextChannelFacts DEF DeadLetter
<1>3. AttemptIsTrue'
  <2> SUFFICES ASSUME NEW v \in Workers
               PROVE  /\ worker'[v] \in {"send", "backoff"} => msg'[v].valid
                      /\ worker'[v] = "backoff" => <<msg'[v], ch'[v]>> \in refused'
    BY DEF AttemptIsTrue
  <2>1. CASE v = w
    BY <1>1, <1>2, <2>1
  <2>2. CASE v # w
    BY <1>2, <2>2 DEF LettersInv, AttemptIsTrue
  <2> QED
    BY <2>1, <2>2
<1>4. ASSUME NEW v \in Workers, NEW j \in 1 .. Len(dlq'[v])
      PROVE  <<dlq'[v][j].msg, dlq'[v][j].channel>> \in dead'
  <2> DEFINE entry == [msg |-> msg[w], channel |-> ch[w]]
  <2>1. entry \in Entries /\ <<entry.msg, entry.channel>> \in dead'
    BY <1>1, <1>2 DEF Entries
  <2>2. dlq' = [dlq EXCEPT ![w] = Push(dlq[w], entry)]
    BY DEF DeadLetter
  <2>3. \A u \in Workers : \A i \in 1 .. Len(dlq[u]) :
          <<dlq[u][i].msg, dlq[u][i].channel>> \in dead'
    BY <1>2 DEF LettersInv, DeadLettersAreTrue
  <2> HIDE DEF entry
  <2>4. CASE v = w
    <3>1. dlq'[v] = Push(dlq[w], entry)
      BY <1>1, <2>2, <2>4
    <3>2. \A i \in 1 .. Len(Push(dlq[w], entry)) :
            \/ Push(dlq[w], entry)[i] = entry
            \/ \E h \in 1 .. Len(dlq[w]) : Push(dlq[w], entry)[i] = dlq[w][h]
      <4>1. dlq[w] \in Seq(Entries)
        BY <1>1
      <4> QED
        BY <1>1, <2>1, <4>1, PushAdds
    <3>3. dlq'[v][j] = entry \/ \E i \in 1 .. Len(dlq[w]) : dlq'[v][j] = dlq[w][i]
      BY <1>4, <3>1, <3>2, Zenon
    <3> QED
      BY <2>1, <2>3, <3>3
  <2>5. CASE v # w
    <3>1. dlq'[v] = dlq[v]
      BY <1>1, <2>2, <2>5
    <3> QED
      BY <1>4, <2>3, <3>1
  <2> QED
    BY <2>4, <2>5
<1>5. dead' \subseteq refused'
  BY <1>2 DEF LettersInv, DeadLettersAreTrue
<1> QED
  BY <1>3, <1>4, <1>5 DEF LettersInv, DeadLettersAreTrue, ChannelIndexes

\* A Send that fails is of a channel that has settings and is not the log.
LEMMA FailedSendFacts ==
  ASSUME TypeOK, NEW w \in Workers, Sends(w, FALSE)
  PROVE  Channels[ch[w]] # "log" /\ ~ Skips(Channels[ch[w]])
BY DEF Sends, Outcomes

LEMMA NextLetters == ASSUME TypeOK, LettersInv, Next PROVE LettersInv'
<1>1. ASSUME NEW w \in Workers, SendFails(w) PROVE LettersInv'
  <2>1. /\ worker[w] = "send" /\ msg[w] \in Messages /\ ch[w] \in ChannelIndexes
        /\ msg[w].valid /\ msg' = msg
        /\ refused' = refused \cup {<<msg[w], ch[w]>>}
        /\ Channels[ch[w]] # "log" /\ ~ Skips(Channels[ch[w]])
    BY <1>1, AtSend, SendsFacts, FailedSendFacts DEF SendFails, LettersInv, AttemptIsTrue
  <2>2. \A m \in Messages, k \in ChannelIndexes :
          <<m, k>> \in refused' =>
            m.valid /\ Channels[k] # "log" /\ ~ Skips(Channels[k])
    BY <2>1 DEF LettersInv, DeadLettersAreTrue
  <2>3. CASE DeadLetter(w)
    BY <2>1, <2>2, <2>3, DeadLetterIsTrue
  <2>4. CASE worker' = [worker EXCEPT ![w] = "backoff"] /\ UNCHANGED <<dead, dlq, ch, attempt>>
    <3>1. AttemptIsTrue'
      BY <2>1, <2>4 DEF LettersInv, AttemptIsTrue, TypeOK
    <3> QED
      BY <2>1, <2>2, <2>4, <3>1 DEF LettersInv, DeadLettersAreTrue, ChannelIndexes
  <2> QED
    BY <1>1, <2>3, <2>4 DEF SendFails
<1>2. ASSUME NEW w \in Workers, BackoffCancelled(w) PROVE LettersInv'
  <2>1. /\ worker[w] = "backoff" /\ DeadLetter(w) /\ UNCHANGED <<msg, refused>>
        /\ <<msg[w], ch[w]>> \in refused
    BY <1>2 DEF BackoffCancelled, LettersInv, AttemptIsTrue
  <2> QED
    BY <2>1, DeadLetterIsTrue DEF LettersInv, DeadLettersAreTrue
<1>3. ASSUME NEW w \in Workers, SendSucceeds(w) PROVE LettersInv'
  <2>1. /\ worker[w] = "send" /\ ch[w] \in ChannelIndexes /\ msg[w].valid
        /\ NextChannel(w) /\ UNCHANGED <<dead, refused, msg, dlq>>
    BY <1>3, AtSend, SendsFacts DEF SendSucceeds, LettersInv, AttemptIsTrue
  <2>2. /\ worker'[w] \in {"send", "ack"}
        /\ \A v \in Workers \ {w} : worker'[v] = worker[v] /\ ch'[v] = ch[v]
    BY <2>1, NextChannelFacts
  <2>3. AttemptIsTrue'
    <3> SUFFICES ASSUME NEW v \in Workers
                 PROVE  /\ worker'[v] \in {"send", "backoff"} => msg'[v].valid
                        /\ worker'[v] = "backoff" => <<msg'[v], ch'[v]>> \in refused'
      BY DEF AttemptIsTrue
    <3>1. CASE v = w
      BY <2>1, <2>2, <3>1
    <3>2. CASE v # w
      BY <2>1, <2>2, <3>2 DEF LettersInv, AttemptIsTrue
    <3> QED
      BY <3>1, <3>2
  <2> QED
    BY <2>1, <2>3 DEF LettersInv, DeadLettersAreTrue, ChannelIndexes
<1>4. ASSUME NEW w \in Workers, Terminate(w) PROVE LettersInv'
  BY <1>4, QuietLetters DEF Terminate, TypeOK
<1>5. ASSUME NEW w \in Workers, Start(w) \/ Cancel(w) \/ BackoffElapses(w) PROVE LettersInv'
  <2>1. \A v \in Workers :
          \/ UNCHANGED <<worker[v], msg[v], ch[v]>>
          \/ worker'[v] = "fetch"
          \/ worker'[v] = "send" /\ msg'[v].valid
    BY <1>5 DEF Start, Cancel, BackoffElapses, LettersInv, AttemptIsTrue, TypeOK
  <2> QED
    BY <1>5, <2>1, QuietLetters DEF Start, Cancel, BackoffElapses
<1>6. ASSUME NEW w \in Workers, NEW m \in Messages, Fetch(w, m) PROVE LettersInv'
  <2>1. \A v \in Workers :
          \/ UNCHANGED <<worker[v], msg[v], ch[v]>>
          \/ worker'[v] = "ack"
          \/ worker'[v] = "send" /\ msg'[v].valid
    BY <1>6 DEF Fetch, TypeOK
  <2> QED
    BY <1>6, <2>1, QuietLetters DEF Fetch
<1>7. ASSUME NEW w \in Workers, Ack(w) PROVE LettersInv'
  <2>1. \A v \in Workers : UNCHANGED <<worker[v], msg[v], ch[v]>> \/ worker'[v] \in {"down", "fetch"}
    BY <1>7 DEF Ack, AfterMessage, Terminate, TypeOK
  <2>2. \A v \in Workers : dlq'[v] = dlq[v] \/ dlq'[v] = <<>>
    BY <1>7 DEF Ack, AfterMessage, Terminate, TypeOK
  <2> QED
    BY <1>7, <2>1, <2>2, QuietLetters DEF Ack, AfterMessage, Terminate
<1>8. ASSUME NEW m \in Messages, StreamStep(m) PROVE LettersInv'
  BY <1>8, QuietLetters DEF StreamStep, Store, AckWaitEnds, Expire, workerVars
<1> QED
  BY <1>1, <1>2, <1>3, <1>4, <1>5, <1>6, <1>7, <1>8
     DEF Next, WorkerStep, Crash, FetchNothing

\* Every dead letter is of a Send that failed, whatever ended the attempts.
THEOREM DeadLettersAreAlwaysTrue == Spec => []DeadLettersAreTrue
<1>1. Init => LettersInv
  BY DEF Init, LettersInv, DeadLettersAreTrue, AttemptIsTrue
<1>2. IInv /\ LettersInv /\ [Next]_vars => LettersInv'
  <2>1. ASSUME LettersInv, UNCHANGED vars PROVE LettersInv'
    BY <2>1 DEF vars, LettersInv, DeadLettersAreTrue, AttemptIsTrue, ChannelIndexes
  <2> QED
    BY <2>1, NextLetters DEF IInv
<1> QED
  BY <1>1, <1>2, InitIInv, NextIInv, PTL DEF Spec, LettersInv
-----------------------------------------------------------------------------
(***************************************************************************)
(* What a dead letter queue keeps.  The run failures_kept finds that the   *)
(* end of a process loses the record of a failed delivery.  Without it the *)
(* record stays, until a queue has reached its capacity.                   *)
(***************************************************************************)
Holds(q, m, k) == \E j \in 1 .. Len(q) : q[j].msg = m /\ q[j].channel = k

\* What was acked without having been received is in a dead letter queue, except
\* that a queue at its capacity may have dropped it.
KeptUnlessFull ==
  \A m \in Messages, k \in ChannelIndexes :
    status[m] = "acked" /\ m.valid /\ received[m][k] = 0 /\ ~ Skips(Channels[k]) =>
      \E w \in Workers : Holds(dlq[w], m, k) \/ Len(dlq[w]) = Capacity

DeadAreKept ==
  \A m \in Messages, k \in ChannelIndexes :
    <<m, k>> \in dead => \E w \in Workers : Holds(dlq[w], m, k) \/ Len(dlq[w]) = Capacity

NeverCancelled == \A w \in Workers : ~ cancelled[w]

LEMMA PushKeeps ==
  ASSUME NEW q \in Seq(Entries), Len(q) <= Capacity, NEW e \in Entries
  PROVE  \/ Len(Push(q, e)) = Capacity
         \/ /\ Len(q) < Capacity
            /\ Holds(Push(q, e), e.msg, e.channel)
            /\ \A m, k : Holds(q, m, k) => Holds(Push(q, e), m, k)
<1>1. CASE Len(q) >= Capacity
  BY <1>1, DeliveryAssumption DEF Push
<1>2. CASE ~ (Len(q) >= Capacity)
  <2> DEFINE n == Len(q)
             p == Push(q, e)
  <2>1. /\ n \in Nat /\ n < Capacity /\ Len(p) = n + 1 /\ p[n + 1] = e
        /\ \A j \in 1 .. n : p[j] = q[j]
    BY <1>2, DeliveryAssumption DEF Push
  <2> HIDE DEF n, p
  <2>2. Holds(p, e.msg, e.channel)
    BY <2>1 DEF Holds
  <2>3. ASSUME NEW m, NEW k, NEW j \in 1 .. n, q[j].msg = m /\ q[j].channel = k
        PROVE  Holds(p, m, k)
    BY <2>1, <2>3 DEF Holds
  <2> QED
    BY <2>1, <2>2, <2>3 DEF n, p, Holds
<1> QED
  BY <1>1, <1>2

LEMMA DeadLetterKeeps ==
  ASSUME TypeOK, DeadAreKept, NEW w \in Workers, worker[w] \in {"send", "backoff"},
         DeadLetter(w)
  PROVE  DeadAreKept'
<1> DEFINE entry == [msg |-> msg[w], channel |-> ch[w]]
           next == Push(dlq[w], entry)
<1>1. /\ dlq \in [Workers -> Seq(Entries)] /\ Len(dlq[w]) <= Capacity
      /\ entry \in Entries /\ entry.msg = msg[w] /\ entry.channel = ch[w]
  BY AtSend DEF TypeOK, InPlace, Entries
<1>2. dlq' = [dlq EXCEPT ![w] = next] /\ dead' = dead \cup {<<msg[w], ch[w]>>}
  BY DEF DeadLetter
<1> HIDE DEF entry
<1>3. \/ Len(next) = Capacity
      \/ /\ Len(dlq[w]) < Capacity
         /\ Holds(next, msg[w], ch[w])
         /\ \A m, k : Holds(dlq[w], m, k) => Holds(next, m, k)
  <2>1. dlq[w] \in Seq(Entries)
    BY <1>1
  <2> QED
    BY <1>1, <2>1, PushKeeps
<1> HIDE DEF next
<1>4. dlq'[w] = next /\ \A v \in Workers \ {w} : dlq'[v] = dlq[v]
  BY <1>1, <1>2
<1>5. Capacity \in Int /\ Len(dlq[w]) \in Int
  BY <1>1, DeliveryAssumption
<1> SUFFICES ASSUME NEW m \in Messages, NEW k \in ChannelIndexes, <<m, k>> \in dead'
             PROVE  \E v \in Workers : Holds(dlq'[v], m, k) \/ Len(dlq'[v]) = Capacity
  BY DEF DeadAreKept, Holds, ChannelIndexes
<1>6. CASE Len(next) = Capacity
  BY <1>4, <1>6
<1>7. CASE Len(next) # Capacity
  <2>1. CASE m = msg[w] /\ k = ch[w]
    BY <1>3, <1>4, <1>7, <2>1
  <2>2. CASE <<m, k>> \in dead
    <3>1. PICK v \in Workers : Holds(dlq[v], m, k) \/ Len(dlq[v]) = Capacity
      BY <2>2 DEF DeadAreKept
    <3> QED
      BY <1>3, <1>4, <1>5, <1>7, <3>1
  <2> QED
    BY <1>2, <2>1, <2>2
<1> QED
  BY <1>6, <1>7

\* As long as no worker is stopped, a failed delivery leaves a record: one that is
\* missing gave way in a queue that is full.
THEOREM FailuresStayUnlessFull ==
  ASSUME FaultKinds \cap {"cancel", "crash"} = {}
  PROVE  Spec => []KeptUnlessFull
<1> DEFINE KeptInv == DeadAreKept /\ NeverCancelled
<1>1. Init => KeptInv
  BY DEF Init, DeadAreKept, NeverCancelled
<1>2. ASSUME IInv, KeptInv, Next PROVE KeptInv'
  <2>1. ~ Fault("cancel") /\ ~ Fault("crash")
    BY DEF Fault
  <2>2. ASSUME UNCHANGED <<dead, dlq>> PROVE DeadAreKept'
    BY <1>2, <2>2 DEF DeadAreKept, Holds, ChannelIndexes
  <2>3. ASSUME UNCHANGED cancelled PROVE NeverCancelled'
    BY <1>2, <2>3 DEF NeverCancelled
  <2>4. ASSUME NEW w \in Workers, Start(w) PROVE KeptInv'
    <3>1. cancelled' = [cancelled EXCEPT ![w] = FALSE] /\ UNCHANGED <<dead, dlq>>
      BY <2>4 DEF Start, historyVars
    <3> QED
      BY <1>2, <2>2, <3>1 DEF NeverCancelled, IInv, TypeOK
  <2>5. ASSUME NEW w \in Workers, SendFails(w) \/ BackoffCancelled(w) PROVE KeptInv'
    <3>1. worker[w] \in {"send", "backoff"} /\ UNCHANGED cancelled
      BY <2>5 DEF SendFails, Sends, BackoffCancelled
    <3>2. CASE DeadLetter(w)
      BY <1>2, <2>3, <3>1, <3>2, DeadLetterKeeps DEF IInv
    <3>3. CASE UNCHANGED <<dead, dlq>>
      BY <2>2, <2>3, <3>1, <3>3
    <3> QED
      BY <2>5, <3>2, <3>3 DEF SendFails, BackoffCancelled
  <2>6. ASSUME NEW w \in Workers, Ack(w) PROVE KeptInv'
    <3>1. ~ cancelled[w]
      BY <1>2 DEF NeverCancelled
    <3>2. UNCHANGED <<dead, dlq, cancelled>>
      BY <2>6, <3>1 DEF Ack, AfterMessage, historyVars
    <3> QED
      BY <2>2, <2>3, <3>2
  <2>7. ASSUME NEW w \in Workers,
               (\E m \in Messages : Fetch(w, m)) \/ SendSucceeds(w) \/ BackoffElapses(w)
        PROVE  KeptInv'
    <3>1. UNCHANGED <<dead, dlq, cancelled>>
      BY <2>7 DEF Fetch, SendSucceeds, BackoffElapses, historyVars
    <3> QED
      BY <2>2, <2>3, <3>1
  <2>8. ASSUME NEW m \in Messages, StreamStep(m) PROVE KeptInv'
    <3>1. UNCHANGED <<dead, dlq, cancelled>>
      BY <2>8 DEF StreamStep, Store, AckWaitEnds, Expire, workerVars, historyVars
    <3> QED
      BY <2>2, <2>3, <3>1
  <2>9. ASSUME NEW w \in Workers, Cancel(w) \/ Crash(w) \/ FetchNothing(w) PROVE FALSE
    BY <1>2, <2>1, <2>9 DEF Cancel, Crash, FetchNothing, NeverCancelled
  <2> QED
    BY <1>2, <2>4, <2>5, <2>6, <2>7, <2>8, <2>9 DEF Next, WorkerStep
<1>3. KeptInv /\ UNCHANGED vars => KeptInv'
  BY DEF vars, DeadAreKept, NeverCancelled, Holds, ChannelIndexes
<1>4. IInv /\ KeptInv => KeptUnlessFull
  <2> SUFFICES ASSUME IInv, KeptInv, NEW m \in Messages, NEW k \in ChannelIndexes,
                      status[m] = "acked", m.valid, received[m][k] = 0, ~ Skips(Channels[k])
               PROVE  \E w \in Workers : Holds(dlq[w], m, k) \/ Len(dlq[w]) = Capacity
    BY DEF KeptUnlessFull
  <2>1. Settled(m, k)
    BY DEF IInv, AckedIsSettled
  <2>2. <<m, k>> \in dead
    BY <2>1 DEF Settled
  <2> QED
    BY <2>2 DEF DeadAreKept
<1> HIDE DEF KeptInv
<1> QED
  BY <1>1, <1>2, <1>3, <1>4, InitIInv, NextIInv, PTL DEF Spec
=============================================================================
