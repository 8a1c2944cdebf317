------------------------------ MODULE Delivery ------------------------------
(***************************************************************************)
(* The delivery workers (internal/delivery/worker.go with the retry loop   *)
(* of pkg/retry, run by cmd/delivery-worker/main.go) and the JetStream     *)
(* work-queue stream they consume.                                         *)
(*                                                                         *)
(* The workers share the durable consumer "delivery-worker"; each has its  *)
(* own dead letter queue, in memory.  JetStream is external: a message is  *)
(* handed to one fetch, handed out again when it is not acked within       *)
(* AckWait (30 s by default), deleted when acked and dropped at MaxAge.    *)
(***************************************************************************)
EXTENDS DeliveryChannels, FiniteSets

CONSTANTS Messages,     \* what the stream may hold: records with a field valid
          NoMessage,
          Workers,      \* delivery-worker processes
          MaxAttempts,  \* the 3 of retry.WithMaxAttempts
          Capacity,     \* capacity of a dead letter queue
          SlowAttempts, \* attempts a worker makes before AckWait can run out
          FaultKinds,   \* the faults that may happen, among AllFaults
          MaxFaults     \* bound: how many

\* SIGTERM, a crash, an ack that does not arrive, and a redelivery of a
\* message that a live worker is still handling.
AllFaults == {"cancel", "crash", "lostAck", "slow"}

ASSUME DeliveryAssumption ==
  /\ NoMessage \notin Messages
  /\ \A m \in Messages : m.valid \in BOOLEAN
  /\ MaxAttempts \in Nat \ {0}
  /\ Capacity \in Nat \ {0}
  /\ FaultKinds \subseteq AllFaults
  /\ SlowAttempts \in Nat /\ MaxFaults \in Nat

VARIABLES status,    \* status[m] in the stream
          received,  \* received[m][k]: times channel k has got m
          dead,      \* history: the <<m, k>> that a worker has dead-lettered
          refused,   \* history: the <<m, k>> with a failed Send
          worker,    \* what each worker is doing
          cancelled, \* cancelled[w]: its context is cancelled
          msg,       \* the message it is handling
          ch,        \* the index in w.channels of the channel it is at
          attempt,   \* the attempt of retry.Do it is at
          tried,     \* attempts made since the message was fetched
          dlq,       \* its dead letter queue
          faults     \* faults so far (bounded)

vars == <<status, received, dead, refused, worker, cancelled, msg, ch, attempt,
          tried, dlq, faults>>

ChannelIndexes == 1 .. Len(Channels)

\* A message is not stored yet, waiting for a fetch, fetched and not acked,
\* acked (and deleted), or deleted by age.
StatusValues == {"absent", "pending", "outstanding", "acked", "expired"}

WorkerStates == {"down", "fetch", "send", "backoff", "ack"}

Entries == [msg : Messages, channel : ChannelIndexes]

\* A worker that has a message has one of its channels, until it is through.
InPlace(w) ==
  /\ worker[w] \in {"send", "backoff", "ack"} => msg[w] # NoMessage
  /\ worker[w] \in {"send", "backoff"} => ch[w] \in ChannelIndexes
  /\ worker[w] = "backoff" => attempt[w] < MaxAttempts
  /\ Len(dlq[w]) <= Capacity

TypeOK ==
  /\ status \in [Messages -> StatusValues]
  /\ received \in [Messages -> [ChannelIndexes -> Nat]]
  /\ dead \subseteq Messages \X ChannelIndexes
  /\ refused \subseteq Messages \X ChannelIndexes
  /\ worker \in [Workers -> WorkerStates]
  /\ cancelled \in [Workers -> BOOLEAN]
  /\ msg \in [Workers -> Messages \cup {NoMessage}]
  /\ ch \in [Workers -> 1 .. Len(Channels) + 1]
  /\ attempt \in [Workers -> 1 .. MaxAttempts]
  /\ tried \in [Workers -> Nat]
  /\ dlq \in [Workers -> Seq(Entries)]
  /\ faults \in 0 .. MaxFaults
  /\ \A w \in Workers : InPlace(w)
-----------------------------------------------------------------------------
Init == /\ status = [m \in Messages |-> "absent"]
        /\ received = [m \in Messages |-> [k \in ChannelIndexes |-> 0]]
        /\ dead = {}
        /\ refused = {}
        /\ worker = [w \in Workers |-> "down"]
        /\ cancelled = [w \in Workers |-> FALSE]
        /\ msg = [w \in Workers |-> NoMessage]
        /\ ch = [w \in Workers |-> 1]
        /\ attempt = [w \in Workers |-> 1]
        /\ tried = [w \in Workers |-> 0]
        /\ dlq = [w \in Workers |-> <<>>]
        /\ faults = 0

workerVars == <<worker, cancelled, msg, ch, attempt, tried, dlq>>
historyVars == <<received, dead, refused>>

Fault(kind) == /\ kind \in FaultKinds
               /\ faults < MaxFaults
               /\ faults' = faults + 1

\* The worker has m and has not been through with it.
Handles(w, m) == worker[w] \in {"send", "backoff", "ack"} /\ msg[w] = m

(***************************************************************************)
(* The stream.                                                             *)
(***************************************************************************)
Store(m) == /\ status[m] = "absent"
            /\ status' = [status EXCEPT ![m] = "pending"]
            /\ UNCHANGED <<workerVars, historyVars, faults>>

\* AckWait has run out.  If a live worker has the message it was too slow.
AckWaitEnds(m) ==
  /\ status[m] = "outstanding"
  /\ status' = [status EXCEPT ![m] = "pending"]
  /\ \/ (\A w \in Workers : ~ Handles(w, m)) /\ UNCHANGED faults
     \/ (\E w \in Workers : Handles(w, m) /\ tried[w] >= SlowAttempts) /\ Fault("slow")
  /\ UNCHANGED <<workerVars, historyVars>>

\* MaxAge deletes a message whether it was delivered or not.
Expire(m) == /\ status[m] \in {"pending", "outstanding"}
             /\ status' = [status EXCEPT ![m] = "expired"]
             /\ UNCHANGED <<workerVars, historyVars, faults>>

(***************************************************************************)
(* The worker's loop.                                                      *)
(***************************************************************************)
Start(w) == /\ worker[w] = "down"
            /\ worker' = [worker EXCEPT ![w] = "fetch"]
            /\ cancelled' = [cancelled EXCEPT ![w] = FALSE]
            /\ UNCHANGED <<status, historyVars, msg, ch, attempt, tried, dlq, faults>>

\* SIGTERM.  The worker notices after a fetch, or inside retry.Do.
Cancel(w) == /\ worker[w] # "down"
             /\ ~ cancelled[w]
             /\ cancelled' = [cancelled EXCEPT ![w] = TRUE]
             /\ Fault("cancel")
             /\ UNCHANGED <<status, historyVars, worker, msg, ch, attempt, tried, dlq>>

\* The end of the process takes the dead letter queue with it.
Terminate(w) == /\ worker' = [worker EXCEPT ![w] = "down"]
                /\ msg' = [msg EXCEPT ![w] = NoMessage]
                /\ dlq' = [dlq EXCEPT ![w] = <<>>]
                /\ UNCHANGED <<historyVars, cancelled, ch, attempt, tried>>

Crash(w) == /\ worker[w] # "down"
            /\ Terminate(w)
            /\ Fault("crash")
            /\ UNCHANGED status

\* Variant: the stream takes a message as acked when it is fetched (no
\* AckExplicitPolicy).
Fetch_AcksFirst(w, m) ==
  /\ worker[w] = "fetch"
  /\ status[m] = "pending"
  /\ status' = [status EXCEPT ![m] = "acked"]
  /\ msg' = [msg EXCEPT ![w] = m]
  /\ ch' = [ch EXCEPT ![w] = 1]
  /\ attempt' = [attempt EXCEPT ![w] = 1]
  /\ tried' = [tried EXCEPT ![w] = 0]
  /\ worker' = [worker EXCEPT ![w] = IF m.valid THEN "send" ELSE "ack"]
  /\ UNCHANGED <<historyVars, cancelled, dlq, faults>>

\* handleMessage acks a message that is not JSON at once.  A message may still
\* be fetched after the cancellation: Fetch does not know the context.
Fetch(w, m) ==
  /\ worker[w] = "fetch"
  /\ status[m] = "pending"
  /\ status' = [status EXCEPT ![m] = "outstanding"]
  /\ msg' = [msg EXCEPT ![w] = m]
  /\ ch' = [ch EXCEPT ![w] = 1]
  /\ attempt' = [attempt EXCEPT ![w] = 1]
  /\ tried' = [tried EXCEPT ![w] = 0]
  /\ worker' = [worker EXCEPT ![w] = IF m.valid THEN "send" ELSE "ack"]
  /\ UNCHANGED <<historyVars, cancelled, dlq, faults>>

\* A fetch that brings nothing, with the context cancelled: Run returns.
FetchNothing(w) == /\ worker[w] = "fetch"
                   /\ cancelled[w]
                   /\ Terminate(w)
                   /\ UNCHANGED <<status, faults>>

\* On to the next channel, or to the ack after the last one.
NextChannel(w) ==
  /\ ch' = [ch EXCEPT ![w] = @ + 1]
  /\ attempt' = [attempt EXCEPT ![w] = 1]
  /\ worker' = [worker EXCEPT ![w] = IF ch[w] < Len(Channels) THEN "send" ELSE "ack"]

\* Variant for the runs' mutants: the queue outgrows its capacity by one.
Push_OneMore(q, entry) == Append(IF Len(q) > Capacity THEN Tail(q) ELSE q, entry)

\* Memory.Push: the oldest entry gives way when the queue is full.
Push(q, entry) == Append(IF Len(q) >= Capacity THEN Tail(q) ELSE q, entry)

\* retry.Do has returned an error.
DeadLetter(w) ==
  /\ dead' = dead \cup {<<msg[w], ch[w]>>}
  /\ dlq' = [dlq EXCEPT ![w] = Push(@, [msg |-> msg[w], channel |-> ch[w]])]
  /\ NextChannel(w)

Receives(w) == received' = [received EXCEPT ![msg[w]][ch[w]] = @ + 1]

\* A call of Send at w's channel; ok tells whether it returns nil.
Sends(w, ok) ==
  /\ worker[w] = "send"
  /\ \E o \in Outcomes(Channels[ch[w]], cancelled[w]) :
       /\ o.ok = ok
       /\ IF o.reached THEN Receives(w) ELSE UNCHANGED received

\* Variant: the error of Send decides nothing.
SendSucceeds_Repeats(w) ==
  /\ Sends(w, TRUE)
  /\ attempt[w] < MaxAttempts
  /\ attempt' = [attempt EXCEPT ![w] = @ + 1]
  /\ UNCHANGED <<status, dead, refused, worker, ch, tried, cancelled, msg, dlq, faults>>

SendSucceeds(w) ==
  /\ Sends(w, TRUE)
  /\ tried' = [tried EXCEPT ![w] = @ + 1]
  /\ NextChannel(w)
  /\ UNCHANGED <<status, dead, refused, cancelled, msg, dlq, faults>>

\* After the last attempt retry.Do gives up.
SendFails(w) ==
  /\ Sends(w, FALSE)
  /\ refused' = refused \cup {<<msg[w], ch[w]>>}
  /\ tried' = [tried EXCEPT ![w] = @ + 1]
  /\ \/ /\ attempt[w] = MaxAttempts
        /\ DeadLetter(w)
     \/ /\ attempt[w] < MaxAttempts
        /\ worker' = [worker EXCEPT ![w] = "backoff"]
        /\ UNCHANGED <<dead, dlq, ch, attempt>>
  /\ UNCHANGED <<status, cancelled, msg, faults>>

\* Variant: the channel is skipped without a dead letter.
BackoffCancelled_Skips(w) == /\ worker[w] = "backoff"
                             /\ cancelled[w]
                             /\ NextChannel(w)
                             /\ UNCHANGED <<status, received, dead, refused,
                                            cancelled, msg, tried, dlq, faults>>

\* The select between two attempts.
BackoffCancelled(w) == /\ worker[w] = "backoff"
                       /\ cancelled[w]
                       /\ DeadLetter(w)
                       /\ UNCHANGED <<status, received, refused, cancelled, msg,
                                      tried, faults>>

BackoffElapses(w) == /\ worker[w] = "backoff"
                     /\ worker' = [worker EXCEPT ![w] = "send"]
                     /\ attempt' = [attempt EXCEPT ![w] = @ + 1]
                     /\ UNCHANGED <<status, historyVars, cancelled, msg, ch,
                                    tried, dlq, faults>>

\* After the ack Run looks at the context once more.
AfterMessage(w) ==
  IF cancelled[w]
  THEN Terminate(w)
  ELSE /\ worker' = [worker EXCEPT ![w] = "fetch"]
       /\ msg' = [msg EXCEPT ![w] = NoMessage]
       /\ UNCHANGED <<historyVars, cancelled, ch, attempt, tried, dlq>>

\* Variant: nothing is acked.
Ack_Forgotten(w) == /\ worker[w] = "ack"
                    /\ AfterMessage(w)
                    /\ UNCHANGED <<status, faults>>

\* An ack counts even if the message is waiting for its redelivery; Ack's
\* error is ignored, so a lost one leaves the message to AckWait.
Ack(w) ==
  /\ worker[w] = "ack"
  /\ \/ /\ status' = [status EXCEPT ![msg[w]] = IF @ = "expired" THEN @ ELSE "acked"]
        /\ UNCHANGED faults
     \/ UNCHANGED status /\ Fault("lostAck")
  /\ AfterMessage(w)

WorkerStep(w) == \/ \E m \in Messages : Fetch(w, m)
                 \/ FetchNothing(w)
                 \/ SendSucceeds(w) \/ SendFails(w)
                 \/ BackoffCancelled(w) \/ BackoffElapses(w)
                 \/ Ack(w)

StreamStep(m) == Store(m) \/ AckWaitEnds(m) \/ Expire(m)

Next == \/ \E w \in Workers : Start(w) \/ Cancel(w) \/ Crash(w) \/ WorkerStep(w)
        \/ \E m \in Messages : StreamStep(m)

Spec == Init /\ [][Next]_vars

\* Workers are restarted and keep running, and the server redelivers.  Faults
\* are bounded; sends need never succeed.
Fairness == /\ \A w \in Workers : WF_vars(Start(w)) /\ WF_vars(WorkerStep(w))
            /\ \A m \in Messages : WF_vars(AckWaitEnds(m))

FairSpec == Spec /\ Fairness
-----------------------------------------------------------------------------
\* A channel has got m, or has a dead letter for it, or lacks the settings to
\* send anything.
Settled(m, k) == \/ received[m][k] > 0
                 \/ <<m, k>> \in dead
                 \/ Skips(Channels[k])

\* Before the ack every channel has been dealt with: a worker that is at
\* channel k has sent to, or dead-lettered for, each channel before k.
ProgressIsSettled ==
  \A w \in Workers :
    worker[w] \in {"send", "backoff", "ack"} /\ msg[w].valid =>
      /\ \A k \in ChannelIndexes : k < ch[w] => Settled(msg[w], k)
      /\ worker[w] = "ack" => ch[w] = Len(Channels) + 1

\* A notification leaves the stream by an ack only when every channel has got
\* it or has dead-lettered it, through crashes, restarts, redeliveries to
\* another worker and cancellations; only what is not JSON is acked otherwise.
AckedIsSettled ==
  \A m \in Messages : status[m] = "acked" /\ m.valid =>
    \A k \in ChannelIndexes : Settled(m, k)

\* A channel whose Send never failed for a message gets it once for each time
\* it is handed out at most, and it is handed out again only after a fault.
NoSpuriousDuplicates ==
  \A m \in Messages, k \in ChannelIndexes :
    <<m, k>> \notin refused => received[m][k] <= 1 + faults

\* Every stored message is acked or reaches its MaxAge, once the faults end.
StoredIsSettled ==
  \A m \in Messages : status[m] = "pending" ~> status[m] \in {"acked", "expired"}

\* The workers and the stream implement at-least-once delivery: whatever the
\* redeliveries, retries, dead letters and restarts do, a step settles channels
\* of one message, or takes it out of the stream by age, or by an ack after all
\* of its channels.
StateOf(s) == IF s \in {"pending", "outstanding"} THEN "stored" ELSE s

Abstract == INSTANCE AtLeastOnce WITH
              Deliverable <- {m \in Messages : m.valid},
              Targets <- ChannelIndexes,
              Exempt <- {k \in ChannelIndexes : Skips(Channels[k])},
              state <- [m \in Messages |-> StateOf(status[m])],
              settled <- [m \in Messages |-> {k \in ChannelIndexes : Settled(m, k)}]

ImplementsAtLeastOnce == Abstract!Spec

\* dlq.go:7: a message that cannot be processed is safely stored for later
\* inspection and replay.  A notification that is gone from the stream and that
\* a channel did not get should be in some dead letter queue.
FailuresAreKept ==
  \A m \in Messages, k \in ChannelIndexes :
    status[m] = "acked" /\ m.valid /\ received[m][k] = 0 =>
      \E w \in Workers : \E j \in 1 .. Len(dlq[w]) :
        dlq[w][j].msg = m /\ dlq[w][j].channel = k

\* channel.go:6: "Each channel is independent".  A channel that accepts all it
\* is sent should get each notification once however the others fail, when no
\* worker stops and no ack is lost: the run has no other fault than "slow".
ChannelsAreIndependent ==
  \A m \in Messages, k \in ChannelIndexes :
    <<m, k>> \notin refused => received[m][k] <= 1
=============================================================================
