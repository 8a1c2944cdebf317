---------------------------- MODULE RetryDoProofs ----------------------------
(***************************************************************************)
(* The calls of retry.Do, for every choice of the options: the number of   *)
(* calls of fn, the truth of the result and the bound of the delays.       *)
(***************************************************************************)
EXTENDS RetryDo, TLAPS

\* The options cannot make the configuration anything but positive.
LEMMA ConfigType ==
  ASSUME NEW o \in Options
  PROVE  /\ Configure(o).maxAttempts \in Nat \ {0}
         /\ Configure(o).baseDelay \in Nat \ {0}
         /\ Configure(o).maxDelay \in Nat \ {0}
         /\ Configure(o).growth \in Nat \ {0}
<1>1. ASSUME NEW v \in Int, NEW d \in Nat \ {0}
      PROVE  Positive(v, d) \in Nat \ {0}
  BY DEF Positive
<1>2. /\ o.maxAttempts \in Int /\ o.baseDelay \in Int
      /\ o.maxDelay \in Int /\ o.growth \in Int
  BY OptionsAssumption
<1>3. /\ Configure(o).maxAttempts = Positive(o.maxAttempts, 3)
      /\ Configure(o).baseDelay = Positive(o.baseDelay, 100)
      /\ Configure(o).maxDelay = Positive(o.maxDelay, 10000)
      /\ Configure(o).growth = Positive(o.growth, 200)
  BY DEF Configure
<1>4. /\ 3 \in Nat \ {0} /\ 100 \in Nat \ {0}
      /\ 10000 \in Nat \ {0} /\ 200 \in Nat \ {0}
  OBVIOUS
<1>5. Positive(o.maxAttempts, 3) \in Nat \ {0}
  BY <1>1, <1>2, <1>4
<1>6. Positive(o.baseDelay, 100) \in Nat \ {0}
  BY <1>1, <1>2, <1>4
<1>7. Positive(o.maxDelay, 10000) \in Nat \ {0}
  BY <1>1, <1>2, <1>4
<1>8. Positive(o.growth, 200) \in Nat \ {0}
  BY <1>1, <1>2, <1>4
<1> QED
  BY <1>3, <1>5, <1>6, <1>7, <1>8

\* The same of the state's configuration.
LEMMA StateConfig ==
  ASSUME TypeOK
  PROVE  /\ config.maxAttempts \in Nat \ {0} /\ config.baseDelay \in Nat \ {0}
         /\ config.maxDelay \in Nat \ {0} /\ config.growth \in Nat \ {0}
  BY ConfigType DEF TypeOK

\* Jitter stays below 125% of the delay.
LEMMA JitterBound ==
  ASSUME NEW d \in Nat, NEW j \in Jittered(d)
  PROVE  j \in Nat /\ 4 * j <= 5 * d
<1>1. CASE d = 0
  BY <1>1 DEF Jittered
<1>2. CASE d # 0
  BY <1>2 DEF Jittered
<1> QED
  BY <1>1, <1>2

\* Growing a delay by a positive fraction, truncated, leaves a natural number.
LEMMA GrownDelay ==
  ASSUME NEW d \in Nat, NEW g \in Nat
  PROVE  (d * g) \div 100 \in Nat
<1>1. d * g \in Nat
  OBVIOUS
<1>2. ASSUME NEW n \in Nat PROVE n \div 100 \in Nat
  OBVIOUS
<1> QED
  BY <1>1, <1>2

LEMMA RetryInit == Init => IInv
<1> SUFFICES ASSUME Init PROVE IInv
  OBVIOUS
<1>1. PICK o \in Options : config = Configure(o)
  BY DEF Init
<1>2. /\ config.maxAttempts \in Nat \ {0} /\ config.baseDelay \in Nat \ {0}
  BY <1>1, ConfigType
<1> QED
  BY <1>1, <1>2 DEF Init, IInv, TypeOK, ResultIsTrue, DelayIsBounded, AttemptsLeft

LEMMA RetryNext == IInv /\ [Next]_vars => IInv'
<1> SUFFICES ASSUME IInv, [Next]_vars PROVE IInv'
  OBVIOUS
<1> DEFINE Configured == \E o \in Options : config = Configure(o)
<1>0. /\ config.maxAttempts \in Nat \ {0} /\ config.baseDelay \in Nat \ {0}
      /\ config.maxDelay \in Nat \ {0} /\ config.growth \in Nat \ {0}
      /\ attempt \in Nat /\ attempt <= config.maxAttempts - 1
      /\ delay \in Nat /\ wait \in Nat /\ calls \in Nat
      /\ Configured
  BY StateConfig DEF IInv, TypeOK
<1> HIDE DEF Configured
<1> USE DEF IInv, ResultIsTrue, DelayIsBounded, AttemptsLeft
<1>1. ASSUME config' = config, cancelled' \in BOOLEAN, delay' \in Nat, wait' \in Nat,
             calls' \in Nat, pc' \in {"call", "wait", "returned"},
             result' \in {"none", "nil", "ctxErr", "maxAttempts"},
             attempt' \in 0 .. config.maxAttempts - 1
      PROVE  TypeOK'
  BY <1>0, <1>1 DEF TypeOK, Configured
<1>2. CASE CallSucceeds
  BY <1>0, <1>1, <1>2 DEF CallSucceeds, Return, TypeOK
<1>3. CASE CallFails
  <2>0. /\ pc = "call" /\ calls' = calls + 1 /\ result = "none"
        /\ config' = config /\ attempt' = attempt /\ delay' = delay
        /\ cancelled' = cancelled /\ cancelled \in BOOLEAN
    BY <1>3 DEF CallFails, TypeOK
  <2>1. CASE attempt = config.maxAttempts - 1
    <3>1. pc' = "returned" /\ result' = "maxAttempts" /\ wait' = wait
      BY <1>0, <1>3, <2>1 DEF CallFails, Return
    <3>2. TypeOK'
      BY <1>0, <1>1, <2>0, <3>1
    <3>3. calls = attempt /\ calls' = config.maxAttempts
      BY <1>0, <2>0, <2>1
    <3> QED
      BY <1>0, <2>0, <2>1, <3>1, <3>2, <3>3
  <2>2. CASE attempt < config.maxAttempts - 1
    <3>1. wait' \in Jittered(delay) /\ pc' = "wait" /\ result' = result
      BY <1>0, <1>3, <2>2 DEF CallFails
    <3>2. wait' \in Nat /\ 4 * wait' <= 5 * delay
      BY <1>0, <3>1, JitterBound
    <3>3. TypeOK'
      BY <1>0, <1>1, <2>0, <3>1, <3>2
    <3>4. calls = attempt
      BY <2>0
    <3>5. ResultIsTrue'
      BY <1>0, <2>0, <2>2, <3>1, <3>4
    <3>6. DelayIsBounded'
      BY <2>0, <3>1, <3>2
    <3>7. AttemptsLeft'
      BY <2>0, <2>2, <3>1
    <3> QED
      BY <3>3, <3>5, <3>6, <3>7
  <2> QED
    BY <1>0, <2>1, <2>2
<1>4. CASE TimerFires
  <2>1. (delay * config.growth) \div 100 \in Nat
    BY <1>0, GrownDelay
  <2>2. delay' \in Nat /\ delay' <= config.maxDelay
    BY <1>0, <1>4, <2>1 DEF TimerFires, Capped
  <2> QED
    BY <1>0, <1>1, <1>4, <2>2 DEF TimerFires, TypeOK
<1>5. CASE ContextDone
  BY <1>0, <1>1, <1>5 DEF ContextDone, Return, TypeOK
<1>6. CASE Cancel
  BY <1>0, <1>1, <1>6 DEF Cancel, TypeOK
<1>7. CASE Again
  <2>1. PICK o \in Options : config' = Configure(o)
    BY <1>7 DEF Again
  <2>2. /\ config'.maxAttempts \in Nat \ {0} /\ config'.baseDelay \in Nat \ {0}
    BY <2>1, ConfigType
  <2>3. /\ pc' = "call" /\ attempt' = 0 /\ delay' = config'.baseDelay /\ wait' = 0
        /\ calls' = 0 /\ result' = "none" /\ cancelled' = cancelled /\ cancelled \in BOOLEAN
    BY <1>7 DEF Again, TypeOK
  <2>4. attempt' \in 0 .. config'.maxAttempts - 1 /\ delay' \in Nat
    BY <2>2, <2>3
  <2>5. TypeOK'
    BY <2>1, <2>3, <2>4 DEF TypeOK
  <2> QED
    BY <2>2, <2>3, <2>4, <2>5
<1>8. CASE UNCHANGED vars
  BY <1>8 DEF vars, TypeOK
<1> QED
  BY <1>2, <1>3, <1>4, <1>5, <1>6, <1>7, <1>8 DEF Next, Step

\* Whatever the options are, fn is called at most maxAttempts times and the
\* result of Do tells how it ended.
THEOREM ResultIsAlwaysTrue == Spec => []ResultIsTrue
<1>1. IInv => ResultIsTrue
  BY DEF IInv
<1> QED
  BY RetryInit, RetryNext, <1>1, PTL DEF Spec

\* Whatever the options are, no delay exceeds maxDelay but a first one whose base
\* does, and no wait exceeds its delay by more than a quarter.
THEOREM DelayIsAlwaysBounded == Spec => [](TypeOK /\ DelayIsBounded)
<1>1. IInv => TypeOK /\ DelayIsBounded
  BY DEF IInv
<1> QED
  BY RetryInit, RetryNext, <1>1, PTL DEF Spec

\* How far WithMaxDelay keeps its word: the waits of a call whose base delay is
\* within the maximum are all capped, and of any other call all but the first.
THEOREM OnlyTheBaseDelayExceeds ==
  Spec => [](config.baseDelay <= config.maxDelay \/ attempt > 0 => WaitsAreCapped)
<1>1. ASSUME IInv, config.baseDelay <= config.maxDelay \/ attempt > 0
      PROVE  WaitsAreCapped
  <2>1. delay \in Nat /\ wait \in Nat /\ config.maxDelay \in Nat
    BY <1>1, StateConfig DEF IInv, TypeOK
  <2>2. delay <= config.maxDelay /\ (pc = "wait" => 4 * wait <= 5 * delay)
    BY <1>1 DEF IInv, DelayIsBounded
  <2> QED
    BY <2>1, <2>2 DEF WaitsAreCapped
<1>2. IInv => (config.baseDelay <= config.maxDelay \/ attempt > 0 => WaitsAreCapped)
  BY <1>1
<1> QED
  BY RetryInit, RetryNext, <1>2, PTL DEF Spec
-----------------------------------------------------------------------------
(***************************************************************************)
(* Do ends, and its waits grow.                                            *)
(***************************************************************************)
LEMMA RetryInvariant == Spec => []IInv
BY RetryInit, RetryNext, PTL DEF Spec

\* The steps that a call of Do may still take: two per attempt that is left, and the
\* cancellation of its context.
StepsLeft ==
  (CASE pc = "call"     -> 2 * (config.maxAttempts - attempt)
     [] pc = "wait"     -> 2 * (config.maxAttempts - attempt) - 1
     [] pc = "returned" -> 0)
  + (IF cancelled THEN 0 ELSE 1)

\* Every step uses one up, until the next call.
ComesToAnEnd == \/ Again
                \/ StepsLeft \in Nat /\ StepsLeft' \in Nat /\ StepsLeft' < StepsLeft

\* No options, and no moment of a cancellation, make Do retry for ever: a call takes
\* at most 2 * maxAttempts + 1 steps.
THEOREM DoComesToAnEnd == Spec => [][ComesToAnEnd]_vars
<1>1. ASSUME IInv, Next PROVE ComesToAnEnd
  <2>1. /\ config.maxAttempts \in Nat \ {0} /\ attempt \in Nat
        /\ attempt <= config.maxAttempts - 1 /\ cancelled \in BOOLEAN
        /\ pc = "wait" => attempt < config.maxAttempts - 1
    BY <1>1, StateConfig DEF IInv, TypeOK, AttemptsLeft
  <2> DEFINE left(at, place) == CASE place = "call"     -> 2 * (config.maxAttempts - at)
                                  [] place = "wait"     -> 2 * (config.maxAttempts - at) - 1
                                  [] place = "returned" -> 0
  <2>2. /\ left(attempt, "call") \in Nat /\ left(attempt, "call") > 1
        /\ left(attempt, "wait") = left(attempt, "call") - 1
        /\ left(attempt + 1, "call") = left(attempt, "call") - 2
        /\ left(attempt, "returned") = 0
    BY <2>1
  <2>3. config' = config => StepsLeft' = left(attempt', pc') + (IF cancelled' THEN 0 ELSE 1)
    BY DEF StepsLeft
  <2>4. StepsLeft = left(attempt, pc) + (IF cancelled THEN 0 ELSE 1)
    BY DEF StepsLeft
  <2> HIDE DEF left
  <2>5. CASE CallSucceeds
    BY <2>1, <2>2, <2>3, <2>4, <2>5 DEF CallSucceeds, Return, ComesToAnEnd
  <2>6. CASE CallFails
    <3>1. /\ pc = "call" /\ pc' \in {"wait", "returned"}
          /\ UNCHANGED <<config, attempt, cancelled>>
      BY <2>6 DEF CallFails, Return
    <3> QED
      BY <2>1, <2>2, <2>3, <2>4, <3>1 DEF ComesToAnEnd
  <2>7. CASE TimerFires
    BY <2>1, <2>2, <2>3, <2>4, <2>7 DEF TimerFires, ComesToAnEnd
  <2>8. CASE ContextDone
    BY <2>1, <2>2, <2>3, <2>4, <2>8 DEF ContextDone, Return, ComesToAnEnd
  <2>9. CASE Cancel
    <3>1. /\ pc \in {"call", "wait", "returned"} /\ ~ cancelled /\ cancelled'
          /\ UNCHANGED <<config, attempt, pc>>
      BY <1>1, <2>9 DEF Cancel, IInv, TypeOK
    <3> QED
      BY <2>1, <2>2, <2>3, <2>4, <3>1 DEF ComesToAnEnd
  <2> QED
    BY <1>1, <2>5, <2>6, <2>7, <2>8, <2>9 DEF Next, Step, ComesToAnEnd
<1>2. IInv /\ [Next]_vars => [ComesToAnEnd]_vars
  BY <1>1
<1> QED
  BY <1>2, RetryInvariant, PTL DEF Spec

\* The waits of a call never get shorter, if the multiplier is at least 1 and the base delay does
\* not exceed the maximum.  Do asks for neither: with a base above the maximum the first
\* wait is the longest, and a multiplier below 1 shrinks them to nothing.
BacksOff ==
  Again \/ (config.growth >= 100 /\ config.baseDelay <= config.maxDelay => delay' >= delay)

\* The backoff backs off, truncation and cap included.
THEOREM BackoffNeverShrinks == Spec => [][BacksOff]_vars
<1>1. ASSUME IInv, Next PROVE BacksOff
  <2> SUFFICES ASSUME config.growth >= 100, config.baseDelay <= config.maxDelay, ~ Again
               PROVE  delay' >= delay
    BY DEF BacksOff
  <2>1. /\ config.growth \in Nat /\ config.baseDelay \in Nat /\ config.maxDelay \in Nat
        /\ delay \in Nat /\ delay <= config.maxDelay
    BY <1>1, StateConfig DEF IInv, TypeOK, DelayIsBounded
  <2>2. CASE TimerFires
    <3> DEFINE product == delay * config.growth
    <3>1. product \in Nat /\ product >= delay * 100
      BY <2>1
    <3>2. product \div 100 >= delay
      <4> HIDE DEF product
      <4> QED BY <2>1, <3>1
    <3>3. delay' = Capped(product \div 100)
      BY <2>2 DEF TimerFires
    <3> QED
      BY <2>1, <3>2, <3>3 DEF Capped
  <2>3. CASE ~ TimerFires
    BY <1>1, <2>1, <2>3 DEF Next, Step, CallSucceeds, CallFails, ContextDone, Cancel
  <2> QED
    BY <2>2, <2>3
<1>2. IInv /\ [Next]_vars => [BacksOff]_vars
  BY <1>1
<1> QED
  BY <1>2, RetryInvariant, PTL DEF Spec
=============================================================================
