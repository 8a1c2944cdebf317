------------------------------ MODULE RetryDo ------------------------------
(***************************************************************************)
(* The calls of retry.Do (pkg/retry/retry.go) that a goroutine makes with  *)
(* one context: the attempts, the waits between them and the cancellation, *)
(* which may come at any moment.                                           *)
(*                                                                         *)
(* Durations are integers; the multiplier is the fraction growth / 100.    *)
(* time.Duration(float64) truncates, which \div models.                    *)
(***************************************************************************)
EXTENDS Integers

CONSTANT Options   \* the arguments of a call: [maxAttempts, baseDelay,
                   \* maxDelay, growth], each an integer

ASSUME OptionsAssumption ==
  \A o \in Options : /\ o.maxAttempts \in Int /\ o.baseDelay \in Int
                     /\ o.maxDelay \in Int /\ o.growth \in Int

VARIABLES config,    \* the configuration after the options
          pc,        \* "call" (fn), "wait" (the select), "returned"
          attempt,   \* the loop's attempt, from 0
          delay,     \* the delay before jitter
          wait,      \* the jittered delay of the current select, 0 outside
          calls,     \* how many times fn has been called
          cancelled, \* ctx is done
          result     \* nil, ctx.Err() or ErrMaxAttemptsReached

vars == <<config, pc, attempt, delay, wait, calls, cancelled, result>>

Positive(value, default) == IF value > 0 THEN value ELSE default

\* The With... options ignore what is not positive.
Configure(o) == [maxAttempts |-> Positive(o.maxAttempts, 3),
                 baseDelay   |-> Positive(o.baseDelay, 100),
                 maxDelay    |-> Positive(o.maxDelay, 10000),
                 growth      |-> Positive(o.growth, 200)]

\* addJitter: from 75% of d up to, not including, 125%.
Jittered(d) == (3 * d) \div 4 .. IF d = 0 THEN 0 ELSE (5 * d - 1) \div 4

TypeOK ==
  /\ \E o \in Options : config = Configure(o)
  /\ pc \in {"call", "wait", "returned"}
  /\ attempt \in 0 .. config.maxAttempts - 1
  /\ delay \in Nat
  /\ wait \in Nat
  /\ calls \in Nat
  /\ cancelled \in BOOLEAN
  /\ result \in {"none", "nil", "ctxErr", "maxAttempts"}
-----------------------------------------------------------------------------
Init == /\ \E o \in Options : config = Configure(o)
        /\ pc = "call"
        /\ attempt = 0
        /\ delay = config.baseDelay
        /\ wait = 0
        /\ calls = 0
        /\ cancelled \in BOOLEAN
        /\ result = "none"

Return(r) == pc' = "returned" /\ result' = r

CallSucceeds == /\ pc = "call"
                /\ calls' = calls + 1
                /\ Return("nil")
                /\ UNCHANGED <<config, attempt, delay, wait, cancelled>>

\* Variant for the runs' mutants: maxAttempts counts the retries only.
CallFails_OneMore == /\ pc = "call"
                     /\ calls' = calls + 1
                     /\ \/ /\ attempt = config.maxAttempts
                           /\ Return("maxAttempts")
                           /\ UNCHANGED wait
                        \/ /\ attempt < config.maxAttempts
                           /\ wait' \in Jittered(delay)
                           /\ pc' = "wait"
                           /\ UNCHANGED result
                     /\ UNCHANGED <<config, attempt, delay, cancelled>>

\* After the last attempt there is no wait.
CallFails == /\ pc = "call"
             /\ calls' = calls + 1
             /\ \/ /\ attempt = config.maxAttempts - 1
                   /\ Return("maxAttempts")
                   /\ UNCHANGED wait
                \/ /\ attempt < config.maxAttempts - 1
                   /\ wait' \in Jittered(delay)
                   /\ pc' = "wait"
                   /\ UNCHANGED result
             /\ UNCHANGED <<config, attempt, delay, cancelled>>

Capped(d) == IF d > config.maxDelay THEN config.maxDelay ELSE d

\* Variant: the growth is not capped.
TimerFires_Uncapped == /\ pc = "wait"
                       /\ delay' = (delay * config.growth) \div 100
                       /\ attempt' = attempt + 1
                       /\ pc' = "call"
                       /\ wait' = 0
                       /\ UNCHANGED <<config, calls, cancelled, result>>

\* The timer, which may win the select although the context is done as well.
TimerFires == /\ pc = "wait"
              /\ delay' = Capped((delay * config.growth) \div 100)
              /\ attempt' = attempt + 1
              /\ pc' = "call"
              /\ wait' = 0
              /\ UNCHANGED <<config, calls, cancelled, result>>

\* Variant: the context is looked at before the last wait only.
ContextDone_LastOnly == /\ pc = "wait"
                        /\ cancelled
                        /\ attempt = config.maxAttempts - 2
                        /\ Return("ctxErr")
                        /\ wait' = 0
                        /\ UNCHANGED <<config, attempt, delay, calls, cancelled>>

ContextDone == /\ pc = "wait"
               /\ cancelled
               /\ Return("ctxErr")
               /\ wait' = 0
               /\ UNCHANGED <<config, attempt, delay, calls, cancelled>>

Cancel == /\ ~ cancelled
          /\ cancelled' = TRUE
          /\ UNCHANGED <<config, pc, attempt, delay, wait, calls, result>>

Step == CallSucceeds \/ CallFails \/ TimerFires \/ ContextDone

\* The next call, with the same context and any options.
Again == /\ pc = "returned"
         /\ \E o \in Options : config' = Configure(o)
         /\ pc' = "call"
         /\ attempt' = 0
         /\ delay' = config'.baseDelay
         /\ wait' = 0
         /\ calls' = 0
         /\ result' = "none"
         /\ UNCHANGED cancelled

Next == Step \/ Cancel \/ Again

Spec == Init /\ [][Next]_vars
-----------------------------------------------------------------------------
\* fn is called once per attempt, never more than maxAttempts times, and the
\* result tells what happened: maxAttempts only after all of them, a context
\* error only with attempts left and only when the context is done.
ResultIsTrue ==
  /\ calls <= config.maxAttempts
  /\ calls = IF pc = "call" THEN attempt ELSE attempt + 1
  /\ result = "maxAttempts" => calls = config.maxAttempts
  /\ result = "ctxErr" => cancelled /\ calls < config.maxAttempts

\* The growth of the delay is capped at each attempt: the delay before jitter
\* stays within maxDelay if the first one, the base delay, is within it, and
\* from the second one on if it is not; a wait stays within 125% of its delay.
DelayIsBounded ==
  /\ config.baseDelay <= config.maxDelay \/ attempt > 0 => delay <= config.maxDelay
  /\ pc = "wait" => 4 * wait <= 5 * delay

\* retry.go:73, "WithMaxDelay caps the maximum delay between retries", with 25%
\* for the jitter of retry.go:100.  The code does not cap the first delay: this
\* is true of configurations with a base delay within the maximum alone.
WaitsAreCapped == pc = "wait" => 4 * wait <= 5 * config.maxDelay

\* There is a wait only between two attempts, and a result only at the end; the
\* first delay is the base delay.
AttemptsLeft == /\ pc = "wait" => attempt < config.maxAttempts - 1
                /\ result = "none" <=> pc # "returned"
                /\ attempt = 0 => delay = config.baseDelay

IInv == TypeOK /\ ResultIsTrue /\ DelayIsBounded /\ AttemptsLeft

\* A call whose context is done returns, however long its timers are.
CancelledReturns == cancelled ~> pc = "returned"
=============================================================================
