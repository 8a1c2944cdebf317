----------------------------- MODULE FailurePath -----------------------------
(***************************************************************************)
(* The loop of Worker.handleMessage (internal/delivery/worker.go): a call  *)
(* of retry.Do for one channel after the other, all with the context of    *)
(* the process, and what they fail with pushed to the dead letter queue,   *)
(* which is drained at any time.  Delivery has the same loop without       *)
(* durations and arrays, and with the messages, channels and crashes that  *)
(* are left out here.                                                      *)
(***************************************************************************)
EXTENDS RetryDo, DeadLetterQueue

\* A letter has an error, which Do returned; whatever it is, one may be written.
ASSUME LettersAssumption ==
  \A e \in {"ctxErr", "maxAttempts"} : \E x \in Letters : x.error = e

pathVars == <<vars, memoryVars>>
-----------------------------------------------------------------------------
InitPath == Init /\ InitMemory

InDo(A) == A /\ UNCHANGED memoryVars

\* err # nil: the letter is pushed before the next channel's turn.
Record == /\ result \in {"ctxErr", "maxAttempts"}
          /\ \E x \in Letters : x.error = result /\ Push(x)
          /\ Again

Delivered == /\ result = "nil"
             /\ InDo(Again)

Replay == /\ Drain
          /\ UNCHANGED vars

NextPath == InDo(Step \/ Cancel) \/ Record \/ Delivered \/ Replay

SpecPath == InitPath /\ [][NextPath]_pathVars

\* fn returns and a select sees a done context.  A timer need not fire: what a
\* cancelled call does must not depend on how long its wait is.
FairSpecPath == /\ SpecPath
                /\ WF_pathVars(InDo(CallSucceeds \/ CallFails))
                /\ WF_pathVars(InDo(ContextDone))
=============================================================================
