---------------------------- MODULE MCFailurePath ----------------------------
(***************************************************************************)
(* No options but a base delay, one attempt, a growth that meets the cap,  *)
(* one that shrinks the delay to zero, and a base delay above the maximum. *)
(* Three letters, capacity three and one drain: a full queue shifts before *)
(* the drain, beside the array that was given away, and after it.          *)
(***************************************************************************)
EXTENDS FailurePath

Opts(maxAttempts, baseDelay, maxDelay, growth) ==
  [maxAttempts |-> maxAttempts, baseDelay |-> baseDelay,
   maxDelay |-> maxDelay, growth |-> growth]

MCOptions == { Opts(0, 4, -1, 0), Opts(1, 0, 0, 0), Opts(4, 10, 15, 200),
               Opts(3, 1, 5, 50), Opts(2, 20, 10, 150) }

MCLetters == { [error |-> "maxAttempts", id |-> 1], [error |-> "ctxErr", id |-> 1],
               [error |-> "ctxErr", id |-> 2] }
=============================================================================
