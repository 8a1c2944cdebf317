----------------------------- MODULE MCAnalytics -----------------------------
(***************************************************************************)
(* Two recorders, two readers, and four calls on two channels: two         *)
(* successes of one channel with different latencies, and a failure of     *)
(* each.                                                                   *)
(***************************************************************************)
EXTENDS Analytics

Call(id, channel, ok, ms) == [id |-> id, channel |-> channel, ok |-> ok, ms |-> ms]

MCCalls == { Call(1, "webhook", TRUE, 10), Call(2, "webhook", TRUE, 30),
             Call(3, "webhook", FALSE, 0), Call(4, "slack", FALSE, 0) }
=============================================================================
