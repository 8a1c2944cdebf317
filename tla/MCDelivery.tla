----------------------------- MODULE MCDelivery -----------------------------
(***************************************************************************)
(* Two workers, the log and a webhook, a notification and a message that   *)
(* is not JSON.  With Capacity 1 a dead letter queue is full when a        *)
(* redelivered notification fails again at the same worker.  The status    *)
(* codes are one that every channel accepts, one that only the webhook     *)
(* accepts, and an error.                                                  *)
(***************************************************************************)
EXTENDS Delivery

MCNotification == {[valid |-> TRUE]}
MCMessages     == MCNotification \cup {[valid |-> FALSE]}

MCNothing  == [webhook_url |-> FALSE, telegram_token |-> FALSE,
               telegram_chat |-> FALSE, slack_webhook |-> FALSE]
MCWebhook  == [MCNothing EXCEPT !.webhook_url = TRUE]
MCTelegram == [MCNothing EXCEPT !.telegram_token = TRUE, !.telegram_chat = TRUE]
MCSlack    == [MCNothing EXCEPT !.slack_webhook = TRUE]
=============================================================================
