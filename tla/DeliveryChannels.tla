-------------------------- MODULE DeliveryChannels --------------------------
(***************************************************************************)
(* The delivery channels (internal/delivery/channels): which of them a     *)
(* configuration registers, and what one call of Send may do.              *)
(*                                                                         *)
(* Config tells which settings of workerConfig are nonempty.  The receiver *)
(* behind a channel is external: it answers with some status or not at     *)
(* all, and what it answers is lost when the client's 10 s are over.       *)
(***************************************************************************)
EXTENDS Integers, Sequences

CONSTANTS Config,   \* a record of Configs
          Statuses  \* the status codes a receiver may answer with

Configs == [webhook_url : BOOLEAN, telegram_token : BOOLEAN,
            telegram_chat : BOOLEAN, slack_webhook : BOOLEAN]

ASSUME ChannelsAssumption ==
  /\ Config \in Configs
  /\ Statuses \subseteq 200 .. 599

Names == {"log", "webhook", "telegram", "slack"}

Optional(enabled, name) == IF enabled THEN <<name>> ELSE <<>>

\* The log is always on; of the two settings of Telegram run looks at one.
Channels == <<"log">> \o Optional(Config.webhook_url, "webhook")
                      \o Optional(Config.telegram_token, "telegram")
                      \o Optional(Config.slack_webhook, "slack")

\* Send returns nil at once when it has nowhere to send to.
SkipsWebhook  == ~ Config.webhook_url
SkipsTelegram == ~ (Config.telegram_token /\ Config.telegram_chat)
SkipsSlack    == ~ Config.slack_webhook

Skips(name) == \/ name = "webhook" /\ SkipsWebhook
               \/ name = "telegram" /\ SkipsTelegram
               \/ name = "slack" /\ SkipsSlack

NoAnswer == 0

\* What a call of client.Do comes to: the receiver that answers with success
\* has got the notification, any other may have got it.
Answers == {a \in [reached : BOOLEAN, status : Statuses \cup {NoAnswer}] :
              a.status \in 200 .. 299 => a.reached}

\* Variant for the runs' mutants: whatever is answered counts as success.
WebhookAccepts_Answer(status) == status # NoAnswer

WebhookAccepts(status)  == status # NoAnswer /\ status < 300
TelegramAccepts(status) == status = 200
SlackAccepts(status)    == status = 200

Accepts(name, status) == \/ name = "webhook" /\ WebhookAccepts(status)
                         \/ name = "telegram" /\ TelegramAccepts(status)
                         \/ name = "slack" /\ SlackAccepts(status)

\* What Send returns (ok: nil) and whether the notification has arrived.  The
\* log takes no notice of the context; client.Do fails at once when it is done.
Outcomes(name, done) ==
  IF name = "log" THEN {[ok |-> TRUE, reached |-> TRUE]}
  ELSE IF Skips(name) THEN {[ok |-> TRUE, reached |-> FALSE]}
  ELSE IF done THEN {[ok |-> FALSE, reached |-> FALSE]}
  ELSE {[ok |-> Accepts(name, a.status), reached |-> a.reached] : a \in Answers}
=============================================================================
