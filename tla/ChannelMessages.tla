-------------------------- MODULE ChannelMessages --------------------------
(***************************************************************************)
(* What the webhook handlers of crates/jiaclaw-host/src/main.rs make of a  *)
(* request: whether it is authentic, and whether it is a message to        *)
(* answer, in which session, and where the answer goes.                    *)
(*                                                                         *)
(* A field of a body is None (absent), Blank (empty once trimmed) or a     *)
(* value.  An id is a sequence of its parts between colons, because        *)
(* session ids are made by joining with colons.                            *)
(***************************************************************************)
EXTENDS Integers, Sequences

CONSTANTS None, Blank,
          Secrets, \* the channels whose webhook secret or key is configured
          Tokens,  \* the channels with a bot token, which posts answers
          MaxSkew  \* the age of a signature Slack requests may have

Channel == {"inbound", "telegram", "slack", "discord"}

\* optional_nonempty
Given(field) == field \notin {None, Blank}

Skipped(reason) == [kind |-> "skip", reason |-> reason]

\* A message for the chat of a session, and the conversation it came from.
Message(session, to) == [kind |-> "chat", session |-> session, to |-> to]

\* The id of a session: its parts joined with colons.
InboundSession(chat) == <<"webhook">> \o chat
TelegramSession(chat) == <<"telegram">> \o chat
SlackSession(team, channel) == <<"slack">> \o (IF Given(team) THEN team ELSE <<>>) \o channel
DiscordSession(guild, channel) == <<"discord">> \o (IF Given(guild) THEN guild ELSE <<"dm">>) \o channel

-----------------------------------------------------------------------------

\* Edits count as messages, but only where there is no message.
ClassifyTelegram(body) ==
    LET update == IF body.message # None THEN body.message ELSE body.edited
    IN  IF update # None /\ Given(update.text)
        THEN Message(TelegramSession(update.chat), update.chat)
        ELSE Skipped("no text in update")

ClassifySlack(body) ==
    LET event == body.event
    IN  CASE body.type = "url_verification" -> [kind |-> "challenge"]
          [] body.type # "url_verification"
             /\ (body.type # "event_callback" \/ event = None) -> Skipped("ignored event type")
          [] OTHER ->
             IF event.type # "message" THEN Skipped("ignored event type")
             ELSE IF Given(event.subtype) THEN Skipped("ignored message subtype")
             ELSE IF ~Given(event.channel) THEN Skipped("missing channel")
             ELSE IF ~Given(event.text) THEN Skipped("no text in event")
             ELSE Message(SlackSession(body.team, event.channel), event.channel)

(***************************************************************************)
(* The tree of a command's options is given in the order in which both     *)
(* first_string_option and flatten_option_parts walk it, a parent before   *)
(* its children.  The text is the first string among the values of string  *)
(* options, or else what names and values there are.                       *)
(***************************************************************************)
StringOptions(options) ==
    {i \in DOMAIN options : options[i].type \in {None, "string"} /\ options[i].value = "text"}

\* The parts the text is joined from, when no option is a string.
OptionParts(options) ==
    {i \in DOMAIN options : Given(options[i].name) \/ (options[i].leaf /\ Given(options[i].value))}

HasCommandText(data) ==
    StringOptions(data.options) # {} \/ Given(data.name) \/ OptionParts(data.options) # {}

ClassifyDiscord(body) ==
    CASE body.type = "ping" -> [kind |-> "ping"]
      [] body.type \notin {"ping", "command"} -> Skipped("ignored interaction type")
      [] body.type = "command" ->
         IF body.data = None THEN Skipped("missing command data")
         ELSE IF body.data.type \notin {None, "chat_input"} THEN Skipped("ignored command type")
         ELSE IF ~Given(body.channel) THEN Skipped("missing channel")
         ELSE IF ~HasCommandText(body.data) THEN Skipped("no text in command")
         ELSE Message(DiscordSession(body.guild, body.channel), body.channel)

\* A body that is no JSON is refused; any text of an inbound message will do.
Classify(channel, body) ==
    CASE body = None -> [kind |-> "invalid"]
      [] body # None /\ channel = "inbound" -> Message(InboundSession(body.chat), body.chat)
      [] body # None /\ channel = "telegram" -> ClassifyTelegram(body)
      [] body # None /\ channel = "slack" -> ClassifySlack(body)
      [] body # None /\ channel = "discord" -> ClassifyDiscord(body)

-----------------------------------------------------------------------------

\* slack_timestamp_fresh, of a timestamp skew seconds before now, or after.
Fresh(skew) == skew \in -MaxSkew .. MaxSkew

\* A signature is None, malformed, wrong or valid for the timestamp and body.
VerifySlack(proof) == proof.timestamp # None /\ Fresh(proof.timestamp) /\ proof.signature = "valid"
VerifyDiscord(proof) == proof.timestamp # None /\ proof.signature = "valid"
VerifySecret(proof) == proof.signature = "valid"

\* Without a configured secret every request is accepted.
Verified(channel, proof) ==
    \/ channel \notin Secrets
    \/ channel = "slack" /\ VerifySlack(proof)
    \/ channel = "discord" /\ VerifyDiscord(proof)
    \/ channel \in {"inbound", "telegram"} /\ VerifySecret(proof)

\* Discord shows a placeholder for an empty answer, the others are sent it.
Posted(channel, reply) ==
    IF channel = "discord" /\ reply = Blank THEN "(empty reply)" ELSE reply

\* Whether an answer is posted; a deferred one needs the interaction's ids.
CanPost(channel, body) ==
    /\ channel \in Tokens
    /\ channel = "discord" => Given(body.application) /\ Given(body.token)
=============================================================================
