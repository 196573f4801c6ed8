------------------------- MODULE MCChannelDelivery -------------------------
(***************************************************************************)
(* What each platform may have to say, as the handlers tell it apart.      *)
(***************************************************************************)
EXTENDS ChannelDelivery

Text(chat) == [chat |-> <<chat>>, text |-> "text"]
Photo == [chat |-> <<"c">>, text |-> None]
Telegram(message, edited) == [channel |-> "telegram", body |-> [message |-> message, edited |-> edited]]

SlackMessage == [type |-> "message", subtype |-> None, channel |-> <<"c">>, text |-> "text"]
Slack(type, event) == [channel |-> "slack", body |-> [type |-> type, team |-> <<"t">>, event |-> event]]

Option == [type |-> "string", name |-> "q", leaf |-> TRUE, value |-> "text"]
Command(name, options) == [type |-> "chat_input", name |-> name, options |-> options]
Discord(type, channel, token, data) ==
    [channel |-> "discord",
     body |-> [type |-> type, guild |-> None, channel |-> channel, application |-> "a", token |-> token,
               data |-> data]]

\* Messages that are answered: two of one Telegram chat and three others.
Messages ==
    {Telegram(Text("c"), None), Telegram(None, Text("c")),
     Slack("event_callback", SlackMessage),
     Discord("command", <<"c">>, "t", Command("ask", <<Option>>)),
     Discord("command", <<"c">>, None, Command(None, <<[Option EXCEPT !.type = None]>>)),
     [channel |-> "inbound", body |-> [chat |-> <<"c">>]]}

\* What is skipped, answered on the spot or refused.
Others ==
    {Telegram(Photo, Text("c")),
     Slack("url_verification", None), Slack("event_callback", [SlackMessage EXCEPT !.subtype = "bot_message"]),
     Discord("ping", None, None, None), Discord("command", None, "t", Command("ask", <<>>)),
     Discord("command", <<"c">>, "t", Command(Blank, <<[Option EXCEPT !.name = None, !.value = None]>>)),
     [channel |-> "slack", body |-> None]}

MCEvent == Messages \cup Others

Proof(signature, timestamp) == [signature |-> signature, timestamp |-> timestamp]
MCProofs == {Proof("valid", 1), Proof("valid", -2)}
=============================================================================
