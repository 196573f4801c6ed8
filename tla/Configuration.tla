--------------------------- MODULE Configuration ---------------------------
(***************************************************************************)
(* How a setting gets its value (jiaclaw-core/src/lib.rs) and what serve   *)
(* and doctor say of it (jiaclaw-host/src/main.rs). A setting comes from a *)
(* variable of the environment, from the configuration file or from a      *)
(* default. An optional value is a set with at most one element; a text of *)
(* the environment is one of Texts.                                        *)
(***************************************************************************)
EXTENDS Naturals, TLC

\* What a text reads as; "bad" and "blank" read as nothing else.
NumberTexts == [zero |-> 0, one |-> 1, many |-> 40]
FlagTexts == [yes |-> TRUE, no |-> FALSE]
ListTexts == [one |-> {"x"}, many |-> {"x", "y"}, bad |-> {"bad"}, blank |-> {}]
FormatTexts == [text |-> "text", json |-> "json"]

Meaning(table, text) == {table[t] : t \in text \cap DOMAIN table}
NotBlank(text) == text \ {"blank"}
PositiveOf(numbers) == numbers \ {0}
Else(value, other) == IF value # {} THEN value ELSE other

-----------------------------------------------------------------------------
(***************************************************************************)
(* The rules by which an environment text and a configured value make the  *)
(* effective value.                                                        *)
(***************************************************************************)

\* A secret: a blank text is no secret, wherever it stands.
SecretOf(env, configured) == Else(NotBlank(env), NotBlank(configured))

\* A credential that the start takes as it stands, blank or not.
VerbatimOf(env, configured) == Else(env, configured)

\* A variable that does not read as a positive number is passed over, as it is for amounts.
LimitOf_Forgiving(env, configured) == Else(PositiveOf(Meaning(NumberTexts, env)), PositiveOf(configured))

\* A limit that is off unless it is positive: a variable that is set decides alone.
LimitOf(env, configured) ==
    IF env # {} THEN PositiveOf(Meaning(NumberTexts, env)) ELSE PositiveOf(configured)

\* An amount that there must be: what does not read as a positive number is passed over.
AmountOf(default, env, configured) ==
    Else(PositiveOf(Meaning(NumberTexts, env)), Else(PositiveOf(configured), {default}))

FlagOf(env, configured) == Else(Meaning(FlagTexts, env), configured)
FormatOf(env, configured) == Else(Meaning(FormatTexts, env), configured)

\* metrics_public, whose variable says the opposite.
PublicOf(env, configured) == Else({~required : required \in Meaning(FlagTexts, env)}, configured)

\* A list: a variable that is set decides alone, even when it has no item.
ListOf(env, configured) == Meaning(ListTexts, Else(env, configured))

\* The log level, for which RUST_LOG is asked as well.
LevelOf(env, rust, configured) ==
    Else(NotBlank(env), Else(NotBlank(rust), Else(NotBlank(configured), {"info"})))

Within(n, low, high) == IF n < low THEN low ELSE IF n > high THEN high ELSE n
Clamped(numbers, low, high) == {Within(n, low, high) : n \in numbers}

-----------------------------------------------------------------------------
(***************************************************************************)
(* The settings of each section: the rule, the default of the file, and    *)
(* when its source is said to be the environment: when the variable is     *)
(* "set", when it is "filled" with something, or when it "reads" well.     *)
(***************************************************************************)
Setting(rule, default, told) == [rule |-> rule, default |-> default, told |-> told]

HeartbeatSettings == [heartbeat_interval |-> Setting("amount", {3600}, "set")]
SessionSettings == [summarize_on_overflow |-> Setting("flag", {FALSE}, "set")]
LoggingSettings ==
    [log_format |-> Setting("format", {"text"}, "reads"), log_level |-> Setting("level", {}, "filled")]
ToolSettings == [brave_api_key |-> Setting("secret", {}, "filled")]
CorsSettings == [cors_enabled |-> Setting("flag", {FALSE}, "set"), cors_origins |-> Setting("list", {"blank"}, "set")]
LimitSettings ==
    [rate_limit_per_minute |-> Setting("limit", {}, "set"), session_ttl |-> Setting("limit", {}, "set"),
     shutdown_timeout |-> Setting("amount", {15}, "set"), max_body_bytes |-> Setting("amount", {1048576}, "set"),
     metrics_public |-> Setting("public", {TRUE}, "set")]
ChannelSettings ==
    [s \in {"telegram_bot_token", "slack_signing_secret", "slack_bot_token", "discord_public_key", "discord_bot_token"} |->
        Setting("secret", {}, "filled")]
CredentialSettings ==
    [s \in {"api_token", "webhook_secret", "telegram_secret"} |-> Setting("verbatim", {}, "set")]
AgentSettings ==
    [tool_timeout |-> Setting("limit", {}, "set"), max_tool_iterations |-> Setting("iterations", {5}, "set")]

Sections ==
    {HeartbeatSettings, SessionSettings, LoggingSettings, ToolSettings, CorsSettings, LimitSettings, ChannelSettings,
     CredentialSettings, AgentSettings}
Settings ==
    [s \in UNION {DOMAIN section : section \in Sections} |-> (CHOOSE section \in Sections : s \in DOMAIN section)[s]]

\* effective_*: the value of a setting of the file under an environment; rust is RUST_LOG.
Effective(setting, env, rust, configured) ==
    LET rule == Settings[setting].rule
        default == Settings[setting].default
    IN  CASE rule = "secret" -> SecretOf(env, configured)
          [] rule = "verbatim" -> VerbatimOf(env, configured)
          [] rule = "limit" -> LimitOf(env, configured)
          [] rule = "amount" -> AmountOf(CHOOSE n \in default : TRUE, env, configured)
          [] rule = "iterations" -> Clamped(AmountOf(5, env, configured), 1, 32)
          [] rule = "flag" -> FlagOf(env, configured)
          [] rule = "format" -> FormatOf(env, configured)
          [] rule = "public" -> PublicOf(env, configured)
          [] rule = "list" -> ListOf(env, configured)
          [] rule = "level" -> LevelOf(env, rust, configured)

\* resolve_session_keep_recent, which has no variable.
KeepRecentOf(configured, maxSessionMessages) ==
    Within(IF configured = 0 THEN 10 ELSE configured, 1, maxSessionMessages - 1)

(***************************************************************************)
(* The file: [agent] must be there; a section that stands beside it        *)
(* replaces agent's whole section of that name, and what neither says      *)
(* takes its default. A section is a function from its settings to what it *)
(* says of them.                                                           *)
(***************************************************************************)
FromFile(top, agent, setting) ==
    LET section == Else(top, agent)
        said == UNION {IF setting \in DOMAIN s THEN s[setting] ELSE {} : s \in section}
    IN  Else(said, Settings[setting].default)

(***************************************************************************)
(* What is printed of the settings. Each report is a function from the     *)
(* settings it prints to when it names their source: always, only when     *)
(* they have a value, only when they are off, or never.                    *)
(***************************************************************************)
Tokens == {"telegram_bot_token", "slack_bot_token", "discord_bot_token"}
Secrets == DOMAIN ChannelSettings \cup DOMAIN CredentialSettings
Logged == {"log_format", "log_level", "max_tool_iterations"}

\* The lines logged when serve has started.
ServeLog ==
    [s \in Logged |-> "always"]
        @@ [s \in Tokens \cup {"cors_enabled", "cors_origins", "rate_limit_per_minute", "max_body_bytes", "session_ttl",
                               "shutdown_timeout", "tool_timeout", "brave_api_key", "heartbeat_interval"} |-> "never"]
        @@ [metrics_public |-> "when off", summarize_on_overflow |-> "when on"]

\* The summary serve prints after them.
ServeSummary ==
    [s \in Logged \cup {"max_body_bytes", "shutdown_timeout", "heartbeat_interval", "cors_enabled", "cors_origins"} |-> "always"]
        @@ [s \in Secrets \cup {"rate_limit_per_minute", "session_ttl", "tool_timeout", "brave_api_key",
                               "summarize_on_overflow"} |-> "when on"]
        @@ [metrics_public |-> "when off"]

\* The sections of doctor, which say the same, and its summary.
DoctorSections == ServeSummary
DoctorSummary ==
    [max_tool_iterations |-> "always", summarize_on_overflow |-> "when on"]
        @@ [s \in Secrets \cup {"log_format", "rate_limit_per_minute", "max_body_bytes", "cors_enabled", "cors_origins",
                               "metrics_public", "session_ttl", "shutdown_timeout", "tool_timeout",
                               "heartbeat_interval"} |-> "never"]

Reports == {ServeLog, ServeSummary, DoctorSections, DoctorSummary}

-----------------------------------------------------------------------------
(***************************************************************************)
(* What the program does with the settings, and what it says of them.      *)
(***************************************************************************)

\* The value in use: a log level that is no directive counts as info.
Used(setting, env, rust, configured) ==
    LET value == Effective(setting, env, rust, configured)
    IN  IF setting = "log_level" /\ "bad" \in value THEN {"info"} ELSE value

\* The functions *_config_source.
Source(setting, env, rust) ==
    LET told == Settings[setting].told
    IN  IF \/ told = "set" /\ env # {}
           \/ told = "filled" /\ NotBlank(env) # {}
           \/ told = "reads" /\ Meaning(FormatTexts, env) # {}
        THEN "environment"
        ELSE IF setting = "log_level" /\ NotBlank(rust) # {} THEN "RUST_LOG" ELSE "file"

IsOn(setting, value) == IF Settings[setting].rule \in {"flag", "public"} THEN value = {TRUE} ELSE value # {}

\* Whether a report of this value names its source.
NamesSource(report, setting, value) ==
    /\ setting \in DOMAIN report
    /\ \/ report[setting] = "always"
       \/ report[setting] = "when on" /\ IsOn(setting, value)
       \/ report[setting] = "when off" /\ ~IsOn(setting, value)

\* The tools that a configuration may switch off.
Optional ==
    {"web_search", "web_fetch", "memory_search", "memory_write", "read_file", "list_dir", "write_file", "delete_file",
     "str_replace", "grep", "glob", "mkdir", "move"}

\* The optional files tools, and then all tools the agent registers.
FileTools(enabled) ==
    enabled \cap {"read_file", "list_dir", "write_file", "delete_file", "str_replace", "grep", "glob", "mkdir", "move"}

RegisteredTools(enabled) ==
    {"workspace_list", "memory_read", "memory_append", "soul_write", "user_write", "file_read", "file_write",
     "file_list", "file_delete", "file_copy", "http_get", "json_query", "datetime_now", "shell_exec"}
        \cup FileTools(enabled)
        \cup (enabled \cap {"memory_search", "memory_write", "web_search", "web_fetch"})

\* The status line of an optional tool says that it is off, on, or on without its key.
ToolStatus(tool, enabled, key) ==
    IF tool \notin enabled THEN "off" ELSE IF tool = "web_search" /\ key = {} THEN "keyless" ELSE "on"

\* Doctor and serve have a line for each of them.
ReportedTools == Optional

\* The key the agent calls its provider with: the file's, then the environment's, blank or not.
ProviderKey(env, configured) == Else(configured, env)

\* Without a key the agent answers with its stub, and doctor says so.
SaysStub(env, configured) == ~(configured # {} \/ env # {})

\* What answers a turn: the stub, one of the two providers, or an error.
Answers(providerType, env, configured) ==
    IF ProviderKey(env, configured) = {} THEN "stub"
    ELSE IF providerType \in {"brokerrouter", "openai_compatible"} THEN providerType ELSE "error"

-----------------------------------------------------------------------------
(***************************************************************************)
(* What serve and doctor report is so. The value they print is in use; if  *)
(* they name a variable, the file could not change the value, and if they  *)
(* name the file, the environment does not matter. Where a variable is set *)
(* to a text that is passed over, it is named although the file decides;   *)
(* and a log level that is no directive is printed although info is used.  *)
(***************************************************************************)
PassedOver(setting, env) ==
    LET rule == Settings[setting].rule
    IN  \/ rule \in {"amount", "iterations"} /\ PositiveOf(Meaning(NumberTexts, env)) = {}
        \/ rule \in {"flag", "public"} /\ Meaning(FlagTexts, env) = {}

ReportIsTrue(setting, env, rust, configured, other) ==
    LET value == Effective(setting, env, rust, configured)
        used == Used(setting, env, rust, configured)
        source == Source(setting, env, rust)
    IN  \A report \in Reports :
            NamesSource(report, setting, value) =>
                /\ value # used => setting = "log_level" /\ value = {"bad"}
                /\ source = "file" => used = Used(setting, {}, {}, configured)
                /\ source # "file" /\ ~PassedOver(setting, env) => used = Used(setting, env, rust, other)

(***************************************************************************)
(* The tools that doctor and serve report as switched off are those the    *)
(* agent does not register, and doctor announces the stub exactly if it    *)
(* will answer.                                                            *)
(***************************************************************************)
AgentIsAsReported(enabled, providerType, env, configured) ==
    /\ \A tool \in ReportedTools : ToolStatus(tool, enabled, {}) = "off" <=> tool \notin RegisteredTools(enabled)
    /\ SaysStub(env, configured) <=> Answers(providerType, env, configured) = "stub"
=============================================================================
