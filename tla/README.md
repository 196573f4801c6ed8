# A verification development for JiaClaw

JiaClaw is a personal AI agent in Rust: a library (`crates/jiaclaw`: agent, tools, skills,
sessions), its configuration (`crates/jiaclaw-core`) and a host binary
(`crates/jiaclaw-host`: the HTTP service `jiaclaw serve`, chat channels, a CLI). This directory
models it in TLA+. Where several things happen at once or a step may fail half-way, a module is a
state machine; where the program computes something from an input, it is a set of operators. TLC
checks small instances, TLAPS proves what matters most for every instance.

Definitions keep the names of the code (`CommitChat` is `commit_session_messages`), and
`PROJECT.json` maps each of them to its lines. A definition `X_Something` next to `X` is a
plausible bug in `X` (a save forgotten, a check one too late): replaced by it, the property that is
listed with it must fail. Such definitions are never part of a specification.

## The system

Paths are below `crates/`; `main.rs` is `jiaclaw-host/src/main.rs`; `lib.rs`, `session.rs`,
`tools.rs`, `files.rs`, `memory.rs` and `skills.rs` are in `jiaclaw/src`; `core` is
`jiaclaw-core/src/lib.rs`.

| Component | State it keeps | Operations | Hard about it | What makes it correct |
|---|---|---|---|---|
| Session history (`session.rs`, `main.rs` 2256-2297) | none: works on a list of messages | hard truncation, summary with fallbacks, compaction of imports | applied again at every request to what it has produced before | keeps the newest end, fits the limit, repeating it loses nothing |
| Session store (`main.rs` 2228-2360, 3417-3831, 4348-4395) | `AppState.sessions`: id to history and time of last access; one file | chat (two lock sections around a model call), list, get, export, create, import, delete, sweep, load | handlers interleave between lock sections; saves and loads fail; restarts; the idle time runs out in between | file follows store; overlapping chats lose turns but never mix them; expired sessions are not met; a turn stands only behind what it has seen |
| Skill registry (`skills.rs`, `lib.rs` 290-345) | one table behind a read-write lock | scan, replace, copy | overlapping scans of a directory that is being edited | the table is one scan; a reload takes effect; a chat describes what it triggered |
| Tool loop (`lib.rs` 645-846, `tools.rs` 62-112) | the conversation of a turn, the calls, metrics | ask, parse, execute, time out, report | a timeout does not stop a blocking tool; the limit cuts a round off | every call is reported once, in order and truthfully; a turn ends |
| Serve lifecycle (`main.rs` 2360-2475) | none of its own: signal, server task, background tasks, the tokio runtime | signal, drain, grace period, flush, exit | detached tasks and blocking threads outlive the server | nothing accepted is lost in a drained exit; the process exits |
| Heartbeat (`main.rs` 2150-2226, `heartbeat.rs`) | none | a chat on a session of its own, at intervals | aborted by the signal at any await | as for a chat |
| Workspace file tools (`files.rs`, `memory.rs`, `tools.rs`) | the files of the workspace | write, append, replace, delete, move | read-modify-write without a lock, shared temporary names, moves across devices | a file is some version a call wrote, never a part; the limit holds; a move keeps its file |
| Channel webhooks (`main.rs` 520-1320, 3964-4245) | none | inbound hook, Telegram, Slack, Discord with deferred answers | platforms repeat what was answered late; deferred answers are detached; answers and posts get lost | an event is closed only with its turn; one request, one turn; a deferred answer comes |
| HTTP middleware (`main.rs` 1474-1830, `metrics.rs`) | a quota, counters | request id, CORS, metrics, rate limit, body limit, credentials | the order of the layers; rounding of the times it announces | every answer is counted; a client that waits as told is served |
| Search, glob, slices (`files.rs` 1130-1480, 2033-2260) | none | match, walk, cut | cuts at a limit; a match that goes back to one star only | equal to their meaning; a cut is told |
| Tool arguments (`files.rs`, `memory.rs`, `tools.rs`) | none | a schema and a parser for each of the tools | the two are written apart | what the schema allows is taken as meant |
| web_fetch, web_search, http_get (`tools.rs` 400-1465) | none | fetch with redirects under one deadline, page to text, cut | deadline against redirects; the order of the rewrites of a page | bounded hops, time and size; a page shows what its parts show |
| Configuration (`core`, `main.rs` 1840-2110) | none | environment over file over default; what serve and doctor report | blank, zero and invalid values; the report is worked out anew | a report names the value in use |
| Prompt, memory and identity files (`memory.rs`, `identity.rs`, `heartbeat.rs`) | SOUL.md, USER.md, MEMORY.md, HEARTBEAT.md | read into the prompt, show, write, search | limits in bytes; unreadable files | what was written reaches the prompt |
| Workspace set-up (`workspace.rs`, `skills.rs`, `main.rs`) | the workspace's files | init, doctor, skills, reload | failure at any step | can be repeated; commands agree |
| CLI chat, export, import (`main.rs` 4397-4844) | a conversation; the sessions file | chat, export, import | a turn fails after its message joined; one bad line; the server's file | a history of whole turns; imports whole or not at all |
| Stub model, server-sent events (`lib.rs` 860-1060, `main.rs`) | none | answer, call one tool, stream | a stub that calls for ever; chunks | a turn ends; a stream is the reply |
| Model providers (`jiaclaw/src/provider`) | none | one HTTP exchange in a blocking thread, no timeout | may hang | an answer or an error |
| OpenAPI document | none | a static file | nothing | |

How they interact. A request passes the layers of the middleware and reaches a handler, a task of
the tokio runtime. A chat handler purges and copies a session from the store, copies the skill
table, builds its prompt from the files, runs the tool loop (whose provider and tools work in
blocking threads, on arguments their parsers have accepted), then writes the copy and the reply
back and saves. Channels and the heartbeat run the same chat. The store is shared memory
behind a `std::sync::Mutex` that is never held over an await; the skill table is behind an
`RwLock`; tools share the workspace directory with nothing between them. A signal goes to the
server, the sweeper and the heartbeat, and to nothing else. `PROJECT.json` lists, with their lines, the
hazards that come from this and the properties about them.

## The modules

State machines, each with its theorems and its instance for TLC:

    SessionHistory          pure operators on histories        SessionHistoryProofs
      SessionStore          the store, its handlers, its file, its clock
        MCSessionStore
        GracefulShutdown    the store with the life of the process around it
          ServeProofs (of both), MCGracefulShutdown
    SkillRegistry           SkillRegistryProofs, MCSkillRegistry
    ToolLoop                ToolLoopProofs, MCToolLoop
    WorkspaceFiles          WorkspaceFilesProofs, MCWorkspaceFiles
    ChannelMessages         what a webhook makes of a request
      ChannelDelivery       a message on its way; implements WebhookContract
        ChannelDeliveryProofs, MCChannelDelivery

Algorithms, checked on all small inputs by MCAlgorithms (AlgorithmsProofs EXTENDS it, and
ContentProofs that):

    SessionHistory -> SessionTransfer
    HttpLayers   WorkspaceSearch   ToolArguments   WebFetch   Configuration   ChatAnswers
    PromptFiles -> WorkspaceSetup

### State machines

**SessionHistory.** A message is a role and the number of the turn it belongs to; texts and
names are left out. `HardTruncate` is `hard_truncate_session_messages`, stated by the positions
that are kept. `Compactions(h)` is the set of outcomes of compacting `h` for a chat: the summary
of all but the `KeepRecent` newest messages if the model gives one, the truncation if it fails or
if summaries are off. `ImportCompaction` is what an import does.

**SessionStore.** One action is one lock section. `Arrive` is the purge with which every handler
begins, `PrepareChat` the copy of the history, `CommitChat` the write-back after the model has
answered, `AbandonChat` a failed model call or a handler dropped at its await; list, get, export,
create, import and delete have one section each after the purge. `SweepExpired` is the background
sweeper, `Restart` a crash or an exit at any point followed by a start. `Persist` writes the whole
store or fails (`SaveSessions`). A save is one step: the code writes a temporary file and renames it under the
lock, so a crash in between leaves the old file, as one before the step does; that the two are done in
this order is not something these runs could find wrong. `diskStale`, `seen`, `turn`
numbers and the time `at` of a task's arrival are history variables: no guard of the code
depends on them.

**SkillRegistry.** A reload lists the directories once (directories without a `SKILL.md` may be
among them), reads one file per step while `Edit` may happen in between, and installs or fails. At
the start the table is that of a scan that passes over what it cannot read, and empty if it cannot read
the directory. The contents of a skill are the number of the edit that wrote it and whether it parses. A chat copies
the table, chooses skills, and builds its prompt from the copy in a later step.

**ToolLoop.** One turn of the agent. `AnswerWithCalls` and `AnswerAtLimit` are the two sides
of the limit; an inline tool (`ExecuteInline`) completes where it is called; a blocking one is
started, and finishes in time, is timed out, or finishes late (`FinishLate`), when the loop is
somewhere else or over. `effects` is the work done, whether or not anybody waited for it.

**WorkspaceFiles.** The directory binds names to inodes, as the system calls of the tools see it;
a tool call goes through stages between which others may step. `ReadFile` computes the new
contents and checks the limit, `OpenFile` truncates the temporary file (or, for `file_write`, the file
itself), `WriteData` fills it or `WriteFails`, `RenameTmp` commits whatever the temporary name is
bound to by then, or fails, and `RemoveTmp` removes that name. A move is `CheckMove`, `RemoveTarget` if it may
overwrite what it has found, and `RenameMove`, or `OpenCopy`, `CopyData` and
`RemoveSource` across devices; `Crash` may happen between any two steps. Contents are sequences of
call numbers, so a part, a mixture or a lost change can be told from a version. `whole`, `tainted` and
the field `alone` of a move are history variables: what some call meant to write, which inodes
two calls have had a hand in, and whether another call has changed a move's files.

**GracefulShutdown.** EXTENDS SessionStore and lets a task take each of its actions only in the
phases of the process in which the code does: a connection is accepted until the signal
(`Connect`) and may bring requests after it (`Accept`, `Disconnect`), for the server waits for the open
ones; heartbeats begin (`Beat`) until the signal, a deferred Discord chat (`RunDeferred`) as long as the runtime polls;
`AnswerChat` waits for the end of the turn's blocking thread, in a runtime that still polls; `Sweep`
stops with the signal. `ServerFails` is the other end of the server task: main returns its
error without a flush. `Signal`, `DrainEnds`, `GraceExpires`,
`FlushSessions`, `StopRuntime` and `Exit` are the steps of `serve_with_graceful_shutdown`,
`flush_sessions_on_shutdown` and of the drop of the runtime by `#[tokio::main]`.

**ChannelMessages.** What the `hooks_*_handler`s make of a request: `Verified` is its proof of
origin (a secret, a signature and its age, a key), `Classify` whether it is a message to chat about,
a ping, a challenge, something to skip or a bad request, in which session, and where the answer goes.
A field is absent, blank or a value; ids are sequences of the parts between their colons.

**ChannelDelivery.** Requests of the platforms: `PostEvent` makes one, also of an event that was
offered before and not yet closed; `TurnAway` is the middleware; `Handle` the handler up to its
chat; `PrepareChat`, `CommitChat` and `ChatFails` the chat of a session reduced to the turns it
remembers; `ShowPost` and `PostFails` the answer posted to the platform, whose confirmation may be
lost; `Respond` the answer to the webhook, which may be lost as well; `Drop` a platform that hangs up; `Stop` a
restart. A commit saves the sessions (`Persist`), which may fail or be switched off, and only a log line
tells; a restart, after a last save or without one, finds what the file has, and nothing if it cannot be read.
`unsaved` and `forgotten` are history variables: the turns written since the last successful save, and
those a restart has not found. Discord's chat goes on after its webhook is answered, in a task of its own.
**WebhookContract** is what a webhook promises, without the how: an event is offered, a turn is
taken once per offer, and an event that waits for its answer is closed only after a turn.
ChannelDelivery implements it with `offers` and `turns` computed from its requests (`KeepsContract`).

### Algorithms

**HttpLayers.** The layers in the order in which the router nests them: request id, CORS,
metrics, rate limit, the JSON form of refused bodies, the declared length, the routes with their methods (`Methods`), the handler with its
credentials; `Serve` is a request's way through them. The bucket of the rate limit is the
governor crate's and external; the headers computed from it are the code's.

**WorkspaceSearch.** `grep`, `glob` and `list_dir` as walks over a directory tree, which is the
sequence of its entries in the order they are met; a walk is a recursive function, one `...Visit` for each
entry. `GlobSegment` is the matcher that
remembers its last star, written as the loop it is: `GlobStep` is one turn of it, `GlobRun` the states
it goes through. `GlobParts` is the recursion over the segments of a path, as a table of its calls. A
pattern with a slash in it is for the whole path, `src/` and `/x` too, any other for the name.
`SliceLines` is what read_file shows of a file.

**ToolArguments.** For every tool the schema it shows to the model and the parser of its
arguments, over JSON values that are told apart by their type and by what parsers look at.

**WebFetch.** `Fetch` follows redirects under one deadline and refuses schemes, ports and private
hosts on each. A name is looked up at each check and may be found to be something else each time (`found`); the
HTTP client then looks it up once more for itself, and what that finds the code does not see and the model
says nothing of. A `Location` of another scheme is taken for a relative path (`Beside`). `FormatPage`
rewrites a page (elements, comments, tags, entities, white space), or shows one that is not HTML as it is, cuts
it, and says so unless what is left has the words of the mark already; `Search` and `HttpGet` bound what they return.

**Configuration.** A rule for each kind of setting makes the value in use (`Effective`) out of
variable, file and default; `Source` and the reports of serve and doctor say where it came from; the tools
that are registered, and the status that is shown of them.

**PromptFiles.** What the prompt takes of the three files and how it cuts them; memory_write,
memory_append and identity_write, one call at a time; `memory show`; memory_search with its windows.
Its loops (over characters, lines, paths, files) are recursive functions `...UpTo` a place.

**WorkspaceSetup.** `InitCommand` with a failure after any of its steps and perhaps a torn file,
doctor's verdict, and the four ways in which skills are listed: the start of serve, doctor,
`jiaclaw skills` and the reload, each with what it makes of a `skills/` that cannot be read or is a file.

**SessionTransfer.** Export, and import by the server and by `jiaclaw session`: formats, ids, bad lines,
a file that is missing or cannot be read.

**ChatAnswers.** The events of a streamed answer and its chunks; the conversation of `jiaclaw
chat`, one `ReplStep` for each input; the stub's rules, which choose an answer or one tool by the words
of the last message, and the turns they lead to (`TurnUpTo`, one `Round` for each answer). Some answers
quote what skills and the configuration say of themselves, in which the parser of calls may
read any number of calls (`Quoting`, `quoted`); others quote the message.

## What the runs check

| Run | Bounds | Shows |
|---|---|---|
| `algorithms` | all inputs below | thirteen properties, one for each algorithm or group of them (next table) |
| `store_writes` | 2 sessions, 2 tasks, 3 turns, limit 2, a request of 3 messages, no expiry; saves and loads may fail | file follows store, turns never mix, no holes, bounded histories, a turn stands only behind what it has seen |
| `store_clock` | 2 sessions, 2 tasks, 2 turns, idle time 2, clock to 3 | expired sessions are not met, and leave in the end |
| `store_touch` | chats of one session only | finding 1 |
| `skills_reload` | 2 tasks, 2 directories, 2 edits, unreadable files and directory | table is one scan; triggered skills are described |
| `skills_stale` | 1 edit | finding 2 |
| `tool_turn` | limit 3, answers of up to 2 calls, one blocking and one inline tool | reports complete, ordered and true; context paired; metrics exact; the turn ends |
| `files_tools` | 2 concurrent calls, 3 calls in all, of 9 kinds on 3 files, limit 2; crashes, failing writes, moves across devices | files are whole and within the limit, moves keep their file and replace none unasked, but where two calls share a file |
| `files_atomic` | 2 calls that write one file | finding 4 |
| `shutdown_clean` | a connection, a deferred chat, the heartbeat; 2 turns, idle time 1, clock to 1 | clean exits save all and drop no request; the process exits if its threads end |
| `shutdown_hang` | the same tasks, chats only, no expiry | finding 3 |
| `channels` | 2 requests of any of 13 events on four channels, valid and stale proofs, empty and other answers, hang-ups, failing saves, restarts with a file that may be unreadable | webhooks implement their contract; what was shown is remembered unless chats overlap or the file lacks it; a deferred interaction is answered |

The properties of `algorithms`, and the inputs each is checked on:

| Property | Inputs |
|---|---|
| `TruncationComposes`, `CompactionKeepsRecent`: truncation is the code's filters and skip, doing it at every request is doing it once, the newest end survives | conversations of up to 7 messages of 3 roles, limit 4, keep 2 |
| `LayersAreNested`: the quota is charged before the size is looked at, too long a body is refused in JSON, every answer but a preflight's is counted with its status; a client that waits a second longer than told is served | 648 requests under 4 CORS settings; up to 5 arrivals at instants 0 to 6, 2 ticks to a second, 3 requests in 10 ticks |
| `GlobsMatchMeaning`: matchers equal the meaning of a pattern | patterns and names of up to 4 characters; patterns with and without a slash and paths, of up to 3 segments |
| `SearchesAreComplete`: a search that does not say it was cut has found all (but see `ListingTellsCut`), and the pages of a file join | trees of up to 4 entries 3 deep, limits 1 to 3; files of up to 4 lines; two files of up to 5 characters for memory_search |
| `ParsersKeepSchemas`: what a schema allows is taken, and means what it says | every tool, with up to 2 unusual arguments out of 22 values |
| `WebAnswersAreBounded`: hops, time and size | chains of up to 3 replies (1 redirect allowed, deadline of 2 seconds in halves), each lookup finding what it likes |
| `PagesShowTheirParts`: a page made of parts shows what they show, in order, and a cut is told | up to 3 of 16 kinds of parts, as HTML and not |
| `ReportsAreTrue`: serve and doctor name the value in use, and its source unless it was passed over | every setting with every kind of value in variable and file |
| `MemoryReachesPrompt`: what was accepted is in the prompt | texts of up to 4 characters of which one is wide, 5 bytes for the prompt |
| `SetupIsRepeatable`: a failed init can be repeated with --force; lists of skills agree | a failure at each step, workspaces with up to two skills, `skills/` unreadable |
| `ExportsComeBack`: an export can be imported and is the same; imports are whole or nothing | the conversations; bodies of up to 3 lines |
| `AnswersAreKept`: a stream is the reply, the REPL keeps whole turns, the stub ends | replies of up to 6 characters in chunks of 3; 4 inputs; all subsets of the stub's words, with texts that quote up to two calls |

Why the bounds are enough. Two tasks are what every race here is between: a handler between its
lock sections, and one other that changes what it has read. A limit of two messages is exceeded by
the second turn of a session, so truncation and summaries of truncated and summarised histories
occur within three turns. The second session is there so that a save or a purge for one can go
wrong about another, and so that `create` has an id to take. An idle time of two instants
distinguishes "touched since" from "about to expire", and the clock runs one instant past it. A limit of
three answers has a first, a middle and a last round. Two edits let a reload begin before,
between and after them. Three calls on the workspace are two that race and one that meets what they
(or a crash) have left; with three files one can be moved twice while a call still has it open; a
limit of two is exceeded by the second append. Two requests of a platform
are a repetition that overlaps the request it repeats, one that follows it, or two messages of one conversation.
An algorithm works on one input at a time, with limits (of characters, bytes, hops, results) that its
inputs fall short of, reach and exceed. Bounds are constants (`MaxTurns`, `MaxClock`, `MaxEdits`,
`MaxOps`, `MaxOffers`) in
guards; `RoomFor` of GracefulShutdown keeps tasks from being accepted that no turn is left for,
since a request stuck on a bound would look like a hung one. The chats of SessionStore's runs end
with the user's message, as those of all callers in the program do. An API client may send one
that has only a system message; a reply to it, once truncated, may follow another turn's, and
`TurnsNeverMix` says nothing of such requests.

Fairness. `SweepingSpec`: the sweeper is an interval loop that lives as long as the process, so it
purges in the end (WF of `SweepExpired`); nothing is assumed of clients. `FairSpec` of ToolLoop:
the loop goes on, tokio's timer fires, and the provider answers or fails. The last is an
assumption about the outside, since the HTTP clients set no timeout; of blocking tools nothing is assumed,
and the timeout is set (without one a hanging tool hangs the turn). `HangingSpec` of
GracefulShutdown: the grace timer fires, main's next statements run, the runtime polls what can
run and drops what waits. Its `FairSpec` adds that every blocking thread ends: the difference
between the two is finding 3. ChannelDelivery: handlers that can run are run (WF of `Handle`, `PrepareChat`,
`Respond`), the thread that asks the model ends (`CommitChat` or `ChatFails`; an assumption about the outside as in
ToolLoop), and a post ends, for its HTTP client has a timeout (`ShowPost` or
`PostFails`); nothing is assumed of platforms. `CHECK_DEADLOCK FALSE` is set where the model
stops: after the one call of `algorithms`, when a turn has ended, and where all requests are made and answered.

## What the code does otherwise than it says

1. `ChatKeepsSession` (`store_touch`): `README.md:85` lists chat among what refreshes the idle
   time. A chat refreshes it when its reply is committed: while the model answers, another
   request's purge may remove the session (the commit then creates it again).
2. `ReloadTakesEffect` (`skills_stale`): of two overlapping reloads the older scan may be
   installed last, so a reload that succeeded has no effect although `README.md:92` says it replaces the table
   with a new scan.
3. `GraceEndsProcess` (`shutdown_hang`): `README.md:837-838` says requests get a grace period and
   the process still exits. After it, main returns, and the runtime's drop waits for blocking
   threads without a limit.
4. `WritesAreAtomic` (`files_atomic`): `README.md:887` says "tmp + rename atomic write" (139, 871
   and 896 likewise). All calls on a file share one temporary name, so one may truncate it between
   another's write and rename, and a part of a file appears under its name, to stay there if
   the process dies. What is true of every interleaving is `WholeUnlessShared`.

Met while modelling, and modelled as the code has it or left out, without a run of their own:

- Compaction keeps all system messages, so more of them than the limit stay (`session.rs:38`, 58).
- A chat that is in flight when its session is deleted creates it again; a chat whose provider
  fails in a later round reports none of the calls it has executed.
- `list_dir` does not enter a directory that takes the last place and does not say so
  (`files.rs:2197`, documented at 2254); `ListingTellsCut` states exactly this exception.
- The stub's memory_read asks for `{"file":"MEMORY"}` (`lib.rs:927`), which the tool refuses
  (`tools.rs:252`).
- http_get cuts a text at a byte and panics within a character (`tools.rs:532`).
- `tags_to_text` repeats text after a `<` that is not closed (`tools.rs:1177-1223`),
  `decode_basic_entities` leaves an entity after a bare `&`, and blanks between them let more than two
  newlines through `collapse_whitespace`; `PagesShowTheirParts` is about pages whose parts are closed.
- memory_append and identity_write have no size limit, so the newest text may be cut from the prompt
  (`AppendedIsCutLate` says when).
- Doctor calls a half-made workspace good, and init refuses it afterwards without --force.
- Source labels name a variable whose invalid value was passed over; an invalid log level is
  reported but `info` is used (`main.rs:1917-1920`); an invalid or zero
  `JIACLAW_SHUTDOWN_TIMEOUT_SECS` falls back to the file's value, not to 15 as `README.md:328` and 461 say (as
  Configuration has it); a provider's key in the file
  goes before the environment's; a blank `JIACLAW_API_TOKEN` or webhook secret is taken as it is.
- `jiaclaw session import` takes a file it cannot read for an empty one and replaces it with one session.

## What is proved

All proofs are for any sets of sessions, tasks, requests, tools, answers and events and any limits
that satisfy the named assumptions (`HistoryAssumption`, `StoreAssumption`, `SkillAssumption`,
`ToolLoopAssumption`, `FilesAssumption`, `ShutdownAssumption`, `OffersAssumption`,
`LayersAssumption`, `FetchAssumption`, `PromptAssumption`, `ChunkAssumption`,
`ArgumentsAssumption`): limits are positive where the configuration's clamps or the constants of the code
make them so, what a tool returns by default is no more than it can return, and the value for "none" is
not a value. A hypothesis that is more than the types of the inputs is named below.

- **SessionHistoryProofs.** `HardTruncateFits`: truncation yields a history that fits, or one of
  system messages only. `CompactionFits`: so does every compaction. By counting the positions that
  are kept. `CompactionKeepsNewest`: what any compaction leaves of the conversation is its newest
  part, unaltered and without a gap. `TruncatingAgainLosesNothing`: truncating what a truncation
  left together with what was said since is truncating the whole conversation once; this is why it
  does no harm that every request truncates. The argument is about selections of positions: an
  increasing function onto a set of positions is the only one (`SelectionIs`), so a selection of a
  selection and one of a concatenation can be computed, and the newest positions are an upper end
  of the conversation.
- **ServeProofs**, of the store: `TypeCorrect`, then `FileFollowsStore` (`DiskMatchesMemory`, which is
  inductive given the types): one case per action, and two lemmas about what a save leaves behind, and
  about a purge, which every handler shares. `ExpiredNeverServed`: `ExpiredUnseen` is inductive once
  no task has arrived in the future (`ArrivalsPast`): what other tasks write between a handler's two
  sections is touched now, hence not expired at an earlier arrival. `HistoriesStayBounded`:
  `HistoryIsBounded` speaks of the stored histories, so the invariant adds that of the
  copies that chats carry, which a reply will be added to; it rests on `CompactionFits`. The one history that may be longer is exactly
  what the chat that created its session sent and was answered (`FirstStored`), and the next chat compacts it. `TurnsAreKeptApart` (`TurnsNeverMix`): the
  invariant is that in every history in the store, in the file and in the copy of a chat, a reply
  follows a message of its own turn, and that a waiting copy ends with the turn that waits
  (`RepliesFollow`). Its hypothesis `ChatsAsk`, that each chat asks a question, is what all callers in the program
  do and is needed: the handlers take a request of system messages only, and the reply to it follows
  another turn's. `HistoriesHaveNoHoles` (`HistoryHasNoHoles`): the turns of every history and copy are in
  order, what a turn was shown is earlier than it, and of what it was shown and is no longer held,
  everything is older than all that is held (`NoHolesAnywhere`); it rests on `CompactionKeepsNewest`.
  `TurnsHaveSeenTheirPast` (`TurnsSawTheirPast`): every reply in a history stands behind turns that its own
  model call was given; the invariant (`ThreadedAnywhere`) says it of the file too, and of a waiting copy
  that it holds nothing but what its turn was shown. What these invariants say of the store and of the file
  is carried from action to action by one lemma for any sets of histories (`KeptIn`, `StoredIn`).
- **ServeProofs**, of the process around it: `ShutdownImplementsStore`: every step of the composed
  specification is a step of SessionStore's or leaves the store alone, so its theorems hold through
  shutdown and restart (`StoreHoldsToTheEnd`). `CleanExit` and `DrainIsComplete`: with the facts
  that only chats can be detached (`OthersChat`) and that nothing but those run late after a drain
  (`DrainedLate`), neither a create nor any other unsaved change can follow the flush.
- **SkillRegistryProofs.** `TableIsOneScan`: the invariant adds that a scan in progress has found
  only what some version of the directory between its start and now holds (`ScansSound`).
  `TriggeredSkillsAreDescribed`: a reload cannot take from a chat what it has triggered, since the
  chat's own copy of the table holds it (`TriggeredAreHeld`).
- **ToolLoopProofs.** `TypeCorrect`: the counter never passes the limit, because a round that
  executes began below it (`BelowLimit`). `EveryCallIsReported`: the calls reported, those of the
  current round and those pending are, in this order, all calls ever made (`Ledger`). For the other three
  the invariant (`AccountInv`) adds that calls carry the number of their round and their place in it
  (`Numbered`), that the records of the round in progress are as true as those already reported
  (`AllTruthful`), that the metrics are right within a round as well (`CountsHold`), and that
  earlier rounds are paired while a later one executes (`PairsHold`): `ReportsAreTrue`,
  `MetricsAreExact` and `RoundsArePaired` follow. The step that ends a round needs the number of
  executed calls of two joined sequences, a fact on cardinalities of its own (`CountOfJoined`).
- **WorkspaceFilesProofs.** `TypeCorrect`, of which the part that needs an argument is that no two
  names are bound to one inode: the number of a call is its own, and no name is bound to the inode
  of that number until the call opens a file (`IdsFresh`). `FilesStayBounded` (`SizeBounded`): the
  invariant adds that no inode and nothing a call still means to write exceeds the limit
  (`ContentsFit`); writing over an earlier file from its start leaves the longer of the two.
  `MovesKeepTheirFile` and `MovesFindRoom` (`MoveKeepsFile`, `MoveFindsRoom`): from one invariant
  about what a move that is alone has found or done by its stage (`AloneKeeps`): its source and nothing in its way,
  an empty copy beside the source, or the whole copy. `FilesAreWhole` (`WholeUnlessShared`): from an
  invariant about who has which inode open (`WholeInv`). Two calls that have one open have tainted it
  (`SharedAreTainted`); one that is alone with it finds it as it left it (`AloneAsWritten`) and, but for
  file_write and a copy, hidden until its rename (`TmpIsHidden`); nobody copies from a temporary file
  (`SourcesAreFiles`); and a number that is given out again is in nobody's hands (`NumbersUnclaimed`).
- **ChannelDeliveryProofs.** `TypeCorrect`. `WebhooksKeepContract`: ChannelDelivery implements
  WebhookContract, for any events and proofs and any number of requests. A commit is a turn, a successful answer whose
  delivery succeeds closes its event, everything else stutters; the invariant supplies that only
  messages are chatted about and that an `ok` to a waiting request follows its commit.
  `AcknowledgedIsAnswered`: a message that waits for its answer is acknowledged only if some
  request of it was answered in its session. `ShownIsRemembered` (`SeenIsRemembered`): a commit replaces
  the history by the copy its chat was asked on, and a restart replaces it by the file, so the
  invariant (`RememberInv`) says of the copies
  too that they have every turn of their session that was over when they were made, unless an overlapping
  chat has written its own copy over it or a restart has not found it, and of the file that it has
  every such turn but those written since the last successful save.
- **AlgorithmsProofs.** The properties of compaction, of the layers and limiter, of globs and
  searches, of web requests and of reports, for
  every input and every limit, and then, as instances, on the inputs that `algorithms` enumerates
  (`...InCalls`). `TruncationIsTheCodes`: the truncation by positions is the one by two filters and a
  skip. `RecentSurvive`: the newest messages survive every compaction unaltered. `LayersAlwaysNest`:
  the order of the layers, for every request and state of the bucket. `LimiterIsHonest`: the times the
  code announces are right against any bucket of the external limiter, by the
  arithmetic of the two roundings. Its hypothesis is `PerMinute # 0`: with 0 the layer is not
  there. `SegmentsMatchMeaning`: the loop that goes back to its last star only accepts what the
  pattern means. Its invariant (`Keeps`) is that whatever the pattern means of the text it still
  means from the present place or with the last star taking more, and that a longer stretch
  for that star leads nowhere but behind the present place, so no earlier star has to be tried again; a
  measure (`Progress`) shows that the turns allowed by `GlobSteps` are enough. `PathsMatchMeaning`:
  the same for `**` over the segments of a path. `PagesAlwaysJoin`: the pages of a
  file, by the arithmetic of their ends. `TreeSearchesAreComplete`: what a walk has found is
  compared, entry by entry, with what there is in the part of the tree that it has seen; once a limit
  has been met it stays met and is told (`GrepVisitKeeps`, `GlobVisitKeeps`, `ListVisitKeeps`).
  `MemorySearchesAreComplete`: a window has the query in its middle line, the windows of a file are one for
  each such line, in order (`WindowsAdd`), and a target is taken up once (`PathsAdd`). `FetchIsAlwaysBounded`:
  after every reply the time left, the hops left and the hosts asked are what the deadline, the
  limit and the check's own lookups say (`FetchStepKeeps`), whatever a lookup finds; the wait is rounded up to a second, hence the second in the statement.
  `AnswersAreAlwaysBounded`: a cut keeps the beginning. `ReportsAreAlwaysTrue` and
  `AgentIsAlwaysAsReported`: each section of the settings follows the rules (`SectionsAreTold`,
  `SettingsAreTold`), and the rules tell the truth whatever variable and file hold.
- **ContentProofs.** What is kept of given contents, of any length. `AcceptedAlwaysReachesPrompt`,
  `AppendedIsAlwaysCutLate` and `FilesAlwaysReachPrompt`: the beginning that `truncate_utf8` leaves is the
  only longest one that fits (`TruncatedIs`), bytes add up under concatenation, and the prompt is the
  sections of the files that have one. `ImportsAreAlwaysWhole` and `ExportAlwaysComesBack`: lines
  that parse are messages one for one, up to the first that does not (`MessagesAdd`).
  `InitIsAlwaysRepeatable`: the steps of an init that is repeated make good what a failed one has
  left (`FailedInitKeeps`, `SameInTheEnd`). `SkillListsAlwaysAgree`: what one listing passes over is what another
  fails on, and all four are told by whether `skills/` can be read. `StreamsAlwaysShowReply`: the chunks
  joined are the text cut so far, and every chunk but the last is full or ends a sentence (`ChunksGoOn`).
  `ReplAlwaysKeepsTurns`: the history is that of the turns answered so far (`ReplGoesOn`).
  `StubAlwaysEnds`: once calls have been executed the last message is their results, on which the stub answers
  without another call (`AfterIsAnswered`), whatever the texts it quotes hold; a call written out in the user's message is never executed. `ParsersAlwaysKeepSchemas`: the property is cut into one for each
  parameter (`ParameterIsKept`), which is shown once for each way in which a parser reads a value
  (`TextIsKept`, `ChoiceIsKept`, `NumberIsKept`); a tool keeps to its schema if its parameters do
  (`KeptByParameters`), and the two tools with aliases are shown by themselves.

Induction over an input goes by the least counterexample (`LeastNatural`, from the library's
well-foundedness of the naturals): a property of all lengths or places is a set of numbers, and that
set has no least element. In the same way two functions that solve one recursion are shown to be equal.
What a recursive function computes is proved together with its being defined: `KeptRecursion` takes a
first value and a step, as functions and not as operators, and for each length a set that the first
value is in and each step keeps to; it concludes that the recursion has a solution and that the solution stays
in these sets.

Type correctness of SkillRegistry, ChannelDelivery and GracefulShutdown (`LifecycleTypeCorrect`)
is proved and not run.

Only model-checked:

- the liveness properties (`ExpiredLeaves`, `TurnEnds`, `ShutdownEnds`, `DeferredIsAnswered`),
  which the prover does not do;
- `PagesShowTheirParts`, which is about pages made of sixteen given kinds of parts: the rewrites go over the
  whole text of a page, and that each leaves the others' parts alone is a case distinction over pairs
  of kinds; `Collapse` is a fold of the community modules, which takes an operator as its parameter.

## What is not modelled

Texts, formats and wording, but where a property is about them; binding an address and the routes;
the HTTP exchanges of providers and platforms and their JSON; the length of the heartbeat's
interval; directories (mkdir, moves of directories), refused paths and symbolic links in
WorkspaceFiles; a `jiaclaw session import` beside a running serve; what file_list, json_query, http_get and other simple
tools answer, beyond their arguments; the OpenAPI document, which is static. The store's handlers
read the clock just before they lock, the model in the lock: a purge may be late by the wait for
the lock. A mutex that is poisoned by a panic is left out: no lock section can panic.
That a save writes its temporary file before it renames it is taken for granted in SessionStore and
ChannelDelivery, where a save is one step. `ParsersKeepSchemas` is about what a schema allows; that aliases of one argument which disagree are refused
is in the parsers' definitions and no property is about it. Nothing is said of the address that the HTTP client connects to in the end, only of
the one that web_fetch has checked.

## What is left

1. `PagesShowTheirParts` for any number of parts, with `Collapse` as a recursive function.
2. Directories and links in WorkspaceFiles.
3. A second process on the sessions file, composed with SessionStore's saves.
4. ToolLoop composed with the chat between `PrepareChat` and `CommitChat`.
