# Elai Code: a verification project

Elai Code is a coding agent written in Rust: an agent loop that calls a model
and runs tools, a terminal front end, and an HTTP server that runs many
sessions at a time. This directory holds TLA+ models of the parts of it where
the order of steps matters, the TLC configurations that check them on small
instances, and TLAPS proofs of what matters most for instances of any size.

Every definition is a translation of the code under `src/rust/crates/`; the
`map` in `PROJECT.json` names, for each, the lines it stands for.

Contents: 1 the system; 2 the modules; 3 the runs; 4 the bounds; 5 fairness;
6 proofs; 7 where the code departs from what it says; 8 what is not modelled;
9 the plan.

## 1. The system

| component | state it keeps | operations | what makes it hard | what makes it correct |
|---|---|---|---|---|
| **HTTP session: turns** (`server/src/routes/sessions.rs`, `permission_bridge.rs`) | the turn slot `current_turn`, cancel flags, `runtime_state` (conversation, usage), `pending_permissions` | send a message, cancel, decide a permission (HTTP or WebSocket), compact, resume, delete | turns run in blocking threads beside the handlers; the conversation is copied and written back; handlers are dropped when their client hangs up; a turn waits for a user | turns exclude one another; no stored turn is lost; an answer reaches the request it was meant for; a wait ends |
| **HTTP session: event log** (`session_store.rs`, `stream_events`) | `seq_counter`, `event_history`, a broadcast channel, one receiver per stream | publish, subscribe with `since`, read, leave | three steps per event with awaits between them; a copy of the history precedes the subscription; receivers lag | each number once, bounded disorder, a stream sees what it asked for |
| **Agent loop** (`runtime/src/conversation.rs`, `message_repair.rs`, `compact.rs`) | the session's messages, the usage tracker, failure counters | run a turn: repair, compact, call the model, authorize, run tools | retries after a too-long prompt, a breaker, errors in the middle of a turn | tool calls and results stay paired; retries are bounded |
| **Terminal front end** (`elai-cli/src/main.rs`, `tui.rs`) | `thinking`, the queue of messages, the overlay, the shared session and its file, three channels | type, queue, cancel, answer a dialog, commands, one thread per turn | nothing stops a thread; the end of a turn arrives over two channels; dialogs replace one another | the spinner belongs to a turn; nothing typed is lost; a thread that asks is answered; the file holds what memory holds |
| **Strict-write transactions** (`elai-cli/src/swd.rs`) | snapshots of files, the actions done | snapshot, execute, verify, roll back | the n-th action fails; a write is cut off; files that cannot be read; other programs | all or nothing, and a truthful report |
| **Plugins** (`plugins/src/lib.rs`) | directories, `registry.json`, `settings.json` | install, update, uninstall, enable, disable, list (which syncs the bundle) | an operation stops between or within its writes | the three agree; a listing mends |
| **SaaS conversations** (`server/src/routes/messages.rs`, `state.rs`) | rows in a database, one channel per conversation | post a message, generate, stream | answers generated side by side share a channel whose end is a sentinel; receivers lag | a stream gets its answer and ends |
| **Model providers** (`api/src/providers/openai_compat.rs` and the readers of its stream) | blocks, calls and their arguments as far as they came | ingest a chunk, finish, read | calls come in pieces, mixed, their names late; three readers differ | each call reaches the loop once, with its arguments |
| **Provider orchestrator** (`api/src/orchestrator/`) | a slot per provider: rate, calls, status, `degraded_until` | select, call, fall back, trip | status, rate and cooldown change at different times | a tripped provider is left alone, then tried again |
| **Language servers** (`lsp/src/client.rs`, `manager.rs`) | waiting requests, open documents with versions, the pipes | open, change, close, request, shut down, read | calls share a pipe and several locks; the server asks too, writes nonsense, dies | a request ends; client and server agree on what is open |
| Permission policy (`runtime/src/permissions.rs`, `routes/tools.rs`) | mode and requirements of tools | authorize | combinations of mode, tool and prompter | no tool above its mode runs unasked |
| Auto-dream lock (`runtime/src/auto_dream/`) | a lock file with a holder and a time | acquire, release, roll back | several processes; a holder that died | one holder; a failed run can be tried again |
| Background tasks (`runtime/src/tasks/`) | a registry of tasks | spawn, poll, kill, finish | a kill races the end | an ended task stays ended |
| **MCP clients** (`runtime/src/mcp_stdio.rs`) | child processes with their pipes, tool routes, request ids | spawn, initialise, list, call, shut down | a caller that leaves while it waits, a server that speaks out of turn or dies, a discovery that breaks off | a tool that is shown has a route; an answer belongs to its request |
| Tool catalogue, budget, usage (`tool_catalog/`, `budget.rs`, `usage.rs`) | counters | record, check | limits at their edge | counted once |
| Authentication, files, configuration, slash commands, code index, scripts, mascot, pricing | mostly none, or files | I/O and translation of data | little that is concurrent | outside this project, see section 8 |

The components in bold are modelled, at least in part.

How they interact. A client posts a message; the handler `send_message` takes
the session's turn slot and spawns a blocking task, which runs the agent loop
on a copy of the conversation. The loop asks the permission policy, which asks
the `HttpPermissionPrompter`; that puts a request in `pending_permissions`,
publishes an event and blocks until a handler answers it. When the loop
returns, the task writes the conversation back, publishes what happened,
counts the tokens and empties the slot. Every event goes through `next_seq`
and `publish` and reaches the clients through the history and the channel. The
loop calls the model through a provider client, which may be an orchestrator of
several, and tools through the catalogue and the hooks. The tools of MCP servers
are discovered when the terminal starts and shown to the model; calls of them
are made by a route of the HTTP server only (section 7).

The terminal runs the same loop: its UI thread takes a copy of the session for
each message, a runtime thread runs the turn, asks for permission through two
channels, writes files through the strict-write handlers, and stores its copy.
Both front ends read streamed answers through a provider client. The hosted
conversations share the server with the sessions but none of their state; the
plugins are changed by a command of the terminal; the language servers are a
library that `runtime` exports and no other crate of the workspace calls yet.

## 2. The modules

### SessionTurns, SerialTurns

`SessionTurns` models one session. A turn is a value of `Turns`; `phase[t]`
is the program counter of its handler, then of its task:

    new -> claimed -> snapshotted -> running -> stashed -> replayed -> counted -> ending -> finished
      |        \____________\-> dropped   |  \-> failed ---------------------------^
      \-> rejected (409)                  \-> requesting -> waiting -> running

| variables | code |
|---|---|
| `current_turn`, `cancel_flag` | `SessionData.current_turn` and the `cancel_flag` of its handle |
| `conversation`, `usage` | `SessionData.runtime_state`; a conversation is the turns it tells of (`said`) and those whose messages are still there (`kept`) |
| `prior` | the copy the task takes at its start |
| `pending_permissions`, `asked`, `answer`, `executed` | the map of `PendingPermission`s, the requests made, what their oneshot channels carried, the tools run |
| `registered` | history: the decisions a client was told are registered (204) |
| `event_history` | the events published, as a set; `TurnsInOrder` compares it before and after a step, the numbers belong to `EventLog` |
| `compaction`, `copy`, `missed` | a compact call between its read and its write; `missed` records the turns stored meanwhile |
| `stored`, `known` | whether the session is in the store, and what a handler that looked it up before its deletion can still reach |
| `ws_open` | whether the permissions WebSocket is open: it is opened for a session in the store, and a delete does not close it |

One action stands for one stretch of code between two awaits or under one lock
(`SendMessage_Claim`, `SendMessage_Snapshot`, ..., `RunTurn_Stash`, ...,
`Compact_Read`, `Compact_Write`). A handler can be dropped at each of its
awaits (`SendMessage_Drop`, `CancelTurn_Drop`), which is what axum does when
the client hangs up; a spawned task cannot.

`SerialTurns` is the promise behind the slot: a turn begins, adds itself to the
conversation in a single step, and ends. `SessionTurns` implements it under the
mapping `runner <- current_turn, said <- conversation.said` where nobody
cancels, compacts or imports (`ImplementsSerial`).

### EventLog

`EventLog` models the log of one session. A publisher takes a number
(`NextSeq`), appends under the history's lock (`Push`) and sends (`Send`); a
handler may be dropped while it awaits the lock (`DropPublisher`). A stream
copies the history (`OpenStream`), subscribes later (`Subscribe`), yields the
copy (`Yield`), then the channel (`Receive`), and may close and be reopened
with the `since` its client remembers (`CloseStream`, `OpenStream`). As the
history only grows, the copy is kept as a range of positions. The channel is
tokio's: a full receiver loses its oldest value (`Enqueue`, external).

### AgentLoop

`AgentLoop` models one `ConversationRuntime` over any number of turns. A message
is its role, the calls it makes and the calls it answers; a summary is the one
`system` message. `phase` is the place in `run_turn`: `idle`, at the `top` of
the loop, `awaiting` an answer, in the `tools`.

| variables | code |
|---|---|
| `messages` | `session.messages`, which the repair of each request rewrites |
| `failures` | `consecutive_compact_failures`, which outlives a turn |
| `iterations`, `ptl_retries`, `pending`, `spoken` | the locals of `run_turn`: its counters, the calls without a result, whether `assistant_messages` holds one |
| `limited` | whether `max_iterations` was set (sub-agents) or is `usize::MAX` |
| `outcome` | how the last turn ended |

`Repaired` is `validate_and_repair`, pass by pass; `Compacted` is
`compact_session` with its sequence of settings; `Retries` is what
`try_compact_for_ptl_retry` goes through. The provider is the environment: it
answers with text, with calls or with nothing, refuses as too long
(`Refused`), or fails (`Fail`). A tool call leaves exactly one result whether it
ran, failed, was denied or was stopped by a hook, so `RunTool` is one action.
SessionTurns uses the whole of a turn as one step that succeeds or fails.

### TuiSession

`TuiSession` models the full-screen terminal: the UI thread, going round
`drain -> key -> outcome -> act`, and a runtime thread per message sent, which
goes `building -> running (<-> asking) -> committed -> told -> over`.

| variables | code |
|---|---|
| `ui`, `action` | where `run_tui_repl` is in its loop, and the `TuiAction` it performs |
| `app` | of `UiApp`: `thinking`, `message_queue`, `pending_outgoing`, the overlay |
| `msgs`, `perms`, `outcomes` | the three channels to the UI |
| `session`, `disk` | the shared `Mutex<Session>` and the session files; a session is the set of turns whose messages it holds |
| `turn` | per thread: its place, its copy (`base`) and the answer it waits for |
| `typed`, `interrupted`, `doubled`, `replaced` | what was typed so far, and history for the properties |

`Drain` is one poll: every waiting message in order (`ApplyTuiMsg`), then at
most one permission request. `Key` is one key, which goes to the overlay when
there is one. `Perform` is the action of the round: `SendMessage` starts a
thread, the commands clear, replace or compact the session. `Commit`, `Tell`
and `Report` are the end of a thread: it stores its copy, sends `Done`, then
sends its outcome.

### SwdFiles

`SwdFiles` models a tool call in partial mode (`StartTool`) and a batch in full
mode (`StartBatch`). A tool call finds its file by the input's `path`
(`execute_with_swd`, `main.rs:7558`, `7580`); one of the write tools,
`NotebookEdit`, has none, and its calls (`mode = "notebook"`) have no snapshot
(`SnapshotFor`), no verification and no rollback. `Execute` does the next action with one of its `Effects`
(success, failure, failure with a torn file), `RollBack` puts one snapshot
back, in reverse and with errors ignored, `Verify` compares every action with
the snapshot taken before it. A file may exist and not be readable, and
`WriteElsewhere` is another program. A hash is the content it is of.

### PluginStore

`PluginStore` models `PluginManager` by what it keeps on disk: `dir`,
`registry` and `settings`; the two files may be cut off and no longer parse. An
operation is `Begin` and then one action per write (`Files`, `Register`,
`Entry`; a listing has `Sync` and `StoreSynced` of the bundle and `Discover`).
`Stop` ends it between two writes or within one, which is what an I/O error
and the end of the program both leave. `Upgrade` is a newer program. `debris`
is history: the plugins an operation may have left unfinished.

### ConversationStream

`ConversationStream` models one hosted conversation: POST handlers with the
generations they spawn (`post`), stream handlers (`stream`), the map entry and
the channels ever made (`entry`, `channels`). `Missed`/`OrInsert` are the two
looks of `get_or_create_channel`, under the read and under the write lock. A
POST stores the question; its generation fails, or sends its answer in pieces,
stores it and sends the end; a stream shows what it reads until the first end.
What goes through a channel is text, and `reads` is what a message reads as: an
end (`__done__`, or a text that begins with `__error__:`), a text, or one that
was garbled. An end is told by that alone (`IsEnd`), so that a piece of an
answer may be one (`Says`), and the pieces are cut every 80 bytes and decoded
one by one: a cut within a character garbles the piece before it at its end and
the piece behind it at its beginning (`Splits`, `Lossy`). `rows` is the messages
table, as a set.

### ModelStream

`ModelStream` follows one streamed answer from the provider's chunks
(`Deltas`, external) through `StreamState` (`Ingest`, `Finish`) to the tool
calls the loop is given by three readers (`route`): a sub-agent, which keeps
open calls by block, the terminal, which has one slot, and the terminal behind
the orchestrator, which collects the answer and replays it (`Collected`,
`Replay`). The arguments of a call are the numbers of their pieces.

### Orchestrator

`Orchestrator` models selection, fallback, and the success rate and breaker
of each provider. Rates are exact, in units of `1/10^MaxCalls`. Latencies are
not modelled: `Orders` are all orders that some latencies allow. Requests do
not overlap, as the runtime owns its client and waits for each.

### LspClient

`LspClient` models one connection and one document. A call of the manager goes
through `check`, its writes to the document (`send_open`, `insert`; `bump`,
`send_change`; `send_close`, `remove`) or its request (`register`, `ask`,
`await`), a step between two locks each. `ReadMessage` and `ReadEnd` are the
task of `spawn_reader`, `Wake` is the removal of a sender from
`pending_requests`. The server is the environment: it reads and answers when it
likes (`Serve`, `Respond`), writes a request of its own or nonsense
(`Interject`), and dies (`Die`). `clashed` is history: which kinds of work on
the document overlapped.

### McpManager

`McpManager` models the children of one process and what it knows of their
tools. An operation (`op`: discovery, call, shutdown) holds the manager and goes
from `ready` (`Spawn`, `Initialize`, `AlreadyReady`) to `ask`, awaits its
answer (`ReadResponse`, which takes one frame, whatever it answers), and goes
on to the next page (`Learn`, `NextPage`) or the next server. A caller can leave
at each await (`Dropped`). `process` holds the two pipes of each child; the
servers are the environment (`Reply`, `Interject`, `Die`). `mixed` and
`mistaken` are history: whose frames are no longer one per request, and who was
believed to answer another request. `mcp_tool_name` is a constant, `NameOf`: any
function from servers and tools to names, as the normalisation makes one name of
many, within a server too (`x.y` and `x_y`). `Learn` leaves a name with the last
tool of the page that has it. The terminal discovers and never calls, the
HTTP server the reverse; the model is of a caller that does both, as the tests
are.

### MCComponents

These eight share no state: the terminal, strict writes, plugins, hosted
conversations, streamed answers, the orchestrator, the language servers and the
MCP clients. `MCComponents`
instantiates them side by side; a behaviour picks one at the start (`active`)
and the others rest in one initial state, so that the states of the run are the
sum and not the product of theirs. `Spec` is what the theorems are about, `FairSpec`
adds the fairness of each component. Names two modules use for different things
are substituted (`outcomes <- transactions`, `reader <- lsp_reader`,
`MaxChunks <- MaxParts`,
`op <- mcp_op`, `next_request_id <- mcp_request_id`, `MaxRequests <- MaxAsked`).

### Faults

An operator whose name starts with `Fault_` is the form a plausible bug would
give the definition that follows it (a dropped check, a missing reset, a
swapped order). No specification uses them; each property is shown to fail
when one of them takes the place of the definition, so that no property holds
for want of anything that could break it.

## 3. The runs

| run | instance | what it shows |
|---|---|---|
| `turns_permissions` | 2 turns, 1 cancellable, 1 request each, fair | requests in the map belong to a turn that waits for them (`PendingOwned`); a waiting turn can be answered (`WaitersReachable`); tools run only when allowed (`ToolsOnlyOnApproval`); a handle in the slot has an owner or a client that hung up (`HandleOwned`); turns exclude one another, but that at most one more runs for each cancel accepted (`OverlapBound`); a decision that was reported as registered stands, whoever else answered (`DecisionsStand`); the events of a turn enter the history between its start and its end, but for `TurnCancelled`, and until a cancel those of two turns do not mix (`TurnsInOrder`); every spawned task ends while the session is in the store or a socket is open (`SpawnedTurnsEnd`) |
| `turns_conversation` | 2 cancellable turns, 1 compact call, imports | a stored turn is lost only to a cancel, an import, or a compact call that read before and wrote after (`StoredTurnsKept`); failed turns leave nothing (`FailedTurnLeavesNoTrace`) |
| `turns_serial` | 3 turns, no cancel | the session implements `SerialTurns` |
| `turns_cancel_overlap` | 3 cancellable turns | violated: two turns nobody cancelled run together |
| `turns_usage_sum` | 2 turns | violated: the session's usage is not the sum over its turns |
| `log_streams` | 2 publishers, 1 of them a handler, 1 reader, channel of 1 | every number is in the history once, on its way, or died with its handler (`NumbersAccountedFor`); disorder is bounded by the publishers (`OvertakingBounded`); a stream that keeps up misses only what was sent between its copy and its subscription (`MissedOnlyInWindow`); what it holds is read (`UnreadIsRead`) |
| `log_since_gap` | 1 publisher, 1 reader | violated: a stream that asks for everything gets everything |
| `agent_turns` | turns without end, 4 call ids, histories of 10 messages, fair | requests are well formed however compaction cut the history (`RequestValid`); no result is lost while its call is kept (`NoResultInvented`); the circuit breaker never opens (`BreakerStaysClosed`); refusals end (`RefusalsEnd`) |
| `agent_silent_ok` | as above, histories of 8 | violated: a turn that ends well has said something |
| `agent_retry_grows` | as above, histories of 8 | violated: a retry has no more messages than what was refused |
| `components` | the eight components of `MCComponents`, bounds in section 4, each with the fairness of its module | terminal: the spinner belongs to a turn whose end is to come (`ThinkingIsOfATurn`), a queued message has a turn that will send it (`QueueHasATurn`), what was typed is not lost until one poll drains two ends (`NothingTypedVanishes`), the file holds what memory holds when all is quiet (`SavedWhenQuiet`), a thread that asks is answered (`AskingEnds`). Strict writes: a failure leaves every file as it was, or as one of the named exceptions leaves it (`FailureLeavesNothing`), a verified file holds what the last action was to leave (`VerifiedIsLast`). Plugins: directory, record and setting agree after success (`PluginsAgree`), a listing mends (`ListingMends`). Hosted: a stream shows the pieces of an answer, all up to the first that reads as an end (`WholeAnswer`), and ends (`StreamEnds`). Streamed answers: calls arrive once and whole, with the exceptions of two of the readers spelt out (`CallsArrive`). Orchestrator: status, rate and cooldown go together (`BreakerConsistent`). Language servers: a request ends unless the stream ends cleanly (`RequestsEnd`), client and server agree on the document unless calls on it overlapped (`DocumentsAgree`). MCP clients: under the name of a tool that is shown a call finds a tool of its server, wherever discovery broke off (`ToolsShownAreRouted`), and an answer is that of its request unless the server spoke out of turn or a caller left (`AnswersMatch`) |
| `tui_work_lost` | 3 messages typed, nothing interrupted | violated: no step but a command takes the messages of a turn out of the session |

Deadlock is not checked in the run of the components, each of which comes to
rest when its inputs are used up, nor in the runs of the session and its log: turns, numbers
and calls are bounded, and a session in which all have been used rests. It is
checked in those of the agent loop.

## 4. The bounds, and why they are enough

* `Turns`: two turns are the smallest number that can exclude, overlap, or
  overwrite one another; a third shows that the slot emptied by a cancelled
  turn was that of another (`turns_cancel_overlap`) and that the serial order
  survives a turn between two others (`turns_serial`).
* `MaxAsks = 1`: a turn makes its requests one after the other, and a second
  request meets the states the first has met; the proofs hold for any bound.
* `Compactions`: one call, as two compact calls lose turns in the way one does.
* `MaxSeq = 3`, `Capacity = 1`: one event in the copy, one in the window before
  the subscription, one in the channel; a channel of one lags on the second
  event it is sent.
* `Cancellable`, `Importing`, `WsFrames` switch behaviours on and off; each run
  names the ones it studies.

* `MaxMessages = 10`: the default keeps four messages, so ten hold a summary, an
  opener, an answer with parallel calls cut in two, and a turn behind it; only
  inputs and answers with calls are kept from growing the history further,
  never a repair or a compaction. `Calls` has four ids: two batches of two, or
  one of four; an id is free again when it is in no message. `MaxIterations = 4`
  lets a limited turn end in the middle of its retries; an unlimited one counts
  on, and the counter rests one past the limit as only `> 1` is asked of it.

In `components`:

* Terminal: two messages with up to two interruptions (dialogs, pickers,
  Ctrl+C, commands, quota errors), or three with one (`Inputs`). Two turns are
  what can overlap; the third is the one that waits behind both.
* Strict writes: two files, one of them there at the start, two contents, two
  actions. Two actions on one file and one on each are the cases that the order
  of rollback and of verification tells apart; the theorems hold for any number.
* Plugins: one external, one bundled, two versions. An operation touches one
  plugin, a listing all; the theorems hold for any number.
* Hosted: two posts, one stream, two pieces, a channel of two, which lags on
  the third event. Streams do not influence one another. Each piece of one of
  the posts may read as an end, and the cut between them go through a character;
  the other is answered in plain text (`Plain`): two answers that are not plain
  meet only where generations overlap or one follows the other, where a stream
  has ended or reads on in the same way whatever the first of them said.
* Streamed answers: two calls of up to two pieces in up to three chunks, beside
  text and thinking: two calls mix, a name comes after the arguments, a call
  is cut off in between.
* Orchestrator: two providers, five calls, a cooldown of two ticks, five ticks:
  four failures trip (0.7^4 = 0.24), a fifth call after the cooldown trips
  again or mends.
* Language servers: two calls, the document open or closed at the start, each of
  the five kinds: every pair of steps meets. The server's own number is one of
  the two that requests get.
* MCP clients: two servers with two tools each, of which one has a name of its
  own and the other three share one (`SomeNames`: two of one server, and two of
  different servers), four requests: a discovery of both servers, one of a server and a
  call, a page more, a second discovery, a start after a shutdown. The theorems
  hold for any number of each.

Most invariants of the session and log runs are also theorems (section 6), so
that there the bounds matter only for the liveness properties.

## 5. Fairness

`TaskFairness` (SessionTurns) lets every spawned task go on: a blocking thread
runs until it ends and each lock is held for a bounded time. A handler that
holds the slot goes on or is dropped. `UserFairness` is no property of the
code: nothing makes a user answer, and the wait in `permission_bridge.rs` has
no timeout. It is an assumption about users who can answer, over HTTP while the
session is in the store or on a socket while one is open, is stated apart, and
is why `SpawnedTurnsEnd` promises nothing once the session is deleted and no
socket is open. Nothing is assumed of clients that send,
cancel, open sockets, or hang up.

`Fairness` (EventLog) lets a publisher that has a number append and send, and
polls a stream whose client stays. Nothing makes a task publish again or a
client connect.

`FairSpec` of AgentLoop says that a turn that runs keeps running: `run_turn` is
a loop in one thread, and the provider and the tools return. It is weak fairness
of `RunTurn` with its enabling condition (`phase # "idle"`) written out, which
spares TLC the evaluation of the repairs under `ENABLED`. No answer is assumed:
`RefusalsEnd` holds against a provider that refuses every request.

`TuiSession`: the UI thread goes round its loop and the threads run on; a model
answers. They are written as `WF_ui(UiGoesOn)` and `WF_turn(ThreadsGoOn)`,
with actions that are easy to enable and mean the same as weak fairness of
`UiStep` and of the thread steps. `UserCloses` is an assumption about the user,
who closes an overlay in the end; nothing is assumed of typing or cancelling.
`ConversationStream`: a generation that began goes on (the provider answers or
fails) and the client of an open stream reads. `LspClient`: calls and the
reading task go on, and a server that lives reads and answers, or dies. In
`MCComponents` each condition is stated for the behaviours of its component.

## 6. Proofs

Eight modules, `SessionTurns_proofs`, `EventLog_proofs`, `AgentLoop_proofs`,
`PluginStore_proofs`, `LspClient_proofs`, `McpManager_proofs`,
`ModelStream_proofs` and `Components_proofs`, prove, for any sets of turns,
requests, publishers, readers, call ids, plugins, files, posts, streams,
providers, calls and servers and any bounds:

| theorem | states | argument |
|---|---|---|
| `TypeCorrect` | `TypeOK` | with `Numbered`: a turn that waits has made a request, or `asked` could leave its range |
| `Exclusion` | `ExclusiveUnlessCancelled` | with `SlotNotCancelled`: the handle in the slot was never cancelled |
| `OrderIsKept` | `TurnsInOrder` | `EventInv`: what the history holds of a turn tells where it stands, so that whoever publishes, other than a cancel, is at work, and by `Exclusion` alone |
| `OverlapIsBounded` | `OverlapBound` | cardinalities: a step that adds an orphan adds a cancel, or takes the orphan that finishes away |
| `PermissionsCorrect`, `WaitersStayReachable`, `ToolsNeedApproval` | `PendingOwned`, `WaitersReachable`, `ToolsOnlyOnApproval` | with `PermissionInv`: a request is in the map, or answered, or not yet made |
| `RegisteredDecisionsStand` | `DecisionsStand` | `DecisionInv`: what was registered is what the channel of the request carried, as only an answer that takes the request from the map is registered and none comes back, and a turn goes on from a request with what its channel carried |
| `HandlesAreOwned` | `HandleOwned` | the task that empties the slot is the only one to leave `Active` other than by a drop |
| `StoredTurnsSafe` | `StoredTurnsKept` | `KeptInv`: what each copy, of a turn or of a compact call, holds of the turns stored so far |
| `FailuresLeaveNoTrace` | `FailedTurnLeavesNoTrace` | `TraceInv`, `OneVerdict`: a turn that can still fail is in no conversation and no copy, and no turn both fails and succeeds |
| `UsageCovers` | `UsageCoversTurns` | what is added is at least one turn's, as the copy is finite |
| `SerialImplemented` | `ImplementsSerial` | `SerialInv`; assumes `Cancellable = {}`, `Compactions = {}`, `~Importing`, the conditions under which the refinement is claimed |
| `LogTypeCorrect` | `TypeOK` of the log | with `Holding` (a busy publisher has a number) and `CopiesFit` (a copy is no longer than the history) |
| `NumbersSafe` | `NumbersAccountedFor` | `LogInv`: a number in flight has one holder and died with none |
| `OvertakingIsBounded` | `OvertakingBounded` | `FewLate`: behind an event, the smaller numbers that followed and those still in flight are together fewer than the publishers |
| `OnePublisherInOrder` | `HistoryInSeqOrder` | from the bound, for one publisher |
| `StreamsSafe` | `MissedOnlyInWindow`, `NothingInvented` | `InHistory`, `NoneLost`: each event sent is read, copied, queued, or in the window |
| `AgentLoop_proofs!TypeCorrect` | `TypeOK` of the loop | what repair, compaction and each answer make of a history is a history |
| `RequestsAreValid` | `RequestValid` | `Good` and `Opened`, below |
| `NothingIsInvented` | `NoResultInvented` | `Complete`: a call that is still there has its result behind it |
| `BreakerNeverOpens` | `BreakerStaysClosed` | `Talks`: a turn that runs has a message of a user or an assistant, so the last setting has something to remove |
| `PluginStore_proofs!TypeCorrect` | `TypeOK` of the plugins | with the shapes of operations under way (`OpOK`) |
| `PluginsAgreeAlways` | `PluginsAgree` | `FilesAgree`, `SettingsAgree`: what each step of an operation may rely on for the plugins it has not touched, and `BundleOrder`: no installed version of a bundled plugin is newer than the program's, without which a directory that needs no sync could hold other files than the bundle |
| `ListingMendsAlways` | `ListingMends` | from the same invariant: what a listing has synced and dropped stays so until the next operation |
| `FailuresLeaveNothing` | `FailureLeavesNothing` | `Found0`: a file that no action still to be rolled back is on is as it was found, or is gone and was not seen (`AsFound`), or is the torn one of the exception; `Taken`: what each snapshot tells of its file |
| `VerifiedIsLastAlways` | `VerifiedIsLast` | `Progresses`: a file holds what the last action executed on it was to leave; `OutcomesFit`: what is reported was seen |
| `StreamTypeCorrect`, `AllCallsArrive` | `TypeOK` and `CallsArrive` of streamed answers | `StreamInv`, below |
| `LspClient_proofs!TypeCorrect` | `TypeOK` of the client | with `Numbers`: the requests on the way to the server have been given out |
| `DocumentsAgreeAlways` | `DocumentsAgree` | `Agreement`, `Versions`: what the server will know of the document once it has read everything that is on the way (`OpenInEnd`, `ClosedInEnd`, `Bounded`), for each place at which a call between two locks can stand |
| `McpManager_proofs!TypeCorrect` | `TypeOK` of the MCP clients | with `Held`: what is being initialised is held, as only a shutdown lets go |
| `ToolsShownAreRoutedAlways` | `ToolsShownAreRouted` | `Routes`: each route is that of a discovered tool; a name that no other server has loses its route only to a tool of the same page or a later one of its own server (`HasRoute`, `RouteOf`) |
| `AnswersMatchAlways` | `AnswersMatch` | `Pipes`: of a server that spoke only when asked, both pipes are empty, or hold alone the request that waits or its answer |
| `ThinkingHasATurn`, `QueuesHaveATurn`, `NothingTypedIsLost`, `QuietIsSaved` | `ThinkingIsOfATurn`, `QueueHasATurn`, `NothingTypedVanishes`, `SavedWhenQuiet` | `TuiInv`, below |
| `BreakersConsistent` | `BreakerConsistent` | `EarlyRate`: two calls do not bring the rate to where it trips, so that the condition of three calls never keeps a provider with a low rate `Healthy` |
| `AnswersAreWhole` | `WholeAnswer` | `HostedInv`, below |
| `PluginsAgreeAlways`, `ListingMendsAlways`, `DocumentsAgreeAlways`, `ToolsShownAreRoutedAlways`, `AnswersMatchAlways` of `Components_proofs`, and `CallsArriveAlways` | the properties of the run `components` of the same components | a behaviour of the composition is one of each component, so the theorem of the component's own module holds for it |
| `ComponentsKeepTheirTypes` | `MCComponents!TypeOK` | the type of each component, from its own invariant; for the files with `BatchShapes`: one snapshot per action |

The agent loop (`AgentLoop_proofs`). What `RequestValid` asks is not inductive,
as compaction may leave results without their calls between two requests.
`Good(s, p)` is what every history has, `p` being the calls that wait: each
message is of a shape run_turn can append (`Plain`), a call is made once and
answered once (`Once`), each result stands in the row behind the answer that made
the call, or leads the history and its call is gone (`Placed`), and a call has
its result behind it, before the next answer, unless it waits (`Complete`,
`Waiting`). Compaction keeps it, because `SafeCut` cuts at no place where an
answer is followed by a result, so that what it parts off stands in front
(`CutKeepsGood`). The repair takes away just what stands in front
(`WithoutOrphansGives`), finds nothing missing (`CompleteMissesNothing`), and
puts a user's message first when an assistant's was left there
(`OpenedByUserGives`); `RepairKeepsGood` sums it up: the history is `Good` and
`Opened`, and that is `RequestValid`. The passes of the repair rebuild the history from one
piece per message; `Flattened` is the induction along it, carried out on a set
of natural numbers.

The terminal (`Components_proofs`, first part). `Drain` folds `ApplyTuiMsg` over
the channel; `FoldIsStepwise` shows that the fold is reached message by message,
and `PollGives` what all of them make of the state of the UI. `TuiInv` adds to
the three properties about turns what they need: an action lasts from the key to
the end of the round, and what is to be sent finds no turn shown as running
(`Round`); a message that waits does so in one place and has no turn yet
(`Fresh`); the file differs from memory only while a save is due (`SaveIsDue`).

The hosted conversations (second part). `HostedInv` follows the log of each
channel, which only grows: an answer whose generation was alone on its channel
is one run of the log, as far as it was sent (`Runs`), a message is from a
generation that got so far (`Origins`), and what a stream that never lagged has
got is a piece of the log, of which only the last message of a stream that
ended reads as an end (`Reads`). A stream that began with the first piece of such
an answer therefore got the run, up to the first message of it that reads as an
end, and its own end is one.

Streamed answers (`ModelStream_proofs`). The stream and its reader are two states
that meet only in the events, so the invariant is about what the reader would be
after the events not yet taken (`After`). `Told` relates that reader to the calls
of the stream: a call that was begun is open or passed on, once, with the pieces
that were passed on to it, and those are a beginning of the pieces that came.
`Matches` asks it of every reader by block, and of the terminal's single slot as
long as no two calls were open (`Clear`). An event changes the reader of one slot
(`Starts`, `Longer`, `Stops`), so that each step of the stream on one call keeps
`Matches`, and a chunk keeps it because each of its folds is a sequence of such
steps (`TakeUp` is one; the induction is again over a set of numbers). Between chunks
everything that came of a call with a name has been told (`Settled`), so that at the
end, when all calls have stopped (`Ended`), the reader has `Finished`: that is
`CallsArrive` for two of the routes. For the third, what was collected consists
of what was said and of the calls in the order of their blocks (`Consists`), and the
slot that hears the replay gives each call of it once, and the last one, which the
message's start left in the slot, a second time when a block of what was said
stops before the next call takes its place.

Strict writes (`Components_proofs`). `Found0` and `Progresses` say what the
files hold as long as nothing failed, and from the first failure on; `Taken` and
`Unread` what the snapshots of a file say, of one too that was there and could
not be read, and of a notebook, which has none.

The composition (last part). `Spec` of `MCComponents` implies the `Spec` of
each component under the substitutions of section 2 (`TuiSpec` to `McpSpec`): a
step of the active component is one of its `Next`, and all others stutter. Where the
proofs are in a module of their own, its definitions are shown to be the same:
for streamed answers by `EventsSame` to `AnswerTypesSame`, fold by fold.

The theorems of the components' own modules assume what they need of the
constants in their statements, and not as an `ASSUME`, because `MCComponents`
instantiates the modules: those about the plugins `Disjoint` (a plugin is
external or bundled, versions are numbers), those about the MCP clients `Sound`
(there is a server), those about streamed answers `Numbered` (finitely many
calls, each with a number that is not the block of text or of thinking).
`MCComponents` states as `ASSUME`s what its own theorems need:
`BoundsAreNumbers`, `MarkersAreApart` (the markers of a file that is absent or
torn are no contents), `BundleIsApart` (identifiers end in the name of their
marketplace), `BlocksAreApart` (the block of a call is its index plus one, of an
answer with fewer than 999 calls) and `ProvidersAreRated` (finitely many providers, and a `Scale` that
ten divides: the provers know nothing of powers, and 10^n is a multiple of ten
for any number of calls but zero).

The other assumptions are those the modules state (`TurnsAssumption`,
`BoundsAssumption`, `LogAssumption`, `LoopAssumption`): finite sets of turns and
publishers, a channel that holds at least one event.

Model-checked only: liveness under fairness, which is out of the prover's reach
(`SpawnedTurnsEnd`, `UnreadIsRead`, `RefusalsEnd`, `AskingEnds`, `StreamEnds`,
`RequestsEnd`). Every invariant and every action property of the passing runs is
a theorem.

## 7. Where the code departs from what it says

Checked, each by a run that must find the violation:

* `turns_cancel_overlap`: the task of a cancelled turn goes on and, at its end,
  empties the slot whoever is in it (`sessions.rs:458`), so that a third turn
  runs beside the second although the 409 says that another turn is running.
* `turns_usage_sum`: the tracker's usage is cumulative and the session adds it
  up (`sessions.rs:433`): earlier turns are counted again on every turn.
* `log_since_gap`: an event published between a stream's copy of the history
  and its subscription is in neither (`sessions.rs:528`).
* `agent_silent_ok`: an empty answer is taken for a graceful end when
  `iterations > 1` (`conversation.rs:500`), meant for the iteration after a tool
  call; the retry of a refused request passes for one too, and the caller gets
  `Ok` without a message.
* `agent_retry_grows`: every removed message counts as progress
  (`conversation.rs:645`). When the cut leaves an assistant's message in front,
  the repair puts a placeholder before it: the retry is longer, each further
  retry removes just the placeholder, and the more aggressive settings that would
  help are never reached.
* `tui_work_lost`: a thread of the terminal sends `Done`, on which the UI starts
  the next queued message, before its outcome, on which the UI clears
  `thinking` (`main.rs:2336`). A third message then starts beside the second,
  and the later commit (`main.rs:2469`) takes the messages of the other out of
  the session, though the comment there says that nothing be lost.

Seen while modelling, and visible in the modules, without a run of their own.
In the sessions and the loop:

* no code reads `cancel_flag`: a cancelled turn goes on to ask and to run tools;
* numbers are taken before the history's lock is awaited, so the history is not
  in the order of its numbers when two publishers race; a client that asks for
  what follows the last number it saw skips the late one. `OvertakingBounded`
  says how far this goes, `OnePublisherInOrder` when it does not happen;
* the frame the server's README shows for the WebSocket has no `type` and is
  skipped (`AnswerOnSocket` with the form `"untagged"`);
* a client that hangs up between the claim of the slot and the spawn leaves a
  handle nobody owns (`phase = "dropped"`): the session refuses every turn
  until that turn is cancelled;
* a compaction can part the results of parallel calls: `group_into_rounds` pairs
  an answer with the next message only, and `run_turn` gives each result a
  message of its own. The repair then drops the results left in front
  (`RequestValid`), though a test asks that a parallel batch stay whole
  (`compact.rs:1149`, where the results share a message);
* the last setting removes everything, the question of the running turn too: the
  retry may consist of the summary alone;
* the circuit breaker cannot open (`BreakerStaysClosed`), though a test is named
  for what it does when it has (`conversation.rs:1318`).

* `patch_session` reaches only later turns (`sessions.rs:200`), and a
  `TurnCancelled` may precede the `TurnStarted` of the same turn.

In the terminal: any command of the palette clears `thinking` (`main.rs:2888`),
as Ctrl+C does, and stops nothing; a key can answer a dialog that was not yet
drawn (`tui.rs:1855`); a queued text that begins with `/` is sent as chat
(`tui.rs:2182`); the list of allowed tools is loaded, changed and saved by each
thread without a lock (`main.rs:6393`).

In strict writes: a file that cannot be read looks like one that is not there,
so that a failing call deletes it and says that it was rolled back; a call of
`NotebookEdit` is neither verified nor rolled back, as it has no `path`; in a batch
the file of the failing write is not put back; the actions after it are reported
as rolled back without having run.

In the plugins: a `registry.json` that was cut off is never mended, a directory
copied half makes every listing fail, and two processes overwrite the records
of one another.

In streamed answers: the terminal's one slot loses all but the last of calls
that are open at a time; a collected answer carries its content in its first
event and again in its blocks, so that a text is shown three times and a last
call made twice; an empty body that was collected gives `Ok` and nothing.

In the orchestrator: the condition of three calls is implied by the rate
(0.7^3 is above three tenths); `max_concurrency` is not enforced; the rate
outlives the cooldown; errors of the client count against the provider.

In hosted conversations: pieces of 80 bytes part characters, which are garbled in
the stream and whole in the row (`messages.rs:219`); a piece that is the text of
a sentinel, or begins with it, ends the stream (`messages.rs:110`); an error of the database when
the answer is stored is dropped; an error is followed by an end.

In the language servers: a stream that ends between two messages leaves the
waiting requests and all later ones waiting, `shutdown` among them; a client
whose server died is kept; a request of the server with the number of a waiting
one is taken for its answer; versions can reach the server out of order.

In the MCP clients: the comment of `mcp_tool_source.rs:11` says that calls are
routed through the manager by the terminal, but a call of a discovered tool
finds no executor there ("unsupported tool", `tools/src/lib.rs:314`), while the HTTP
server has a route for calls and discovers nothing, so that each is an unknown
tool; a server that fails ends the discovery of all after it, and the terminal
says that it continues without MCP tools though those before it stay
(`main.rs:5802`); no id of an answer is looked at, so that after one
notification, or one caller that left, each answer is taken for the request
after its own until the manager is shut down; two tools of one server whose
names differ in a character that is normalised (`mcp.rs:7`) are both shown under
one name, which calls the second; nothing has a timeout; a child that died is still
held, counts as healthy and is not started again.

## 8. What is not modelled

`PROJECT.json` lists every component with its status, and for those without a
module why. In short:

* background tasks: nothing in the code sets a task to `Killed`, reads the flag
  that `kill` sets, or evicts, so that there is no life cycle to model;
* the auto-dream lock: check and write are two steps and nothing promises that
  one process at a time holds it;
* the permission policy: a decision without a state;
* rate limits, budgets, the response cache: a counter or a file behind one lock;
* authentication, configuration, routes without state, slash commands, the code
  index, scripts, the mascot, pricing: input and output, texts, arithmetic.

The map covers a small share of the repository, because most of it is text,
drawing, parsing and transport, and what has an order of steps is small.

Within the modelled components: `create`, `clone`, `list`, `get` and `export`
of sessions, which make or read a session and share nothing with a running
turn, and `patch_session`, whose model and mode reach only later turns. The
text of messages and the arithmetic of token counts are abstracted to which
turns they stem from. In the agent loop: texts and what shortens them (the
output budget, `micro_compact_messages`), the decision of the permission policy
and of hooks, the usage tracker and the saving of sessions. In the terminal:
drawing, the input line, what pickers configure, and the line mode, which has
one thread. In strict writes: the parsing of blocks, the log, the diffs. In the
plugins: manifests, the fetching of sources, hooks and skills. In streamed
answers: requests, transports, the other providers. In the language servers:
connecting, diagnostics, saving (which changes no state), locations. In the MCP
clients: resources, which no caller asks for; transports other than stdio,
which are refused; the parsing of frames; the routes that edit the configuration.

## 9. The plan

Done: the sessions, their log, the agent loop, the terminal, strict writes,
plugins, hosted conversations, streamed answers, the orchestrator, the
language servers and the MCP clients. What is left, in order of importance:

1. The composition of `SessionTurns` with `EventLog`: what `TurnsInOrder` says of
   the history, for a stream that joins late.
2. The registry of background tasks, once its `kill` is read.
