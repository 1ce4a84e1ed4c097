# Verification of claw-rust

TLA+ modules that model claw-rust, TLC configurations that check them on small
instances, and proofs that TLAPS checks for every value of the constants.  Paths
below are relative to `src/crates/`.

1. [The system](#1-the-system) — components, state, operations, what is hard
2. [Modules](#2-modules) — which module models what, and how
3. [Runs](#3-runs) — what each configuration checks, its bounds and fairness
4. [Proofs](#4-proofs)
5. [What the code does otherwise than documented](#5-findings)
6. [Limits](#6-limits)
7. [Plan](#7-plan)

## 1. The system

claw-rust is a gateway between chat platforms and an AI agent.  A message
travels

    platform -> channel plugin (poller) -> dispatch channel -> dispatch loop
      -> command queue lane -> agent runner -> model and tools
      -> transcript store -> reply through the channel's outbound adapter

with a channel manager that starts, restarts and stops the pollers, and a
WebSocket gateway beside it.  The desktop panel edits the configuration the
process is started with.  Everything is tokio: tasks interleave at awaits,
futures may be dropped at any of them, shared maps are behind locks that are
not held across awaits, and cancellation is a tree of `CancellationToken`s.

### 1.1 Components with state

| Component | State it keeps | Operations | Interacts with | Hard because |
|---|---|---|---|---|
| command queue `claw-dispatch/src/command_queue.rs` | lanes: semaphore, pending counter, token | add_lane, enqueue_command_in_lane, clear_lane, drain | dispatch pipeline (a closure it runs) | futures dropped at any await, a clear and the hand-over of a permit in the same moment, order of waiters |
| dispatch pipeline `claw-dispatch/src/dispatch.rs` | typing indicator, media file, the lane's command | dispatch_with_agent | queue, runner, reply bridge | early returns; what a cleared lane leaves behind |
| dispatch loop `claw-dispatch/src/bridge.rs` | the receiver of the dispatch channel | run_dispatch_loop | pollers, pipeline, Claude Code | one message at a time; shutdown drops what waits |
| agent runner `claw-agent-runtime/src/runner.rs`, `queue.rs` | active_runs, message_queues, transcripts | run_agent, queue_message, abort_run, wait_for_run_end | model provider, tools, transcript store | check, then insert; drain after a run; wake-ups; cancellation between tool calls |
| channel manager `claw-channels/src/manager.rs` (the application's) | an entry per account, a task per start | start_account, three stops, stop_all, restart loop | gateway adapters | stale tokens, statuses written by several loops, backoff |
| gateway channel manager `claw-gateway/src/channel_manager.rs` (library) | an entry per account, task handles | start_channel, stop_channel, mark_channel_logged_out, shutdown, restart loop | gateway adapters | a task stored after it was spawned, a stop during a backoff, a shutdown that awaits tasks |
| Telegram poller `claw-telegram/src/gateway.rs`, `file_resolver.rs` | offset, downloaded files | start_polling | Telegram server, dispatch channel | lost responses, offsets, files of one name |
| Telegram adapters `claw-telegram/src/adapters.rs`, `outbound.rs` | bots, streamed drafts | start and stop of accounts, posts, edits, reactions, downloads | Bot API | an answer that is lost; an edit that changes nothing; paths two messages share |
| Discord and WhatsApp `claw-discord/src/gateway.rs`, `claw-whatsapp/src/gateway.rs` | connection, reconnect counter | start_account | channel manager | a stop during a reconnect's delay |
| outbound delivery `claw-channels/src/outbound.rs` | the results so far | deliver_reply, deliver_with_retry | outbound adapters | a chunk sent though the call failed; cancellation in a delay |
| subagents `claw-agent-runtime/src/subagent.rs` | entries and counters of children, announce channel | spawn, set_state, remove, cleanup_orphans | no caller in the application | key and registration in two lock sections |
| tools `claw-agent-tools/src` | policy layers, registry, hooks | add_layer, register, execute_tool_call | agent runner | a decision that depends on the order of layers; a result that hooks replace |
| agent workspace `claw-agent-workspace/src/workspace.rs` | a cache shared by clones | read_workspace_file, reload_file, reload_all | prompt assembly | the disk is read without the lock |
| failover `claw-agent-models/src/failover.rs` | cooldown per provider | try_with_failover | providers | cooldowns changed by concurrent requests |
| Claude Code `claw-claude-code/src` | session map, child process | dispatch_message | dispatch loop | expiry and resume ids; a cancelled run still waits for its process |
| gateway server `claw-gateway/src/server.rs`, `dispatch.rs` | connections, presence registry | handshake, requests, pings, close | WebSocket clients | every way out of a loop must unregister; close twice |
| event broadcaster `claw-gateway/src/events.rs` | sequence number, state version, tokio channel | broadcast, broadcast_with_state, subscribe | gateway server | the number is taken before the frame is sent; lagging receivers |
| session store `claw-db/src` | sessions, messages, transcript events, channel states | initialize, create, insert, delete, upsert, queries | agent runner | a crash while migrating; ids and order of rows |
| session write lock `claw-db/src/write_lock.rs` | lock files | acquire, try_acquire, drop | other processes | check, then create; stale locks |
| registries `claw-agent-models/src/catalog.rs`, `claw-plugins/src`, `claw-channels/src/registry.rs` | models, plugins and handles, docks | register, remove, activate, declare, look up | everything that is configured | handles that outlive a registration; hooks ordered across plugins |
| desktop panel `claw-gui/src` | draft, undo and redo stacks, forms, update progress | edits, undo, commit, update check and download | configuration files, release server | an index kept while the list changes; tasks that answer after the user went on |
| application `claw-app/src/main.rs` | the parts in their order | start, Ctrl+C | all of them | each step may fail; who consumes the dispatch channel |

### 1.2 Pure algorithms

Pruning, compaction with its split point and retries, transcript repair
(`claw-agent-runtime`: `pruning.rs`, `compaction.rs`, `repair.rs`); the stream
parser and the subscriber that puts an answer together (`anthropic_sse.rs`,
`subscriber.rs`); chunking of replies and truncation of results (`outbound.rs`,
`pipeline.rs`); routing and session keys (`claw-routing`); normalisation of the
events of three platforms, commands, chats and mentions (`normalize.rs`,
`msg_context.rs`, `adapters.rs`); substitution, includes, merging, validation and
migration of configurations (`claw-config`); the log buffer and the line diff of
the panel (`claw-gui`).

### 1.3 What makes each part correct

* **Queue.** Permits are neither lost nor made up; a lane runs at most as many
  commands as it is wide; first come, first served; a clear settles everyone,
  whatever hangs.
* **Runner.** A session is busy exactly while a run is in its lifecycle; the
  transcript consists of whole turns; what is saved continues what was stored,
  and what is dropped to make it fit leaves a trace; buffered messages come
  through once, in order; a cancelled run begins one thing more at the most;
  every call ends.
* **Pipeline.** One run per session at a time; a dispatch that returns leaves
  no indicator, file or entry behind; every dispatch returns.
* **Managers.** A stop is not undone by a loop that is waiting; a snapshot
  that says running is right; shutdown ends every task.
* **Inbound path.** No message is skipped, doubled or reordered by failed
  requests and downloads; both tasks end at shutdown.
* **Delivery.** A part told "sent" is in the chat; parts arrive in order.
* **Tools.** No tool runs that a layer of higher priority denies, in whatever
  order the layers were added.
* **Subagents.** Keys are not given twice; a cleanup leaves no descendant.
* **Failover and Claude Code.** A chain with providers finds one or waits; a
  /reset holds; a reply is what the process printed; every request ends.
* **Gateway.** Presence names the live connections; requests are answered one by
  one; a sequence number names one event; close returns.
* **Store and lock.** A store that is ready has its tables; rows keep their
  order; one holder at a time.
* **Caches and registries.** Nothing older than a reload is read after it; a file
  handed on is the message's own; the default is a known model; hooks run by
  priority and only while their plugin is active.
* **Panel.** Undo never leads to a form without its entry; only a valid draft is
  written; what is shown as going on is.
* **Algorithms.** What makes a text or a history shorter loses nothing it must keep;
  pieces fit their limit; an answer is the same however the network cuts it, but for
  a character that a cut falls into; keys keep conversations apart; includes resolve
  or are reported.

Every hazard behind these is in PROJECT.json with its line and the properties
that watch it.

## 2. Modules

State machines:

| Module | Models | Uses |
|---|---|---|
| `CommandQueue` | the queue, one call per element of `Cmds` | |
| `LaneContract` | what the queue promises, without semaphores, tokens or polls | `CommandQueue` implements it |
| `AgentRunner` | run_agent, the drain, queue_message, abort_run, wait_for_run_end | |
| `Dispatch` | dispatch_with_agent | composes `CommandQueue` and `AgentRunner` |
| `ChannelManager` | one account of the application's manager | |
| `GatewayChannelManager` | one account of the gateway's manager | |
| `InboundPath` | Telegram server, poller, file resolver, dispatch channel, dispatch loop | |
| `GatewayServer` | connections, presence registry, method dispatcher, close | |
| `EventBroadcaster` | broadcasts, the tokio channel and its receivers | |
| `Outbound` | deliver_reply and deliver_with_retry | |
| `Platforms` | the event loops of Discord and WhatsApp | |
| `TelegramApi` | Telegram's adapters, and the files of messages | |
| `ClaudeCode` | the Claude Code mode of the loop, the process and its stream | |
| `FailoverChain` | concurrent calls over a chain of providers | |
| `Subagents` | registry, spawner, announcements, clean-up | |
| `ToolPolicy` | layers, registry, hooks and execute_tool_call | |
| `AgentWorkspace` | one file of the cache | |
| `SessionStore` | the SQLite store | |
| `SessionWriteLock` | the lock file of one session | |
| `Registries` | model catalog, plugins and hooks, docks | |
| `GuiConfig`, `GuiUpdate` | the panel's draft; its updates | |
| `App` | start and shutdown of the process | |

Operators, without state: `Routing`, `Messages`, `TextSplit`, `History`,
`ModelStream`, `Configuration`, `Validation`, `PanelText`; `Options` has the value
`None`.  `Conversations` puts `Messages` and `Routing` together, and it,
`Validation` and `History` (its compaction) say of which calls a behaviour may
consist (`Calls`).

For TLC: `MCTasks` composes the modules in which something waits, `MCState`
those that keep data, `MCFunctions` the operators, `MCGui` the panel for one run.
The first three extend the modules they compose, so that they check the very
formulas the theorems state.  Parts whose names would clash are instances: the
runner, the pipeline, the gateway's channel manager, the platforms and `App` in
`MCTasks`, the recursive operators in `MCFunctions`.  `CommandQueue`,
`ChannelManager` and `InboundPath` are checked directly.

Proofs:

| Module | About |
|---|---|
| `CommandQueueProofs` | `CommandQueue`, and that it implements `LaneContract` |
| `DispatchProofs` | `Dispatch`, from the theorems about the queue and the runner |
| `AgentRunnerProofs` | `AgentRunner` |
| `InboundPathProofs` | `InboundPath`, `Conversations`: `Messages` and `Routing` |
| `ChannelsProofs` | `ChannelManager`, `Outbound`, the files of `TelegramApi` |
| `AgentProofs` | `ToolPolicy`, `Subagents`, `AgentWorkspace`, `FailoverChain`, `SessionWriteLock`, `SessionStore`, `Registries`, `History` |
| `GatewayProofs` | `EventBroadcaster`, `GatewayServer`, `GatewayChannelManager` |
| `AppProofs` | `ClaudeCode`, `GuiUpdate`, `GuiConfig`, `Validation` |

Operators with `Mutant: ...` in their comment are wrong variants of an action or
operator; no specification refers to them.  They are what the properties are
tested with: with the variant in the action's place TLC finds a property
violated.  PROJECT.json lists one per property; where a property has several
parts the others stand beside the code they would break.

### 2.1 The message path

**CommandQueue.**  A lane name has a sequence of *incarnations*: clear_lane
cancels a token and puts a new record into the map, while calls keep what they
looked up (`inc`).  A call is polled; each of its two biased `select!`s looks at
the token first and polls the other branch second, and since other threads run
in between these are two steps (`waiting`/`polling`, `holding`/`executing`).
The semaphore is tokio's FIFO: `Release` hands a permit to the head of `waiters`
or returns it to `permits`; `granted` are waiters with a permit they have not
picked up yet, and a call that leaves then passes the permit on.  `Drop`
models a caller that drops the future: it gives back its permit, but the
`fetch_sub` of the pending counter is skipped, as in the code.

**AgentRunner.**  One step is what happens between two awaits or in one section
of the `active_runs` lock.  `active[s]` names the run whose token the entry
holds, so that an overwritten entry and a removal by key show.  A history is a
sequence of user messages, responses with a number of tool calls, tool results,
and summaries of what was removed; prompts and texts are left out.  Model, tools
and store answer, fail or ask for tools as they like.  The call `run_agent` passes
through `idle`, the check, `insert`, the lifecycle (`load` ... `save`), `release`,
`notify`, then `drain`, `take` and `reinsert` for each buffered message.

`Load` makes a history fit (`Fitted`): it is pruned, which drops repeated summaries
and cuts long ones, so that only the mark of the cut is known to remain; then it
may be compacted, by an attempt that leaves a summary between the messages at the
head and the preserved ones, or, where no attempt has anything to remove, cut down
to the last `KeepLast`.  Sizes are not counted: any history may fit or not.  What
comes out is what the turn goes on with and what `Save` writes.

abort_run spawns a task (`aborting`), which reads the entry when it runs.  A run
looks at its token in one step and begins what the look allowed in another
(`CallModel` and `Request`, `CallTool` and `RunTool`, `Drain` and `Dequeue`), because
a lock is awaited or other threads run in between; for a request that is the very
lock of active_runs under which the abort cancels.  `late` counts what a call began
after its token was cancelled.

**Dispatch.**  A dispatch is at once a command of the queue (`Q`) and a call of
run_agent (`R`).  The runner takes steps only inside a poll of the command's
body (`executing`), and a command the queue drops takes its run along
(`R!Drop`).  The replies are sent, and the media file removed, after the permit
is released.

**ChannelManager** and **GatewayChannelManager.**  One account each; accounts
share only the manager's token.  Operations of the first hold its lock
throughout and are one step; those of the second release it across awaits and
are several.  Restart loops take a step per lock section and per await.  A
token is identified with the start that made it (first module) or numbered
(second, where the loop replaces it).  `doomed`, `latest`, `asked`, `failures`
are history variables that only properties read.

**InboundPath.**  The server keeps what is not confirmed, and a request with an
offset confirms everything below it, whether or not its response arrives.
`Check` is the only place the poller looks at its token.  All documents are sent
to one chat under one file name, so that they share a path; `file` says whose
bytes are there.  A crash drops everything in memory; files and server stay.

**ClaudeCode.**  The loop takes one message at a time; a prompt starts a process
that prints lines, a stream task parses them, and the loop assembles the reply
until both stream and process have ended (`FinishRun`).  `lastSession` numbers
the ids the process reports; `stale` and `printed` are history variables.  A
cancellation ends the stream, not the process, as in the code, and so does a read
that fails, or a line that is not UTF-8, at any time (`broken`).  The deletion of a
/reset may fail in the store.

**Outbound.**  `part` is the chunk or attachment in hand; an attempt may fail
though the part reached the chat.  A cancellation ends the delay between two
attempts, and only that; `lateCancel` says whether the token had fired when the
delay began, since then only one branch of the `select!` can win.

**Messages, Routing, TextSplit, History, ModelStream** are functions of
the code as operators: an event of a platform becomes an envelope, which a binding
routes to an agent under a session key; a history is pruned, compacted or
repaired; an answer is put together from pieces of a stream; a text is split, and
searched for mentions.  **Conversations** says what an envelope, a key and a route promise
together, for sets of events, senders, bindings and agents that are constants.
Texts are sequences over a handful of tokens that stand for what the code tells
apart: white space, line ends, fences, tags, and characters of two bytes (`w` and
`+`), inside which an index panics.  A piece of a stream is made a text by itself
(`FromUtf8Lossy`), so that a character that a cut falls into is replaced.

### 2.2 The gateway and the platforms

**GatewayServer.**  A connection's `connPc` goes from handshake through
registration into the loop, in which it reads, dispatches and answers, and out
of it by every way there is: the peer is gone, the server closes.  `registry`
is the presence map.  `permit` is the one that `notify_one` stores for a caller
of close that comes later.

**EventBroadcaster.**  A task takes its number (`TakeSeq`), may change the state
version under its lock (`Update`), then sends (`Send`); others act in between.
`channel` is everything ever sent, of which a receiver sees the last `Capacity`.

**Platforms.**  What is left of two stub gateways: how an account starts, counts
lost connections, waits and is told to stop.

**TelegramApi.**  `posts` is the chat as the server has it, `told` what the last
call returned, which may be an error though it took effect.  `FilePath` is the
path the resolver writes to; `disk` says whose bytes are there.

### 2.3 What the agent uses

**Subagents.**  A key is the sequence of indices from the root.  next_child_key
and register are separate lock sections, and so are collecting and removing in
cleanup_orphans; `swept` and `removed` record what a clean-up counted on.

**ToolPolicy.**  Layers are put where the stable sort by priority puts them;
`callOf` goes through look-up, policy, hooks, execution and hooks again.  `ran`
is what was executed.

**FailoverChain.**  A call alternates between the slots' lock and waits for a
provider or a cooldown; `until` is shared.  Instants are kept as the ticks that are
left until them, so that time need not stop.  `clearedUp` marks calls that lost the
only cooldown to another's success between two looks; `awake` is for how long a call
was at work since it last slept.

**AgentWorkspace.**  A read that misses looks at the disk and stores what it
found afterwards; `floor` and `promised` record what a reload made known.

### 2.4 What is kept

**SessionStore.**  Opening is the steps of initialize, cut by `StoreCrash`
anywhere.  A statement is a step, each of the migration's seven, too, since it runs in
no transaction; `lastId` is AUTOINCREMENT's memory.

**SessionWriteLock.**  exists, age, remove and write are steps of their own;
`raced` and `overdue` are histories that say when the lock promises nothing, until it
is free again.

**Registries.**  The tables of models, plugins and docks; `handles` outlive the
registration they came from.  `BeginHooks` collects the hooks of an event in any
order in which a HashMap may be visited, sorted by priority; `ExecuteHook` is one
hook that is awaited, so `pipeline` has the data on its way from hook to hook.
While a pipeline shares the registry, plugins are neither registered nor switched
(both need `&mut`), but a handle may still declare a hook.

**Configuration** has loading, includes and merging as operators over values; an
include is resolved with the set of files on the way to it, as the code does.
Variables are replaced in the raw text: what a variable becomes depends on whether
it stands in quotes, and may be a part of the structure or make the file unparsable.
A text that would reach beyond its place is left out.
**Validation** has validation, migration and what the application makes of a
configuration that was read.

**GuiConfig** takes one frame of the panel as a step: the input and what drawing
does to draft and selection.  **GuiUpdate** has the background tasks whose
answers a later frame takes.  **PanelText** has the log's ring buffer and the
diff.

**App** is main: each part may fail to start; who takes the dispatch channel
depends on what was found; the shutdown goes in the code's order.

## 3. Runs

| Run | Module | Checks |
|---|---|---|
| `queue` | `CommandQueue` | `BooksBalance`, `QueueIsSound`, `FirstComeFirstServed`, the liveness `CallsSettle`, and `KeepsContract`: that it implements `LaneContract` with its fairness |
| `channel_manager` | `ChannelManager` | `RunningIsLive`, `StopIsFinal`, `StopsArrive` |
| `inbound` | `InboundPath` | `NothingSkipped`, `OnceInOrder`, `PathMovesOn` |
| `tasks` | `MCTasks` | `PipelineHolds`, `ConnectionsHold`, `ExclusiveIfApart`, `UnconfiguredOnlyIfCleared`, `ClaudeReplies`, `ResultsAreTrue`, `UpdateIsTrue`, `CancelStopsWork`, `DoneIsTold`, `EveryWaitEnds` |
| `state` | `MCState` | `EntryIsTheRun`, `TranscriptHolds`, `StoreKeepsRows`, `NumbersName`, `GreatestVersionIsCurrent`, `KeysAreNotShared`, `OnlyAllowedRun`, `RegistriesHold`, `ReloadIsSeen`, `FilesAreOwn`, `DraftHistoryHolds`, `TranscriptContinues`, `CleanupReachesAll`, `FormHasEntry` |
| `functions` | `MCFunctions` | `CompactionKept`, `ContentKept`, `InputAssembled`, `MessagesRouted`, `ConfigurationHolds` |
| `runner_wait` | `AgentRunner` | violated: `WaitReturns` |
| `dispatch_stuck` | `Dispatch` | violated: `SessionFreed` |
| `gateway_channel_undone` | `GatewayChannelManager` | violated: `NoRestartWhenStopped` |
| `channel_backoff` | `ChannelManager` | violated: `BackoffGrows` |
| `inbound_media` | `InboundPath` | violated: `MediaIsThere` |
| `gui_unvalidated` | `MCGui` | violated: `OnlyValidIsWritten` |

The parts that `tasks` and `state` contain share no state, so a behaviour
exercises one of them, which `sel` names; the others stand still.  (The pipeline
contains queue and runner, so these are checked together there.)  A property of
a part that is looked at in such a run is stated for the behaviours that exercise
it; so `RunsKeepTranscript`, a part of `PipelineHolds`, speaks of a dispatch that has
begun, for other behaviours of `tasks` drive the runner without a dispatch.  In
`tasks` a behaviour also fixes which of a part's waits is `watch`ed:
`EveryWaitEnds` is one leads-to for all of them.  In `functions` a behaviour is
one call: the function and its first argument, then the others, and an invariant
compares the result with a reference definition.  `CompactionKept` is about
compaction; `ContentKept` about histories that are pruned and transcripts that are
repaired, and about what is split, streamed, truncated, shown or searched for
mentions; `InputAssembled` about what comes in pieces: the events of a
stream, the messages of a request, the files of a configuration.

Type invariants are parts of the inductive invariants of section 4.
`CancelStopsWork` is about what a cancellation ends: a run of the agent, which
begins one request, tool or buffered message more at the most, and a task of the
gateway's channel manager, whose token is its own.  `DoneIsTold` and
`TranscriptContinues` are about what a history that is made fit must keep.  A
transcript is continued by whole turns; what was in front of them is still the end of
what was stored, behind summaries.  And while a compaction tries at last to keep a
single message, as it does by default, the message of a call that returned Ok is in
the transcript or in a summary, or a summary says that it was cut.

### Instances, and why they are enough to be interesting

* `queue`: three calls are the fewest for which one holds a permit, one waits
  and one arrives or leaves; three incarnations allow both lanes and one clear,
  or two clears of one lane, so that old calls coexist with new ones.  The
  theorems of section 4 remove these bounds for the safety properties.
* Runner: in `state` two calls one after the other and a buffered message, so that
  three turns continue one history; two iterations with one tool call are the fewest
  where a run is stopped between a response and its result.  An attempt preserves
  three messages and the fallback leaves two, so that a history is compacted, or
  cut where an attempt finds nothing to remove.  In `tasks` one such call with two
  buffered messages, so that order shows and one may fail before the other, whose
  attempts preserve one message (the assumption of `OkIsTold`); and two racing calls,
  one of which may be dropped, with a waiter.
* Pipeline: two dispatches and two incarnations: one in flight while the lane
  is cleared, one after.  The application has one at a time; the run allows two,
  because the pipeline is a library function and the lane is there to order them.
* Managers: two starts are enough for a stale token; failures that are told
  apart are bounded by `MaxFailures`, tokens by `MaxTokens` (a start or refresh
  needs one left).  With two starts two tokens are left none for a restart, so
  the gateway's manager is looked at twice: two starts with a token each, and
  (`restarts`) one start whose task is restarted twice.
* `inbound`: three updates, one of which is no message between two that are; two
  lives of the poller for a repeated request.
* Server: two connections, one request each, four handshakes (that fit, without
  credentials, too old, too new), four modes of authentication, one caller of close.
* Lock: two holders, a file that is stale after 2, a timeout of 2, times up to 4:
  a crashed holder's file is broken, and a live one's is, if it stays too long.
* Failover: two calls and two providers, a cooldown of 3, or 2 where the answer says
  so, and a maximal wait of 1, so that both a sleep and an exhausted wait happen; time
  does not stop.
* Claude Code: one conversation, three messages, two lines per process: a run, a
  reset or failure, and a run that could resume.
* Delivery: two chunks of three tries each, and an attachment.
* Panel: two versions, three checks and two downloads, so that an answer of the
  first comes after the second began; in `state` a configuration with an entry
  in each list, two undo levels, five frames.
* Events: two tasks, three broadcasts over a channel of two: one frame is lost to
  a slow receiver, two cross.
* Subagents: three spawners and one clean-up, depth 2, two indices per parent.
  Spawners are symmetric.
* Tools: eight layers of every kind in conflict about two tools, of which three
  are added in any order, and a hook.
* Store: two sessions, three rows per table, a crash between any two statements.
* Functions: conversations of up to four messages; texts of a few bytes over
  alphabets with a character of two bytes, so that limits fall inside it; streams of
  two answers cut anywhere, inside a character, too; variables that are not set,
  that are a word, or that are the text of an object with an include; all scopes of
  session keys over two senders, all combinations of the fields the normalizers look
  at, three configuration files that include each other.

### Fairness

* A future that is woken is polled (weak fairness of a call's step); a lane's
  command may hang for ever, so `CancelSettles` assumes nothing about commands,
  and `EveryCallSettles` carries its assumption (strong fairness of `Finish`) in
  its statement.
* In `AgentRunner` each run's step is weakly fair, and a spawned abort task is
  eventually run.  That a provider's stream ends, a tool returns and the store
  answers is an assumption about the environment: the code sets no timeout on
  any of them, and a run that waits for one does not watch its token, so one
  that never answers keeps its session busy, aborted or not.
* In `Dispatch` the runner's step is strongly fair: its chance comes and goes
  with the polls.  It rests on the same assumption about model and tools.
* An adapter that is running need never end, but ends once its token is
  cancelled: the gateways of all three platforms look at it in their loops.
* In `InboundPath` a request that is made again and again is answered
  eventually (strong fairness of `PollAnswered`), a dispatch ends, and after
  shutdown the unbiased `select!` does not prefer messages for ever (strong
  fairness of `LoopEnds`).
* In `GatewayServer` a connection's step is strongly fair for the same reason:
  its `select!` between socket and token is unbiased, and reading takes the
  chance away and gives it back.
* Time passes in the lock and the failover chain.  The lock's clock is bounded, and
  its waits are stated for calls that can end before it stops; the failover chain's
  is not.  A call of the chain looks at its deadline only where every provider is
  down, so that its end is stated unless its providers take as long to fail as the
  shortest cooldown (`TakesLong`): then they may never all be down, and it goes on.
  Providers and the file system answer.
* The CLI's process ends some day: nothing in the code limits it.
* Requests of the panel have time limits; whoever sends to it asks for a frame.
* `MCTasks` states these as `WeakStep(i)` and `StrongStep(i)`, the i-th condition
  of the part that the behaviour exercises; each is the condition the part's own
  module states (`...Fairness`).

Deadlock checking is off throughout: the number of calls is finite and the
system stops when all have been made.

## 4. Proofs

A proof starts from the named assumption on the constants of its component and,
where the tables below say so, from one more that they name; it removes every
bound of the runs.  The inductive invariants were checked with TLC before they
were proved.  Before each component the proof modules say what its invariant
needs, and each lemma what it is for.

### 4.1 The command queue: `CommandQueueProofs`

For any finite set of calls, any lanes, widths and number of incarnations, from
`QueueAssumption` (calls are finite, the main lane is a lane, widths are natural
numbers, at least one incarnation):

| Theorem | Statement |
|---|---|
| `TypeCorrect` | `Spec => []TypeOK`; in particular pending and permits never go below 0 |
| `PermitsAreConserved` | `Spec => []PermitsConserved` |
| `WidthIsRespected` | `Spec => []WidthRespected` |
| `BooksAlwaysBalance` | `Spec => []BooksBalance`: conservation, width and pending together |
| `PermitsAreUsed` | `Spec => []NoIdlePermit` |
| `QueueStaysSound` | `Spec => []QueueIsSound`: no idle permit, and waiters sleep in one queue, once |
| `PendingIsACount` | `Spec => []PendingCounts` |
| `FirstComeIsServed` | `Spec => FirstComeFirstServed` |

The argument rests on one inductive invariant `Inv`, most of whose parts
the run `queue` checks too: `TypeOK`, `KnownIncs` (maps and calls know created
incarnations only), `WaitersSleep` (a queue holds sleeping calls of its own
incarnation, each once), `NoIdlePermit`, `PermitsConserved` and
`PendingCounts`.  None is inductive alone.  Conservation needs `WaitersSleep`,
since handing a permit to the head of the queue raises the number of owners by
one only if the head was no owner.  `PendingCounts` gives the type of `pending`:
a decrement never goes below zero because the call that makes it is counted.
The width follows from conservation, permits being natural numbers.

The steps share what they do to the semaphore, so the proof has a lemma for
each such effect (`ReleaseKeeps`, `LeaveKeeps`, `AcquireKeeps`, `SemaphoreStays`)
and for the counter (`CounterUp`, `CounterDown`, `CounterStays`), and `NextInv`
has one step per action.  `QueueWithout` describes a queue with one place
removed.  `FirstComeIsServed` says who may gain a permit in a step
(`GainsPermit`): the head of a queue, or a newcomer where nobody waits.

### 4.2 The queue and its contract: `CommandQueueProofs`

`QueueRefinesContract`: `Spec => Contract!CInit /\ [][Contract!CNext]_cvars` under
the mapping at the end of `CommandQueue` (a call's phase is `PhaseOf` its `pc`, a
closed generation is a cancelled incarnation).  Most steps move one call from one
phase to another (`OnePhaseMoves`) or none (`NoPhaseMoves`).  The step that takes a
slot needs `PermitsConserved`: a call that owns a permit but does not run yet is one
of the owners (`PermitMeansSlot`), so fewer commands run than the lane is wide.  A
clear needs `CancelledAreKnown`: the lane it puts in place is open.  The contract's
liveness, that a cleared call settles, stays with TLC (`KeepsContract` in the run
`queue`).

### 4.3 The agent runner: `AgentRunnerProofs`

For any finite set of calls, any sessions, buffered messages, waiters and limits,
from `RunnerAssumption` (the value for no run names no call and no message; calls
are not messages of the buffer; what may be dropped are calls; the limits are
natural numbers).

| Theorem | Statement | Callers |
|---|---|---|
| `TypeCorrect` | `Spec => []TypeOK`; no lifecycle passes `MaxIter` | any |
| `TurnsAreWhole` | `Spec => []WholeTurns` | any |
| `CancelIsFinal` | `Spec => []CancelStopsWork` | any |
| `EntriesAreTrue` | `Spec => []EntryIsTheRun` | one at a time |
| `NoTurnIsLost` | `Spec => TranscriptContinues` | one at a time |
| `BufferKeepsOrder` | `Spec => []BufferedInOrder` | one at a time |
| `OkStaysTold` | `Spec => []OkIsTold` | one at a time |
| `TranscriptsHold` | `Spec => []TranscriptHolds`, of which these are the parts | one at a time |

`TurnsInv` follows a history while it grows.  Every response in it is answered,
except that the last one may wait for `c` results (`Pending(h, c)`): a response
that asks for `n` tools makes it `n`, a result one less, and only a response
without tools makes a history `Whole`, which is what `Save` needs.  It says
nothing of other calls, so it holds for callers that race.

A history that is made fit is, behind summaries, the end of what it was, with the
new message as its last entry (`Follows`).  That is shown
for pruning, for an attempt of compaction and for the cut to the last messages by
places of the sequences (`PrunedFits`, `CompactedFits`, `TailFits`), and
together in `FittedFits`, which also says that what is removed is told by the summary
(`KeepsTold`), except by the cut to the last messages.  That cut does not happen while an
attempt preserves a single message, because such an attempt always finds something
to remove in a history that is longer than its head and one message; so `OkIsTold`
has that as a premise.

`CancelIsFinal` needs only that a call which began something after its cancellation has
left the one point where it could (`Committed`): the next look at the token stops it.

The others do depend on the callers: `Call` looks for an entry and `Insert` puts
one there in two sections of the lock, and `Release` removes by key.  `OneAtATime`
(`Parallel = 1 /\ Droppable = {}`) is what the lane of a session gives the runner as
long as nobody clears it, which is `LaneSerializes` of section 4.18; calls of
different sessions share nothing but the lock.  With two calls in progress TLC finds
each of the first three violated; a dropped call alone breaks `EntryIsTheRun`
(finding `dispatch_stuck`).  Under it at most one call is in progress
(`OneInProgress`: the guard of `Call` and `FS_EmptySet`), so each step is one of the
call whose entry and history decide (`LaneOfOne`), and its history continues the
stored transcript (`HistoryContinues`).  `BufferInv` adds that the buffer is what
arrived less the first `Taken` messages, that the messages in a transcript or a
history are among those taken, in order (`Ordered`), and that the message of a call
that has not loaded yet was taken last (`TookLast`).

`OkIsTold` says that the message of a call that returned Ok can be read in its
session's transcript, or in a summary there, or that a summary there was cut, whatever
runs later.  `Kept(r)` follows it backwards: a call in its lifecycle that has not
failed has its message told by its history or is about to put it there, and one that
is past `Save` has it told by the transcript; `ToldStays` keeps it so whatever comes.

### 4.4 The channel manager: `ChannelsProofs`

For any finite set of starts and any bound on failures:

| Theorem | Statement |
|---|---|
| `ManagerTypeCorrect` | `Spec => []TypeOK` |
| `RunningMeansLive` | `Spec => []RunningIsLive` |
| `StopsAreFinal` | `Spec => StopIsFinal` |

`ManagerInv` adds three parts.  `EntryHasToken`: once there is an entry it holds some
start's token.  `AttemptsAreRecent`: the counter is at most the number of loops
that are between an increment and their next attempt or have ended; this, and
not the bound on failures, is why it has a type.  `DoomedIsCancelled`: a loop a stop
found has a cancelled token and is not past its check.  `StopIsFinal` is then a
matter of one step.

### 4.5 The inbound path: `InboundPathProofs`

For any number of updates, messages, documents and lives of the poller:

| Theorem | Statement |
|---|---|
| `TypeCorrect` | `Spec => []TypeOK` |
| `NoMessageSkipped` | `Spec => []NothingSkipped` |
| `ForwardedOnceInOrder` | `Spec => []OnceInOrder` |

The argument is about the offset, which the code writes before it forwards a
message.  `BatchOK`: a batch has no gaps and begins at the offset, or one below
it while its message is in hand.  `LogOK`: what this life forwarded lies below
the offset and the message in hand, so a repeated request cannot bring it again.
`OffsetOK`: every message below the offset, but for the one in hand, is in the
dispatch channel or dispatched.  A request confirms what lies below the
offset, which it makes only with no message in hand; so `NothingSkipped`.

### 4.6 The session write lock: `AgentProofs`

For any set of holders, stale limit, timeout and bound of the clock:

| Theorem | Statement |
|---|---|
| `LockInvariance` | `LockSpec => []LockInv`, whose first part is the type invariant |
| `LockExcludes` | `LockSpec => []ExclusiveIfApart` |

`ExclusiveIfApart` is what remains of the module comment's promise.  Attempts may
overlap, processes crash and stale files be broken; at most one caller holds the lock
and the file is its own, unless, since the lock was last free, two callers found it
free or stale before either of them wrote the file (`raced`), or somebody kept it until
it was stale (`overdue`).  It is not inductive.  `LockInv` adds that the lock is
`Apart`: one caller at most is about to take it (`OneTaker`), which meets nobody who
holds it (`TakersMeetNobody`), the file carries the holder's name and time
(`FileIsHolders`), and a holder is not stale (`HoldersAreFresh`).  A history that is
FALSE after a step was so before, or the lock is free now (`HistoriesStay`), and a
free lock is `Apart`.

### 4.7 Delivery: `ChannelsProofs`

For any number of chunks, attachments and retries: `OutboundInvariance`,
`OutboundTypeCorrect` (no chunk is tried more often than the limit allows) and
`ResultsAreAlwaysTrue`, `OutboundSpec => []ResultsAreTrue`.  `DeliveryInv` says why
results and chat agree: one result per part that is over with (`OnePerPart`),
nothing in the chat is ahead of the part in hand (`NothingAhead`), an attachment
that is being sent is not there yet (`AttachmentsOnce`), what was told is there
(`SentIsThere`), and the chat is in order (`ChatInOrder`).  A part that reached
the chat in a failed attempt and is tried again keeps the order because nothing
is ahead of it (`AppendInOrder`).

### 4.8 The tool pipeline: `AgentProofs`

For any layers, tools, contexts and bounds: `ToolInvariance`, `ToolTypeCorrect`
and `OnlyAllowedEverRun`, `ToolSpec => []OnlyAllowedRun`.  The code takes the
first layer that has an opinion; the property speaks of priorities.  `Sorted`,
which every insertion keeps (`Putting`, `AddLayerInv`), connects the two: the
layers of higher priority than the one that allowed all stand before it, and
none of them had an opinion (`AllowedMeansNotDenied`).  `Policed` and
`RanAllowed` carry the decision from the policy to the execution; layers do not
change in between, since the pipeline owns them.

### 4.9 The event broadcaster: `GatewayProofs`

For any tasks, receivers, capacity and kinds of update: `EventInvariance`,
`EventTypeCorrect` and `NumbersAlwaysName`, `EventSpec => []NumbersName`.  `Owned`:
a task that is about to send owns its number.  `Sent`: of two frames in the
channel the earlier one comes `Before` the later one (other number, and a smaller
one if they are one task's), and so does a frame in the channel before one that
is still on its way.  `Got`: what a receiver has taken are frames of the channel
at increasing places below its cursor, however often it lagged.

Numbers name frames, but may arrive in another order than the versions that the
frames carry.  `GreatestIsCurrent`, `EventSpec => []GreatestVersionIsCurrent`, says
what a client may rely on: once nothing is on its way, whoever took every frame has
seen the present version as the greatest.  Its `VersionInv` adds `VersionsGrow`:
frames, sent or in hand, carry nothing above the present version, and there is a
number whose frame carries it, wherever that frame is (`CurrentIn`).  That every
number up to the last was taken by a receiver without gaps is counting
(`GotAll`, by `FS_Injection`).  A custom version may go down, after which nothing is
promised (`customs`).

### 4.10 The gateway's connections: `GatewayProofs`

For any connections, handshakes, requests and callers of close: `ServerInvariance`
and `ConnectionsAlwaysHold`, `ServerSpec => []ConnectionsHold`.  `ServerInv` adds to
the property that nothing is read before the handshake (`Fresh`), that who is past
it was let in by `negotiate_protocol` and `authenticate` (`Admitted`), and that the
registry is exactly the connections between register and unregister (`Present`);
the property's `PresenceIsLive` follows, whatever way out of its loop a
connection takes.  `Owes` counts the one request that is read and not answered.

### 4.11 Subagents: `AgentProofs`

For any concurrent spawns and clean-ups, and any depth:

| Theorem | Statement |
|---|---|
| `SubagentTypeCorrect` | `SubagentSpec => []SubagentTypeOK` |
| `KeysAreNeverShared` | `SubagentSpec => []KeysAreNotShared`: until a clean-up takes back a counter |
| `CleanupCollects` | `SubagentSpec => CleanupReachesAll` |

The key is taken in one lock section and registered in another, so `ChildInv` cannot
speak of registered keys only.  `Allotted`: a key that was given has an index below
its parent's counter, so the next one is new.  `Rooted`: the ancestors of a key
were registered, and are so unless somebody took them out.  A clean-up descends
level by level through registered children; `Rooted` is why it meets every
descendant but those below an entry that was removed.

### 4.12 The workspace's cache: `AgentProofs`

For any readers and writes: `ReloadsAreSeen`, `WorkspaceSpec => []ReloadIsSeen`.
`Known` follows a version from the disk through the hands of a reader (`held`) into
the cache: none of these is below `floor`, the newest version that a reload made
known while no other call was between its look at the disk and its write.

### 4.13 The failover chain: `AgentProofs`

For any calls, providers, cooldowns and waits: `EmptyOnlyIfCleared`,
`FailoverSpec => []UnconfiguredOnlyIfCleared`, for a chain that has providers
(`Providers # {}`; one without is told so rightly).  `StillCooling`: a call that
found every slot cooling down still finds one with a cooldown at its second look, or
another's success came between, for nothing else takes a cooldown away.

### 4.14 The files of Telegram's messages: `ChannelsProofs`

For any accounts and messages: `DownloadsStayOwn`, `TelegramSpec => []FilesAreOwn`.
Files of different accounts or chats have different paths, whatever their names
(`PathOfTwo`).  `FilesInv` carries a file from its resolution to the message: one
that is downloaded or was handed on has its path on the disk, and what is written
there later is of the same chat and name, which the property excepts
(`Clashes`; finding `inbound_media`).

### 4.15 The session store: `AgentProofs`

For any keys, channels and number of rows: `StoreInvariance` and `RowsAreKept`,
`StoreSpec => []StoreKeepsRows`.  That a ready store has its tables needs that the
version is written after them (`StoreInv`), wherever among its seven statements
(`Creates`) a crash cuts the migration.
The order of a transcript is that of a sort by time with ties by id.  `Counted`: ids
and times grow together, so a new row comes `Precedes` none; `Sortable`: the rows of
a query have an ordering, which `AddSortable` extends by a last one, so the
CHOOSE in `Ordered` means something.

### 4.16 The Claude Code loop: `AppProofs`

For any conversations, messages and lines: `ClaudeInvariance` and `RepliesAreTrue`,
`ClaudeSpec => []ClaudeReplies`.  `Forgotten`: a session that a /reset dropped is
neither in the map nor what a run goes on with, since new sessions have new ids and
the loop takes one message at a time.  `Heard`: what the process printed is what the
run has read, then what the stream task handed over, then what waits in the pipe,
then what was cut off, where only a cancellation or a read that failed cuts; `Tells`
relates
lines to the texts in them, in their order.  At the end of a run the middle two are
empty.

### 4.17 The panel: `AppProofs`

`UpdatesAreTrue`, `UpdateSpec => []UpdateIsTrue`, for any number of checks and
downloads.  `OneAtATime`: between the click that asks for a download and the frame
that starts it nothing is written or told, so no second one starts; this is for
Linux, where the user is asked to start the installer (`~LaunchFails`).
Elsewhere the late failure of a launch offers a retry while the next download runs.
That what is shown as going on is, holds everywhere.

`DraftsAreBounded`, `GuiSpec => []DraftHistoryHolds`, for any lists, settings and
files.  `DraftInv`: drafts, the live configuration and the copies on both stacks
are configurations, and the copies are bounded together (`Held`).  The file and what
is live agree when read, because reading a configuration twice is reading it once
(`LoadedTwice`).

`FormsHaveEntries`, `GuiSpec => FormHasEntry`, from `ConfigAssumption`: the files have
the lists of the views, and entries of keyed lists have names.  A frame draws the
detail form of an entry it looked up by its place or key, and the same frame may
have rewritten the list before.  `FormsOK` gives the forms their fields;
`PlaceStays` is the heart: an edit of the entry at a place, which keeps its key,
leaves the form a place.  The place of a key is the least index with that name, and that
a set of numbers has a least member comes from the well-foundedness of `<`
(`LeastIsThere`), with no induction.

### 4.18 The dispatch pipeline: `DispatchProofs`

For any number of dispatches, of dispatches at a time and of clears, from
`DispatchAssumption` (calls are finitely many, those with media or a stop are calls,
the bounds are positive), which the run `tasks` evaluates:

| Theorem | Statement |
|---|---|
| `DispatchInvariance` | `PipelineSpec => []DispatchInv` |
| `DispatchTypeCorrect` | `PipelineSpec => []PipelineTypeOK` |
| `LaneSerializes` | `PipelineSpec => []LaneSerializesRuns`: until a clear, no call is turned away as busy and no two are in a lifecycle |
| `ReturnsAreClean` | `PipelineSpec => []ReturnsClean` |
| `PipelineKeepsTranscript` | `PipelineSpec => []RunsKeepTranscript`: turns are whole, cleared or not; until a clear the entry tells the truth, and what was reported as done is told |
| `PipelineLosesNoTurn` | until a clear, what is saved continues what was stored |
| `PipelineAlwaysHolds` | `PipelineSpec => []PipelineHolds`, the invariants together |

This is a composition: the theorems of queue and runner are used, not repeated.
`QueueMoves` says that a step of the pipeline is a step of its queue or leaves it
alone, so the queue's `Inv` (through the instance `QP` of `CommandQueueProofs`) is a
part of `DispatchInv` that its own `NextInv` preserves.  `Together` relates the
three program counters of one dispatch: its run is in progress only while its
command holds the lane's permit, and the entry of active_runs is its own or that of
a run that was dropped.  `Undisturbed`: until a clear there is the one lane, of
width 1.  By the queue's conservation of permits (`OneRunsInLane`, from which `OneRuns`)
one command runs at a time; so the second of two runs finds no entry when it looks.

`RunsInv` then brings the runner's invariants into the pipeline, through two
instances of `AgentRunnerProofs`.  `RA` has any number of calls at a time and lets
every call be dropped: a step of the pipeline is one of its steps or leaves it alone,
so its `TurnsInv` is kept by the runner's own lemma, clears or not.  `RP` has one
call at a time and drops none, which is the assumption `OneAtATime` of section 4.3.
`RunnerActs` is where that assumption is paid for: until a clear, `LaneSerializes`
gives the guard of `Call`, and no run is dropped; so `KeptInv` is kept as well.

### 4.19 The gateway's channel manager: `GatewayProofs`

For any calls, results and number of tokens, from `ManagerAssumption` (which
says of calls that no stop is a shutdown): `ManagerInvariance`, `ManagerTypeCorrect`
and `TokensStayOwn`, `Spec => []TokensAreOwn`.  start_channel and the restart loop
make tokens in two places, and a start may overlap another, so `TokensMade` follows
every token from its making into the task and the entry, and the next one is new.
The counter of restarts has a type because of `RestartsCounted`: each attempt takes
a token of its own and counts one restart at most when it is over, so restarts
and attempts that are not over are together at most the tokens made.

### 4.20 The session keys: `InboundPathProofs`

Over any spellings, peers, links, bindings and agents; a string is a value with its
two images `Lowered` and `Cleaned`, a key a sequence of segments.

`KeysAlwaysApart`: `KeysKeepApart(agent, a, b)`, conversations that the scope
separates never share a key, whichever identity link is found first.  A key is
a head and the peer (`KeyParts`); within one kind the scope decides the head's
length, so equal keys have equal heads and peers (`PartsAreSame`).  Across kinds
(`KindsApart`) the heads differ in length and must differ within the shorter one,
which is why the theorem assumes `KindsTold`: no channel is called "direct"
under per-peer, and no account like a kind of chat under per-account-channel-peer.
Without it keys do coincide: the group 1 of a channel called "direct" may have the
key of a direct peer "group:1".  No channel of the program is called so; account
names are the operator's.

`AgentsAreReadBack`: `KeyNamesAgent(bindings, agents, ctx)`, the agent read back from
a route's keys is the one the bindings chose, and a key survives the way to a
request and back.  A key of tokens that are `Plain` is read segment by segment
(`KeyIsReadBack`), unless what follows the agent begins with "agent" itself
(`Readable`), so no channel is called that.  It assumes of the ids in use that
cleaning twice is cleaning once (`NormalForms`): in the code this fails only for an
id of more than 64 characters, with a leading underscore, that is cut just
after a dash.

### 4.21 Messages and conversations: `InboundPathProofs`

`MessagesAlwaysRouted`: `ConversationSpec => []MessagesRouted`, what a message of any
platform may do, where its answer goes, and under which key it is kept.  A
behaviour is one call of a normalizer, of the key's construction or of the choice
of an agent, so that the theorem is about the property of the run `functions`.

*May run no commands* (`DeniedByDefault`).  No platform's normalizer sets
`CommandAuthorized`; only finalizing a message does, and it takes a missing flag for
a refusal.  `Unasked` says that a context has its fields and not that one; the empty
context is so (`EmptyIsUnasked`) and setting another field keeps it (`FieldSet`),
which carries it through media, reply and forward to what each platform makes
(`EventIsUnasked`).  `WireTwice` adds that finalizing, encoding and reading back
lose nothing.  *Is answered where it came from* (`DirectAnswered`) follows a chat and
a sender through the same steps (`TelegramAddress`, `WhatsAppAddress`).  *Keys* are
the theorems of the section before.

`ConversationAssumption` says what the values are, and TLC evaluates it on those of
the run: an event comes from one of the platforms and a chat of WhatsApp has an
address; peers are sequences of segments and scopes are those of the
configuration; ids are clean once they were cleaned (`NormalForms`) and the kinds of
chats are told apart (`KindsTold`), both explained above; the kind of a chat that is
routed is in lower case, as the normalizers write it, and no channel is called
"agent".

### 4.22 The validation of a configuration: `AppProofs`

`ConfigurationAlwaysHolds`: `ValidationSpec => []ConfigurationHolds`, from no
assumption, for any gateway section and any old keys.  `ValidIsServed`: a gateway
section without errors has a port that is not zero, and where its mode needs a secret
the start finds one (`AuthModeIs` goes through the modes).  The exception is in the
property: an empty password beside a token passes the validation, which counts the
token, and is served as it is (`TokenStandsIn` does not hold).  `MigrationIsSettled`:
the two old keys are gone afterwards, and a new section that was there is as it was
(`OldKeyMoved`).

### 4.23 The registries: `AgentProofs`

`RegistriesAlwaysHold`, `RegistrySpec => []RegistriesHold`, for any models, plugins,
hooks, events and docks, from `RegistryAssumption`.  `RegistryInv` adds to the types
and to a known default what an execution has done so far (`Executing`): its hooks are
sorted by priority and their plugins active, and the data, the number of hooks and
who stopped are accounted for by the results of the hooks that ran (`Accounted`).
A plugin stays active during an execution because the registry is shared then.
`HooksAreSorted` is about the list an execution gets, which needs that an event's
hooks have finitely many places (`HooksDeclared`).  That a spelling of a channel has
one name needs only that lower case is its own lower case.

### 4.24 Compaction: `AgentProofs`

`CompactionAlwaysKept`, `CompactionSpec => []CompactionKept`, for conversations of any
length and any settings, from `HistoryAssumption`: what is preserved and how often an
attempt is made are numbers.  An attempt cuts behind the system prefix and before
both the last user message and the messages it preserves (`CutIsRight`); what stands
before and after a cut is as it was, place by place (`PiecesOfWhole`, `PrefixMeans`,
`SuffixMeans`).  The result is that of one of the attempts, and the last of them is
there (`CompactIsAnAttempt`).  What an attempt preserves is a function defined by
recursion, halved from one attempt to the next.  That such a function exists, and
that it never falls to zero unless it began there, would be an induction; the proof
takes the least attempt at which that fails instead (`HalvingExists`,
`PreservedIsANumber`), which exists because the numbers are well-founded
(`LeastIsThere`).  The tokens of a conversation are a fold, but the theorem needs
nothing of them: whichever attempt is taken as the result keeps what it must.

### 4.25 Only model-checked

* Liveness, which needs fairness and ENABLED (`CallsSettle`, `EveryWaitEnds`,
  `StopsArrive`, `PathMovesOn`), and the liveness part of the contract.
* Two safety properties of the run `functions`, whose operators go through data of
  any length by recursion or folds, so that a proof is an induction over data:
  `ContentKept` (pruning and repair in `History`, `TextSplit`, `PanelText`) and
  `InputAssembled` (`ModelStream`, `Configuration`).  They are compared with their
  references on bounded inputs.
* `CancelStopsWork` and `DoneIsTold` of `tasks` put together, for the instances of that
  run, what `CancelIsFinal` and `TokensStayOwn`, and what `TurnsAreWhole`,
  `BufferKeepsOrder` and `OkStaysTold` prove.
* Of the operators that theorems are about: commands and the Claude Code request in
  `Messages`, channels, agents, bindings and models in `Validation`.  No property
  speaks of them.

## 5. Findings

Six runs show the code doing something other than its comments say.

1. **`wait_for_run_end` may wait for ever** (`runner_wait`,
   `runner.rs:667-674`).  The waiter reads is_run_active, the run ends and calls
   notify_waiters, the waiter registers.  A waiter that had registered in time
   is woken (`EveryWaitEnds`).
2. **A dropped run leaves its session busy** (`dispatch_stuck`,
   `runner.rs:261`).  The entry of active_runs is removed after the lifecycle,
   not by a guard; a cleared lane drops the future, and every later message of
   the session is answered with SessionBusy.  Nothing in the application calls
   clear_lane or drain today.
3. **A stop during a backoff is undone** (`gateway_channel_undone`,
   `claw-gateway/src/channel_manager.rs:508`).
4. **The backoff never grows** (`channel_backoff`,
   `claw-channels/src/manager.rs:402`): the counter is reset before each attempt.
5. **Two documents of one name share a path** (`inbound_media`,
   `file_resolver.rs:56`): a dispatch may read the other's bytes, or nothing
   after the other's clean-up.
6. **The panel writes a draft that has errors** (`gui_unvalidated`,
   `claw-gui/src/main.rs:216`).  Ctrl+S and the File menu (line 234) ask for the
   confirmation of any dirty draft, and `commit` (`config_manager.rs:139`) does
   not validate; only the Save button looks at the errors.
   `config_manager.rs:4-5` promises validation before every write.

### Met on the way

Facts about the code that the modules contain, without a run of their own.

* **Queue, runner, pipeline.**  Two calls of run_agent for one session may both
  pass the busy check (the lane is what keeps them apart); a message buffered
  during a run that fails stays buffered until a later run succeeds; a dispatch
  whose lane is cleared skips stop_typing and the removal of its file; replies are
  sent after the permit is released.  A request goes out after a cancellation that
  falls between the look at the token (`runner.rs:491`) and the lock that
  set_streaming awaits (`runner.rs:520`).  The history that was made fit is the one
  that is persisted (`runner.rs:611`), so what compaction removes is gone from the
  store, too.  The normalizers never set SessionKey, so the
  agent-runtime mode puts every message into the session "unknown"
  (`dispatch.rs:217`); send_reply does not chunk (`bridge.rs:80`).
* **Managers.**  start_account leaves the loop of an earlier start running with a
  token no stop reaches but stop_all; in the gateway's manager two overlapping
  starts may both spawn a task, and a stop_channel that finds a stale token
  awaits a task it has not cancelled.  Nothing calls the Telegram adapter's
  stop_account, so the bots of stopped accounts stay in its store.  An adapter
  without `enabled` is shown as enabled by the panel while start_channels
  (`manager.rs:210`) skips it.
* **Lock.**  Two attempts that find it free or stale before either writes the file
  both get it, and a holder that outlives the stale limit loses it and removes its
  successor's file: `Exclusive`, the promise of the module's comment, holds only as
  `ExclusiveIfApart`.
* **Failover.**  `NeverUnconfigured` does not hold: the success of another call
  between two looks at the slots makes a chain report that it has no providers.
  A retry_after of zero makes a loop that does not sleep; the last sleep may go
  beyond the maximal wait.  The deadline is looked at only where every provider is
  down (`failover.rs:185`): while failures take as long as the others' cooldowns, a
  call goes on for ever.
* **Claude Code.**  A cancellation ends the stream and not the process; a read error,
  or a line that is not UTF-8, ends the stream while the process runs on, and what it
  prints afterwards is lost though nobody cancelled (`process.rs:155`); a preview
  of 200 bytes panics inside a character (`dispatch.rs:195`), after which nobody is
  answered; the session key is made of the sender alone, so a group and the
  sender's own chat share a conversation.  Without an API key the dispatch loop is
  not started, although Claude Code needs none and main logs that messages will
  be routed through it (`main.rs:113`, `main.rs:130`; `ClaudeServes`); messages sent
  before the receiver is dropped are lost.
* **Subagents.**  A cleanup resets its parent's counter, so that a key may be given
  again; removing an entry in the middle hides those below it from a cleanup.
* **Tools.**  The provider layer is of the lowest priority and never changes an
  outcome; definitions sent to the model are not filtered by the policy
  (`pipeline.rs:204`); a hook may put back a result longer than the truncation
  allowed (`pipeline.rs:276`).
* **Events.**  Two broadcasts may arrive in the other order of their numbers
  (`SeqIsMonotonic` does not hold), the later with the older state version; the
  greatest version a client saw is the current one.
* **Workspace.**  A read that overlaps reload_all puts the old content back; an
  unreadable file is cached as empty.
* **Platforms.**  A reply goes to `from` where there is one, so a message of a
  group is answered in the sender's own chat, although the comment says "`from` for
  DMs and `to` for groups" (`bridge.rs:47`; `GroupAnswered`); on Discord it is a
  user's id that is taken for a chat.  Editing a streamed post to the text it has
  returns an error, although the comment calls it non-fatal
  (`claw-telegram/src/adapters.rs:326`; `UnchangedEditIsNoError`).
* **Text.**  Slicing a reply at a limit inside a character panics; a character that is
  cut between two pieces of the model's stream arrives as replacement characters
  (`anthropic_sse.rs:45`); text before
  a thinking tag that its piece does not close is dropped (`subscriber.rs:138`;
  `TextBeforeTagKept`).
* **Routing.**  A binding applies by one of its levels; the other fields it names
  are not compared, although BindingMatch is documented as a conjunction
  (`EveryFieldMatches`).
* **Configuration.**  An include whose content is no object is dropped when it is
  merged; the hash covers the text of the root file only (`loader.rs:296`);
  migration loses "server" and "bot" (`validation.rs:112`); distinct bindings may
  be reported as duplicates (`validation.rs:340`); main does not call
  validate_config; a password mode with a token and an empty password passes the
  validation and serves with an empty secret (`TokenStandsIn`); the default model
  is set before the configured models are registered, so it cannot be one of them
  (`ConfiguredDefaultIsUsed`); write_config_file
  does not write atomically (`loader.rs:341`).
* **Panel.**  Opening a detail form makes the draft dirty and empties the redo
  stack; edits of the settings take no snapshot, and a form left because its entry
  is gone keeps the flag of an earlier one (`SnapshotPerSession`); creating a
  binding empties the two pickers and reads them again in the same frame, which
  panics (`bindings.rs:340`; `PanelSurvives`); saving
  replaces `${VAR}` by its value and includes by their content; a download that
  fails to launch offers a retry while the next one runs, and the result of an
  older check may replace that of a newer one.

## 6. Limits

* Liveness under fairness and recursion over data are left to TLC.
* Memory ordering of atomics is sequential consistency; each lock section is
  one step.
* The composition that is checked is the message path's: pipeline over queue and
  runner, and poller with dispatch loop.  Other components share little state
  with each other and are checked apart.
* `AgentRunner` does not count sizes: pruning and compaction do what they may do for
  some size of the texts, and `History` has them with their arithmetic.  Messages
  are taken to begin differently, so that a summary tells them apart, and what can
  still be read in a summary that was cut is not followed.  The subscriber is
  a function in `ModelStream`.  Tools of one response are executed one after another,
  as in the code.
* `Dispatch` has answers without tools; tool calls are `AgentRunner`'s subject.
* The managers have one account, and start_channels, a loop of starts, is left
  out, as are the snapshot queries.
* `InboundPath` is the agent-runtime mode; in the Claude Code mode media files
  are never removed.  The webhook mode only registers its URL.  A restart is not
  part of `NothingSkipped` and `OnceInOrder`: the offset is in memory only, so
  updates come again after a restart, and those confirmed but still in the
  dispatch channel are lost.
* `SessionWriteLock` and `App` count time and messages up to a bound; what they
  promise is stated for calls the bound does not cut.
* External, modelled from how the code uses it: tokio's channels and
  semaphore, the platforms' servers, SQLite, the file system, the CLI's process.

### Not modelled

* Prompt assembly: the formatting of a text from its parts.
* Logging and the error types of claw-core: they change no state the program reads
  back.
* Declarations: the types of configurations, frames, manifests and adapters; HTTP
  headers and prices of the catalog; the arguments of the CLI.
* The layout of the panel and the figures of its dashboard.
* Encoding of JSON, SQL text and frames, as far as nothing depends on it.

PROJECT.json says of each component what is left out.

## 7. Plan

What is left, in the order of its worth:

1. Proofs about what is only model-checked because it is recursive: a definition of
   `TextSplit` by the least place of a cut, instead of a recursion, would put a
   least number in the place of an induction, as in section 4.24.
2. The Claude Code mode composed with the poller, and several accounts under one
   manager.
3. An abstract event stream (each client sees a subsequence) that broadcaster and
   server together implement.
4. Sizes in the runner, so that the operators of `History` implement `Fitted`.
