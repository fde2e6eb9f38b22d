# MicroClaw in TLA+

MicroClaw is a multi-channel agent runtime in Rust: messages from chat
platforms and from a web API start agent runs, which call a model and tools in
a loop, tasks run on a schedule, and runs spawn sub-agents.  This directory
holds TLA+ modules of the parts in which concurrency, failure and ordering
decide whether the program is right, TLC configurations that check them on
small instances, and proofs for all instances of what the rest depends on.

Paths below are relative to the repository's root; line numbers in
`PROJECT.json` ("map") tie every definition to the code it stands for, and
"hazards" lists what is hard to test, at the line where it bites.

## 1. Inventory

### 1.1 A message's way through the system

1. A channel adapter (`src/channels/*.rs`) takes a message through **guards**
   (start-up, duplicates, allow lists, mentions, commands), each adapter in its
   own order, stamps it, stores it in SQLite and asks the **chat turn queue**
   for the chat's turn.  If a run has it, the message is queued and its handler
   returns.
2. With the turn, `process_with_agent` (`src/agent_engine.rs`) registers the run
   with **run control**, loads the **session** and the messages newer than it,
   builds the **transcript** and enters the tool loop.  Calls of tools go
   through the **executor**, some of them on to an **MCP server**, and **guards
   against loops** watch them.  Between iterations, and at the end, messages
   that have been queued since may be injected.
3. The run saves the session, queues a **review** of the turn, unregisters,
   drops the turn.  The handler delivers the reply and looks once more at the
   queue (`maybe_rerun_for_pending`).
4. The web API has two ways in (`/api/send`, `/api/send_stream`).  Both pass the
   **request quotas**, then the **session lock**; the streamed one spawns a
   worker that publishes the run's events into a **run stream**, which HTTP
   clients and the WebSocket bridge follow and resume.
5. Beside the turns: the **scheduler** claims due tasks, runs the agent for each
   and records failures in a **dead-letter queue**; **sub-agent runs** compete for
   permits and are **announced** to their chat when they end; the **reflector**
   extracts **memories** from new messages; the worker of reviews and a sweep
   change **skills**; commands change the **provider and model** of a channel.

### 1.2 Components

| Component | State | Operations | What is hard | Correct if |
|---|---|---|---|---|
| Chat turn queue, `src/chat_turn_queue.rs` | map of slots; per slot a turn lock, pending messages, last activity | `acquire`, `try_start_or_enqueue`, `enqueue_if_busy`, `drain_pending`, guard drop, cleanup in `get_slot` | three mutexes, references to evicted slots, a 60 s timeout in a lock's queue | one turn per chat; queued messages are neither lost nor doubled; `acquire` returns |
| Turn lifecycle, `src/agent_engine.rs`, channel handlers | message and session rows; a run's context and iteration | stamp, store, start, load, merge, model call, inject, save, rerun, `/reset` | the database is read and written at different times, outside the queue's locks | no save overwrites another run's; every handler ends; queued messages are answered |
| Transcript, `src/agent_engine.rs`, `src/llm.rs` | the list of messages sent to the model | resume, append, inject, compact, save, sanitize | compaction cuts between a call and its answer | the provider accepts every list |
| Guards against loops, `src/agent_engine.rs`, `src/tool_guardrails.rs` | window of calls, counters per tool, streak | check, record, end the turn | three summaries of one history, kept apart | cut and warn exactly when the history says so |
| Model call, `src/llm.rs` | the request's form and retries; blocks of a stream under construction | send, refuse, retry; deltas of text and calls; end or break off; the agent's choice to run tools or to reply | calls whose deltas are mixed, imitated interfaces, streams cut short | the reply is what was said, told once, and its calls are run |
| Tool executor, `src/tool_executor.rs` | pending calls of one response | waves by concurrency class, hooks, approvals, results in order | parallel reads, exclusive writes | side effects run alone and in order; every call has its result |
| MCP client, `src/mcp.rs` | per server: breaker, rate window, request slots | `call_tool` with queueing, retries, early returns | overlapping calls report to the breaker in any order | opens with the n-th failure in a row; stays shut for the cooldown |
| Run control, `src/run_control.rs` | registry of runs, cancel flag, notification | `register_run`, `unregister_run`, `abort_runs`, the `select!` around a run | flag and notification are two steps; a future can be dropped | a stop ends the runs of its chat, all of them and no others |
| RequestHub, `src/web.rs` | per session and per actor: requests in progress, recent requests, last touch | `begin`, `end_with_limits`, pruning | two buckets charged together, pruning of what still counts, requests without an end | counters are exact; caps hold; refusals have a reason |
| SessionHub, `src/web.rs` | map of session locks | `lock_for`, lock, unlock, cleanup | cleanup against tasks between lookup and lock | one run per web session |
| Web sessions, `src/web/sessions.rs`, `src/web.rs`, `src/web/ws.rs` | rows of chats, messages and sessions | send, reset, delete, fork, set a label and its like | only sending holds the session's lock; a chat is found by title or by external id; ids of deleted chats are given again | a run begins with its own session's messages, none of them deleted, and with the one it answers |
| RunHub and streams, `src/web.rs`, `src/web/stream.rs` | per run: next id, history, done, broadcast channel; per client: position | `create`, `publish`, `subscribe_with_replay`, `remove_later`, worker, forwarder, `/api/stream` | two publishers, slow and resuming clients, a panic | no gap and no repetition in a resumed stream; one outcome, and clients learn it |
| Scheduler and DLQ, `src/scheduler.rs`, `src/tools/schedule.rs` | task rows, DLQ rows; the batch in memory | claim, run, record, update, recover; create, pause, resume, cancel, replay, `/reset` | rows change between claim and update; crashes; replay against a run | due tasks run, once; failures are accounted for; cancelled stays cancelled |
| Sub-agent runs, `src/tools/subagents.rs` | run rows, cancel flags, permits | spawn, orchestrate, kill, continue, time out | kill against start and finish; waits that hold a permit; restarts | one final status; a killed run stays killed; every run ends |
| Announce relay, `src/tools/subagents.rs`, `src/runtime.rs` | announcement rows with attempts and back-off | insert, flush by tasks, relay and tool | several flushers of one list, a crash between delivery and record | what is finished is announced; a repetition has a cause |
| Memories and reflector, `src/memory_backend.rs`, `src/scheduler.rs`, `src/tools/structured_memory.rs` | rows in one of two stores, cursors | remember, archive, update, reflect, fall back | ids of two stores, a stale snapshot, messages during the model's call | the cursor passes over nothing the model was not shown, but before the first look; only own rows are touched |
| Channel adapters, `src/channels/*.rs`, `src/channels/startup_guard.rs` | recently seen ids, start time, cursor of a poller | the guards, redelivery, polling, restart | an id is marked before the message is safe; concurrent deliveries | a message is taken once, and lost only for a reason |
| Skills and reviews, `src/skill_review.rs`, `src/skills.rs`, `src/tools/skill_manage.rs` | skills on disk, queue and set of reviews | write, create, edit, disable, review, archive | no locks between people, tools, reviews and the sweep | every turn is reviewed; human skills are kept |
| Provider and model, `src/chat_commands.rs`, `src/config_persistence.rs` | configuration file, two maps | `/provider`, `/model`, web edits, restart | file and maps are written one after the other, the file without a lock | file and maps agree when nobody is changing them |
| Store, `crates/microclaw-storage/src/db.rs` | one SQLite connection under a mutex | some 200 statements | several statements per operation, each under the mutex on its own | see the components that use it |
| Web authentication, hooks, tools, plugins and ClawHub, checkpoints, ACP and A2A, setup, observability | mostly none, or files | I/O and conversion | external processes | not modelled, section 6 |

`PROJECT.json` says of every component what is and what is not modelled.

## 2. Modules

| Module | Models | Runs |
|---|---|---|
| `ChatTurnQueue` | the queue, step by critical section | `queue`, and inside `TurnLifecycle` |
| `TurnSerializer` | what the queue promises: a turn and a bounded list per chat | refined by `ChatTurnQueue` |
| `TurnLifecycle` | handlers, jobs, runs, session and message rows of a chat; composes `ChatTurnQueue` | `lifecycle_session`, `lifecycle_stranded`, `delivery` |
| `RunControl` | registry of runs and `/stop` | `agent_run` |
| `RunStream` | one streamed run and its clients | `agent_run` |
| `ModelReply` | one call of the model: request, stream, reply | `agent_run` |
| `ToolWaves` | one batch of tool calls | `agent_run` |
| `McpServer` | the handle of one MCP server | `agent_run` |
| `RequestLimits` | admission of web requests | `bookkeeping`, `limits_lost` |
| `SessionHub` | session locks of the web | `bookkeeping` |
| `WebSessions` | what the web's requests do to the rows of a session | `bookkeeping`, `sessions_fork` |
| `LoopGuards` | breaker, streak and warnings of a turn | `bookkeeping` |
| `Transcript` | the list of messages over several turns | `bookkeeping` |
| `MemoryStores` | memories, two stores, reflector | `bookkeeping`, `memory_fallback` |
| `ChannelInbox` | from a platform's delivery to a run, per adapter | `bookkeeping` |
| `SkillLibrary` | skills, reviews, sweep | `bookkeeping` |
| `LlmOverrides` | provider and model of channels | `bookkeeping` |
| `TaskScheduler` | tasks, dead letters, scheduler and tools | `background`, `tasks_cancel` |
| `SubagentRuns` | sub-agent runs of a chat | `background` |
| `AnnounceRelay` | their announcements | `delivery` |
| `ChatTurnQueueProofs`, `TurnLifecycleProofs` | proofs about the module of that name | |
| `RequestLimitsProofs` | proofs about `RequestLimits` and `WebSessions` | |
| `RemoteCallsProofs` | proofs about `McpServer` and `ModelReply` | |
| `AgentRunProofs` | proofs about `RunControl`, `RunStream`, `ToolWaves` and all of `MCAgentRun` | |
| `ToolLoopProofs` | proofs about `Transcript` and `LoopGuards` | |
| `BackgroundProofs` | proofs about `SubagentRuns`, `TaskScheduler`, `AnnounceRelay` and all of `MCBackground` | |
| `BookkeepingProofs` | proofs about `SessionHub`, `LlmOverrides`, `MemoryStores`, `SkillLibrary`, `ChannelInbox` and `MCBookkeeping` | |
| `MC...` | instances for TLC | |

`MCAgentRun`, `MCBookkeeping`, `MCBackground` and `MCDelivery` put several
components side by side.  Where components share no state in the code's terms,
a behaviour moves one of them and the variable `part`, fixed in the first
state, says which; the others stay in their initial state.  A state of such a
run is therefore a state of one component, and nothing is gained or lost
against a run of its own.  The composition that matters, handlers and queue, is
a real one: a step of `TurnLifecycle` is a step of `ChatTurnQueue` and more.

**ChatTurnQueue.**  A slot is an object (`Slot`), not the entry of the map, so a
task can hold one that cleanup has removed and that another task's lookup has
replaced.  `pc` says which critical section of a call comes next: the map's
(`GetSlot`), the slot's (`Push`, `Touch`, `TakePending`) or the turn lock's
(`TryTurnSucceeds`, `LockTurn`).  `holder` and `waiters` are the tokio mutex,
which hands itself to its oldest waiter; `TimeOut` removes a waiter from the
middle.  `idle` stands for "last active more than `idle_ttl` ago" and may become
true at any time outside a call, because a run may last longer than that.
`enqueue_if_busy`, which only the code's tests call, is included.

**TurnLifecycle.**  A handler's step is the queue's action conjoined with its own
(`QueueStep`, `Queued`, `BeginRun`, `EndRun`, ...), so all interleavings of the
queue are interleavings of handlers.  A timestamp is the order of stamping, and
the timestamp of a save the number of messages stamped so far: `StampMessage` and
`StoreMessage` are two steps, as they are in the code.  `LoadSession` and
`MergeMessages` are two transactions.  A model call may ask for tools, end with
or without text, or fail.

**RunControl.**  `CheckFlag` and `AwaitNotify` are the two expressions of the
cancellation branch; a stop on another thread can fall between them.  Notifying
reaches whoever waits at that moment only (`notify_waiters`).  In `WebChat`
sessions commands and runs wait for the same lock.

**RunStream.**  An event is its id, `kind` what it is.  `ForwardDelta` and
`PublishDelta` are two steps (the abort buffer and the hub have locks of their
own); the worker's outcome may come between any two of the forwarder's.  The
broadcast channel keeps the newest `Capacity` events, the history the newest
`HistoryLimit`.

**ModelReply.**  The server's answer is a sequence of items (`said`), and text, calls
and inputs are positions in it, so that what the reader of the stream was told and
what the agent gets can be compared with what was said.  `mode` is the provider:
one of three interfaces, streamed or not, and how it names the deltas of a call.
`entries` is the map of blocks under construction; `BreaksOff` may come anywhere.

**ToolWaves.**  A behaviour begins with any batch of up to three calls, over one
tool of every concurrency class, one with an override, one unknown name.  A wave
of several calls runs in parallel with hooks of its own (`WaveHook`,
`CallReturns`), a wave of one call goes through the longer path with approval and
the second execution (`Retry`).  `InTurn` lists a set of calls in the order of the
response, which is how the code's loops over indices meet them.

**McpServer.**  A request is one `call_tool`: rate limit, wait for a permit,
breaker, server, report, retry.  The breaker and the limiter have their own
locks, so their steps interleave.  `log` is the history of reports, against which
the breaker's counter is compared, and `admitted` the times at which the limiter let
requests through.  A caller that drops a call half way is not modelled: the permit
is returned by the drop of its guard.

**RequestLimits.**  `Begin` and `End` are whole calls, because one lock is held
throughout.  The clock counts ticks of the order of the window.  `Pruned` is the
code's loop that pops entries from the front up to the first one in the window
(`OldestKept`).

**SessionHub.**  `LockFor` is the call with its cleanup; `Enter` and `Leave` are
the lock's owner.  A lock object can be reused when nothing refers to it.

**WebSessions.**  The tables are functions of the chat's number and a set of messages;
each awaited statement of a handler is an action, so resets, deletions and forks,
which take no lock, fall between the steps of a send (`SendResolve`, `SendStore`,
`RunLoads`, `RunSaves`, `DeliverReply`).  A run's context is a set of message rows.
`forgotten`, `forked`, `reused` and `overtaken` are histories for the properties.  Keys
that are numbers are left out (section 7).

**LoopGuards.**  A step is one response of the model with the calls that were let
through, their results and the warnings.  Two histories, `replies` and `ran`, keep the
responses and the executed calls; the properties recompute from them, as numbers of
responses and calls, what the code keeps in a window, in maps and in a counter.

**Transcript.**  A message has a role, a kind, and calls or answers; a text is
only whether there is one.  The image of a message takes the place of the last
user message's text, whatever that message was (`WithImage`).  The folds of the code (sanitizing, trimming,
compacting) are folds over sequences.

**MemoryStores.**  A memory is a row of one of two stores, and its id its place there.
A tool holds an id between the check of its owner and the change (`tool`), the
reflector a copy of the chat's memories during its model call (`reflector`).
Messages are numbers in the order of their stamps.  `Before` and `LastOf` are the
first and the last of what `reflect_for_chat` reads: from the cursor on at most
`Batch` (200) messages, or, while a chat has no cursor, its `FirstLook` (30) newest,
however many there are before them.  `FinishReflecting` and `ExtractNothing` put the
cursor on the last message read.  A restart (`RestartMemories`) cuts tools, commands
and a pass at any step; rows and cursors stay.

**ChannelInbox.**  The guards of each adapter are a sequence of names, one per
adapter, in the order of its source; a handler takes them one at a time.  A
delivery can be repeated while another handler has the same message.  A message
without an id, which an adapter stores under a fresh uuid, is no post.  Platforms
number the messages of each chat, so two chats can use one id, and `Confused` says
that the guard has taken one for the other.  Weixin's
poll loop fetches a batch, saves its cursor and handles the batch in line.

**SkillLibrary.**  A skill has a writer (a person or an agent), may be disabled or
archived; a review has the set it was shown.  The sweep looks and then renames.

**LlmOverrides.**  A command is a sequence of steps: load the file, compute, read
again, write, set one map, set the other.  `contested` and `torn` are histories
of overlapping commands and of a write that has undone another.

**TaskScheduler.**  Each database call is a step.  `AfterRun`, `SetStatus` and the
requeue of a replay write without a condition on what is there, as the statements
do.  `Crash` leaves only the rows.

**SubagentRuns.**  A spawn counts, counts children, inserts, registers and starts in
separate steps; a task waits in line for a permit, marks its row, works, may
wait for children while it keeps the permit, and marks its end; it still holds the
permit while its announcement is entered and flushed (`"announcing"`), until
`ReleasePermit`.  A kill reads, writes the row and raises the flag in three steps.

**AnnounceRelay.**  A flusher reads the due rows once and then delivers and records
them one by one, by what it has read (`DueRows`, the oldest due rows up to the limit of
the statement).  A delivery, its storing and the record can
each fail; a restart can fall between them.

## 3. Runs

Each run answers one question.  Runs marked *violated* check what a document or a
comment of the repository says and the code does not do.

| Run | Question | Bounds | States |
|---|---|---|---|
| `queue` | Is the queue one turn and one bounded list per chat, and does `acquire` return? | 2 chats, 2 tasks, 3 messages, lists of 2, cleanup threshold not exceeded | 642,000 |
| `queue_evicted_turn` | *Violated*: one turn per chat with cleanup | 2 chats, 3 slots, cleanup above 1 | |
| `lifecycle_session` | Does a save ever overwrite another run's? | 2 messages, 1 job, 2 iterations, injection on and off, `/reset`, timeouts | 4.84 million |
| `delivery` | Does every handler end, are queued messages drained, and is every finished sub-agent run announced, truthfully? | the same handlers, 1 iteration, injection off; 2 announcements, 3 flushers, 2 attempts, 1 restart | 243,000 |
| `lifecycle_stranded` | *Violated*: an idle chat's queue is empty | 2 messages | |
| `agent_run` | Does what surrounds a run do what it says, and end? | 2 runs, 2 stops, a channel's chat and a web session; an HTTP client and a bridge, history and buffer of 2; answers of 4 items, 1 retry; batches of 3 calls; 3 requests to a server, threshold 2, a request per window of 2 ticks | 500,000 |
| `bookkeeping` | Are the books of a chat and of the web exact? | 3 requests, 3 sessions, 2 actors, 2 buckets of a kind; 3 tasks, 2 locks; batches of 2 calls, 4 calls in all; 3 turns, sessions of 5; a chat with 2 facts and 3 messages, of which a first look shows 2 and a later pass 1; 4 posts in 2 chats, two of them with one id, 6 adapters, 2 deliveries, 1 restart; a skill, 2 people or agents; 2 sections, 2 commands; 2 web sessions, 3 requests, 6 timestamps | 1.38 million |
| `limits_lost` | *Violated*: a refusal for the cap has requests in progress | 2 requests | |
| `background` | Do sub-agent runs and due tasks end once, and is every failure accounted for? | 2 nested runs, 1 permit, 1 restart; a recurring and a one-time task, 1 entry, 1 crash | 307,000 |
| `tasks_cancel` | *Violated*: cancelled stays cancelled | 1 task | |
| `memory_fallback` | *Violated*: a tool touches only its chat's memories | 2 chats, a fact each, an external provider | |
| `sessions_fork` | *Violated*: a forked session continues with what was copied | 2 web sessions, 3 requests | |

Why the bounds are enough: every interference in these components is between at
most two actors and an environment step (a cleanup, a crash, a timeout, a lost
connection, a second delivery), and each limit (`max_pending`, the history, the
broadcast buffer, the buckets, the caps, the permits, the thresholds, the window
of the breaker, the session's length) is reached with something to spare.
`lifecycle_*` and `delivery` have three tasks, so that two can wait for a lock;
the quotas have more sessions than buckets and more requests than the cap; the
stream has more events than the history and the buffer hold; the two sub-agent
runs are parent and child for one permit; the messages of a chat are more than the
reflector's first look or its batch; the three requests to an MCP server are more
than two windows of two ticks admit (a limit above one is left to the proof of
`TrafficLimited`).  What bounds the state space, and not the
program, are `MaxTime`, `MaxCrashes`, `MaxRestarts`, `MaxRelayStarts`,
`MaxInboxRestarts`, `MaxAgentEvents`, `MaxSaid`, `MaxCalls`, `MaxAsked`, `MaxTurns`,
`MaxDeliveries`, `MaxCommands`, `MaxMessages`, `MaxItems`, `MaxBusy`, `MaxWorkers`,
`MaxRows`, `MaxWebCalls`, `MaxClock`, and the finite sets of messages, requests, runs, stops and entries, each
used once.  Three abstractions narrow a run: one kill at a time (`Killable` is one
run), a flush takes one row (`BatchLimit` 1 for 200), and `bookkeeping` leaves out
approvals in the transcript and the external provider of memories (`Approvals`,
`External`), the second of which `memory_fallback` turns on.

Every property of a passing run is also checked against a plausible bug in the
code, defined next to the definition it replaces (`\* Mutant of ...`) and listed
under "mutants": the run must then fail.

### 3.1 What the properties say

- `LockInv`, `OneTurnPerChat`, `QueuedIsReachable`, `AcquireReturns` (`queue`): the queue's
  promises.  `ImplementsSerializer` is the refinement: no step moves a turn to a
  second owner, touches two chats, or changes a list but by one message or one
  drain.
- `NoLostUpdate` (`lifecycle_session`): as long as no run has gone ahead without the
  turn, the saved session only grows (or is reset).  The code replaces the row
  without looking, so this rests on the queue alone; a run that timed out in
  `acquire` breaks it.  That a save does undo a `/reset` is not excluded (section 7).
- `TasksFinish`, `QueuedIsDrained` (`delivery`): under fairness, every handler, rerun
  and job ends, and what is queued when a handler's first run ends leaves the
  queue.  `DeliveriesAreRight`: what an announcement's row says of a delivery has
  happened, whichever flusher recorded it, and a text is sent twice only with a
  cause.  `FinishedIsAnnounced`: a finished run is announced or given up, across
  restarts, unless the process stops before its row is inserted.
- `RegistryExact` (`agent_run`): a run can be stopped while it lasts, none that is
  over stays registered unless its future was dropped, and a stop takes exactly
  the runs of its chat.  `ResumeIsExact`: across connections a client gets each event
  once, in order, and misses none unless its stream reported a gap or lagged.
  `OutcomeIsRight`: one outcome, the aborted text covers what was published, an ended
  stream has told the outcome.  `WavesAreFaithful`: side effects run alone and in
  order, a blocked call never starts, an approval that is needed is asked for, the
  counted executions are those made.  `OpensExactly`, `CooldownKept`, `LimitsHold`: the
  circuit opens with the failure that makes the threshold, in the order of the
  reports, and with no other; no request begins in a cooldown; permits balance and
  no minute sees more than two windows' worth.  `AgentRunEnds`: a stop ends the runs
  that wait to be woken or have yet to read their flag, in chats of channels
  (`StopEndsRuns`), open streams end, every call of a batch gets its result, a model is not
  asked for ever.  `RepliesAreFaithful`: a reply has the calls the model has made, in
  order and each with its own whole input, and all of its text; streamed text is told
  once; calls are run; an input is left out only when the answer was cut short.
- `InflightExact`, `AdmissionIsExact` (`bookkeeping`): the counters against the requests
  they count, not against themselves; no request is admitted beyond a limit
  (`QuotasHold`) and none refused within all of them (`RefusalsHaveCause`).  `OneRunPerSession`, and `HubInv`
  in `BookkeepingTypeOK`: a task's lock is the map's lock of its session.  `GuardsExact`:
  calls are cut, turns ended and warnings given exactly when the turn's history says
  so.  `ListsAreSendable`: every list sent has each call followed by its answer, no
  answer without its call, injected notes reach the model, it begins and ends with
  a user's turn (but for what the property names), and the saved one is capped.
  `NoMessageSkipped`: the reflector's cursor moves forward, and over messages only that
  a pass has shown to the model; excepted are those before the newest 30 when a chat
  has no cursor yet, which the code passes over for good.  `MessagesTakenOnce`: a delivered message is taken up once, or lost
  for a reason of its own, a restart, Weixin's saved cursor, or another chat's message
  with the same id.  `TurnsAreReviewed`: a
  saved turn is reviewed by a review that begins after it was saved.
  `HumanSkillsKept`: neither a review nor the sweep takes a skill from the person who
  wrote it, except one the review was not shown or that was written since.
  `ContextsAreOwn`: a web run begins with messages of its own session, none of which a
  reset, a deletion or a fork has removed, and with the one it answers, although none
  of the three waits for a run and a run saves afterwards what it had loaded.  What
  keeps a reset from being undone is that the chat loses its external id by it, the
  very thing that `ForksContinue` trips over.  Excused are a number given to a new chat
  while a run of the old one or a fork into it goes on or has left rows (`reused`), and
  a chat changed between the storing and the loading (`overtaken`).
  `OverridesAgree`: when nobody is changing a channel, the file and the maps say the
  same and the model is one of the provider's.
- `RunsAreOwed` (`background`): an occurrence runs once, again only after a crash, a
  replay or a resumption.  `RunningIsHeld`: no row is marked running without somebody
  who will get to it, those excepted that this process claimed last and skipped
  because their chat could not be looked up.  `CompletedIsAccountedFor`,
  `RevivalsHaveCause`: what becomes of a task.  `KillsAndRowsAgree`: a row is active
  exactly while somebody will finish it, and a kill before the run has begun wins.
  `FinalIsFinal`: a final status is never written over.  `WorkIsDone`: due tasks run,
  sub-agent runs end.

### 3.2 Disagreements found

1. `queue_evicted_turn`: cleanup tests the slot's mutex, which is only held for
   moments, and not the turn lock.  With more than 100 slots the slot of a run
   longer than 600 s is removed, and the chat gets a second turn.
2. `lifecycle_stranded`: after its rerun, or between its drain and its end, a
   handler looks no more; a message queued then waits for the next one.
3. `limits_lost`: `/api/send` returns early (a missing user header, a closed
   connection) between `begin` and `end_with_limits`, and its place is never freed.
4. `tasks_cancel`: `update_task_after_run` sets a recurring task active whatever its
   status is by then.
5. `memory_fallback`: the fallback to SQLite is decided one operation at a time, and
   the stores number their memories independently: an id checked in one store
   archives or updates another chat's memory in the other.
6. `sessions_fork`: a fork inserts the target's chat again with its number as its
   external id, by which a later message to the target's key does not find it: a
   second chat is made, and the run begins without the copied messages.

Section 7 lists what the models also reach or a reading has shown, and no run
states as a property.

## 4. Fairness

All weak, and per actor, so that no actor's progress is borrowed from another's.
In the runs of several components each condition holds for the component that
moves.

- `ChatTurnQueue`: a task whose next critical section is free is polled again, and
  the 60 s timer fires.  tokio guarantees both.  No fairness for `Release`: agent
  runs need not end, and `AcquireReturns` holds without it.
- `TurnLifecycle`: also that a run goes on.  Iterations are capped by
  `max_tool_iterations` and tools have timeouts; that the model's provider answers,
  or its connection fails, is a premise, because the HTTP clients of `src/llm.rs` are
  built without a timeout.
- `ModelReply`: a request that is refused is changed or waited with and sent again;
  for the answer nothing is assumed.
- `RunControl`: a woken run is polled and a stop that was issued goes on; no fairness
  for `Finish`, so that only the stop can end a run.
- `RunStream`: the worker, the forwarder, the removal timer and open streams go on;
  nothing for clients, who connect or not as they like.
- `ToolWaves`: the batch goes on; hooks and tools have timeouts.
- `McpServer`: each request goes on; a request to the server and a wait for a permit
  have timeouts.  Nothing is assumed of the clock.
- `TaskScheduler`: the loop and a replay that was begun go on.  This assumes that the
  agent returns (the same premise), because the loop waits for it.
- `SubagentRuns`: each task is polled, a permit goes to the head of the line (tokio's
  semaphore is fair) and comes back when the run's announcement is flushed, each caller that has inserted a row starts its task, and the
  timer of each run fires: `RunsFinish` is false with `run_timeout_secs` 0.
- `AnnounceRelay`: a task that has ended inserts its row, back-offs end, and each
  flusher goes on with its list; the relay ticks.

Deadlock is checked in `queue`, where there is always a next call; the other
systems really stop (each message, request, run or task of a finite set is used
once), so their configurations say `CHECK_DEADLOCK FALSE`.

## 5. Proofs

TLAPS proves the following for every value of the constants: any number of chats,
tasks, messages, runs, requests, sessions, restarts.  The assumptions are the named
ones of the modules (null values are not members of the sets they stand beside,
limits are natural numbers) and those stated here.  Proofs go action by action, with
one lemma per action or group of actions, over lemmas about the lists and maps.

`ChatTurnQueueProofs`
- `LockInvariant` (`LockInv`) is inductive: types; `CallRefs`, a task refers to a slot
  exactly while it is in a call, waits, or has a turn; `WaitersWait`, who is in a
  lock's queue waits for that lock, once; and `TurnLockExclusive`.  The exclusion
  alone is not inductive: that a release makes the oldest waiter the owner is only
  right if that waiter waits for this very lock.  Cleanup and timeouts are included.
- `TypeCorrectness`, `TurnLockIsExclusive`: its consequences.
- `OneTurn` (`OneTurnPerChat`): if there are never more chats than the cleanup
  threshold, at most one task holds a chat's turn.  Added to `LockInv` is
  `CurrentSlot`, every reference is to the slot the map has for that chat, which
  cleanup breaks; without the assumption the theorem is false
  (`queue_evicted_turn`).
- `QueuedStaysReachable` (`QueuedIsReachable`), under the same assumption: a queued
  message is in the list that the next holder of the turn drains.  `QueueInv` adds to
  `LockInv` and `CurrentSlot` where each message is: `CarriedInv`, the message that a
  call carries is in no list and in no other call; `ListsInv`, what is in a list is
  queued, once and in one list; `MapInv`, each chat has a slot of its own.
- `QueueImplementsSerializer` (`ImplementsSerializer`), under the same assumption: the
  queue implements `TurnSerializer`.  A chat's turn is the owner of the lock of its slot,
  and its pending messages are the slot's list; each step of the queue is, from a
  state with `QueueInv`, a step of `TurnSerializer` or changes nothing it sees.

`TurnLifecycleProofs`
- `LifecycleInvariant`: `LockInv` and `CurrentSlot` of the queue, `TurnInv` (who is inside
  a run has the turn or has given up on it), `SessionInv` (the context of a run with
  the turn begins with the saved session) and `StampsOK`, under the same assumption
  on cleanup.
- `SavesExtend` (`NoLostUpdate`): every save extends what was saved.  `TurnInv` makes the
  saver alone, `SessionInv` says what it has read is still what is there.

`RequestLimitsProofs`
- `RequestLimits`, `BooksInvariant`: `RequestsOK`, `Sound`, `InflightExact` and `BucketsBounded`.  A bucket's
  counter is a cardinality, so `CountersExact` (`InflightExact`) needs lemmas on what
  one request adds or takes away; `Sound` says that the maps are finite and
  their buckets' counters within the cap.  `CapHolds` and `MapsBounded` follow.
- `RateInvariant`: the entries of a bucket are, one by one and in order, requests of its
  name that were admitted, and none of those in the window is missing; a name without a
  bucket has had none admitted lately.  `LimitsExact` (`AdmissionIsExact`) follows: no
  request is admitted beyond a limit, and none is refused within all of them.  Both
  assume that a bucket lives idle for at least a rate window (`IdleTtl >= Window`; the
  code's defaults are 300 and 10 seconds): an idle bucket takes its entries with it.
- `WebSessions`, `WebInvariant`: unless a chat's number was given again while a run or a
  fork was still on the old chat, the row by its external id, the messages, the saved
  session and all that runs and forks have of it are of one key (`OfKey`); a chat that a
  run can begin in holds nothing that has been deleted (`NothingOld`); the message of a
  run that has not read yet is there for it to find (`Findable`); and one run of a key
  goes on at a time.  What a run saves after a deletion is not loaded again because the
  deletion has taken the chat's row with it, and a row that a reset or a fork makes anew has its number for its
  external id, which no key finds.  That is the use of the assumption that keys are not
  numbers.  `ContextsOwn` (`ContextsAreOwn`) follows.  The run has two keys; with three,
  the chat of a third can be made while a fork has deleted its target's row, and
  the theorem had to take that into account (section 7).
- `LimitsTypes` and `WebTypes`: the types of both modules.  The buckets' counters and
  logs are typed by what `BooksInv` ties them to; that a request of the web holds a key,
  a chat or a list in the steps that use one takes the step-by-step typing of
  `WebTypeInv`.

`RemoteCallsProofs`
- `McpServer`, `McpInvariant`: `LogOK`, `PermitsInv`, `CountInv` (the counter is the number of failures
  since the last reset in the log), `OpenInv`.  `PermitsBalance`, `OpensOnTime`
  (`OpensExactly`) and `CooldownHolds` (`CooldownKept`) follow.
- `TrafficLimited` (`LimitsHold`): no minute, wherever it begins, sees more than twice the
  limit go through, and permits balance.  `WindowsOK` is inductive: the counter is at least
  the number admitted since the window began, and no minute that ended before it
  has seen more than one limit.  The history of admissions is unbounded.
- `ModelReply`, `ReplyInvariant`: every item suits its interface and comes behind what it
  belongs to (`SaidOK`); what is kept of a stream lists what has been said of its kind, in
  order and once (`StreamOK`): the calls, each with the pieces of its own input
  (`CallsKept`), or the blocks, each with its text or its input (`BlocksKept`); and the reply is
  exact (`ConclusionOK`).  The main part is that each of the four ways to build a reply
  is exact if what was kept is (`FromBlocksExact`, `FromDeltasExact`, `FromMessageExact`,
  `FromItemsExact`); `BlocksUpTo`, the reply block by block, is a recursive function, and what
  it yields is shown by an induction over its domain.  `RepliesFaithful`
  (`RepliesAreFaithful`) and `ReplyTypes` follow, for answers of any length.

`BackgroundProofs`
- `SubagentRuns`, `SubagentInvariant`: where a caller is (`CallInv`), what a task has (`WorkInv`), who is in
  line for a permit (`LineInv`), what an early kill has left (`EarlyInv`), and
  `RowsMatchTasks`.  `KillsAndRows` (`KillsAndRowsAgree`) and `FinalStays` (`FinalIsFinal`)
  follow: the statements that write a status have no condition, and it is the
  order of the steps that keeps a final one.
- `TaskScheduler`, `SchedInvariant`: what the batch, the rows, the entries and the history
  of owed runs have to do with each other.  `RunningHeld`, `CompletedAccounted`,
  `RunsOwed` and `RevivalsCaused` follow, for any number of crashes.
- `AnnounceRelay`, `AnnounceInvariant`: what a flusher has read of a row is never ahead of
  the row's deliveries (`FlushInv`), and a row that two flushers have not contested is
  in one list at a time and sent at most once (`OwnInv`).  `AnnouncementsAreRight` (`DeliveriesAreRight`) follows.
- `MCBackground`, `BackgroundTypes` (`BackgroundTypeOK`): both invariants side by side, and
  the types that follow from them.

`ToolLoopProofs`
- `Transcript`, `TranscriptInvariant`: the list of a turn is well formed, calls are answered
  by their neighbours (`Neighbours`), it begins with the user (`UserFirst`), and all but what is
  still at work is answered (`Answerable`).  `TranscriptSendable` (`ListsAreSendable`) follows: what
  `sanitize_messages` makes of it, and what is made of that for OpenAI, is a list that a
  provider takes.  Compaction, sanitizing and the translation are folds over lists of any
  length.  The induction theorems of the library cannot be instantiated, so each
  fold is proved about by the set of the numbers up to which its value is right.  The theorem
  assumes that there are no approvals, as the run does: a turn that stops for one
  saves a list whose calls a later compaction may leave without answers (section 7,
  "Within the models").
  `TranscriptSendableWithApprovals` states what holds with them: all of it but for the
  answers that a compaction may cost.
- `LoopGuards`, `GuardsInvariant`: the window of the breaker has the keys of the newest
  executed calls, one by one (`KeysOf`); the counters of equal results and of failures are
  numbers of calls in the history (`SameOf`, `FailsOf`); so is the streak of equal
  responses (`StreakOK`).  `GuardsTellTheTruth` (`GuardsExact`) and `GuardsTypes` (`GuardsTypeOK`)
  follow, for any limits and any number of responses.

`BookkeepingProofs`
- `SessionHub`, `HubInvariant`: references are to the lock the map has, a lock serves one
  session, and its owner is the running task that refers to it.  Here cleanup is
  harmless: it tests `Arc::strong_count`, which counts references, so it spares every
  lock that a task has looked up.  `OneRun` (`OneRunPerSession`) follows.
- `LlmOverrides`, `OverridesInvariant`: a section whose changes come one at a time has a
  sound file, and its live maps are what the file says but for what the one command
  at work has yet to do (`SectionOK`); a command holds the file as it is unless another has
  written it since (`AskedInv`).  `OverridesSettle` (`OverridesAgree`) follows.
- `MemoryStores`, `CursorInvariant`: a pass begins where the cursor is, or with the newest
  messages if there is none, ends within what is stored, and once the model has
  answered all it read has been shown (`PassInv`); nobody else moves the cursor.
  `CursorIsHonest` (`NoMessageSkipped`) follows, for any `FirstLook` and `Batch`, any
  backlog, and restarts at any step.  `MemoryTypes` needs an invariant of its
  own, `MemoryTypeInv`: a pass at work holds rows, topics and items of the right kinds
  and a goal within the chat's messages (`PassTyped`); every operation, on either store
  or both, writes rows to places that exist (`RowsTyped`); and no cursor is beyond its
  chat's messages (`CountsTyped`).  The number of all messages is bounded as the
  cardinality of a set, so chats are assumed to be finitely many, and that there is a
  fact at all gives the empty decision of a command its type.
- `SkillLibrary`, `SkillInvariant`: a review knows a person's skill for what it is, and the
  sweep has none in hand, unless the person came after they had looked (`LooksInv`).
  `ReviewsFollowTurns` (`TurnsAreReviewed`) and `PeopleKeepSkills` (`HumanSkillsKept`) follow.
- `ChannelInbox`, `InboxInvariant`: a handler beyond the guard has a message the guard
  has passed, and of two with one message the guard had forgotten the first
  (`GuardInv`); the same of the database's row, which a look-up that failed lets through
  twice (`RowInv`); what has passed the guard or has a row has been taken up, is excused
  or goes on, and a loss has a cause (`CauseInv`). The adapters differ in the order of
  their steps; lemma `StepsOrdered` states, for all of them, what the proof uses of
  those orders. `MessagesOnce` (`MessagesTakenOnce`) follows.
- `MCBookkeeping`, `BookkeepingTypes` (`BookkeepingTypeOK`): the invariants of the nine parts
  of the composition side by side (`BookkeepingInv`).  A step of it is a step of one
  part and leaves the variables of the others (`PartSteps`), and each part starts as it
  does alone.

`AgentRunProofs`
- `RunControl`, `ControlInvariant`: types; `Placed`, where the entry of a run is by the step
  the run is at; `TakenOnce`; `Caused`, a raised flag has a stop that took the run.  The
  three parts of `RegistryIsExact` (`RegistryExact`) follow: `RunsAreStoppable`,
  `RegistryIsCurrent`, `StopsHitTheirOwn`.
- `RunStream`, `StreamInvariant`: the history is the newest events without a gap
  (`HistoryInv`), what is left of a replay ends where the receiver begins and begins after the
  last event received (`JoinInv`), the outcome is published once the worker has finished
  (`OutcomeInv`), each delta is in the abort buffer before it is published (`BufferInv`), and
  who subscribes to a run that is over is told its outcome (`ToldInv`).  `ResumesJoin`
  (`ResumeIsExact`) and `OutcomesReach` (`OutcomeIsRight`) follow.
- `ToolWaves`, `WavesInvariant`: waves are in the order of the response within a class, and
  only read-only calls are together (`TodoInv`); only calls of the current wave are at work
  (`PlaceInv`); what has started was not blocked and comes before what is still to come of its
  class (`StartInv`); `toolCalls` counts it (`StartedInv`).  `WavesFaithful` (`WavesAreFaithful`) adds
  that a question reaches the turn (`AskInv`), and assumes that no override makes `bash`
  read-only: with such an override the property is false (section 7).  `WavesTypes`
  (`WavesTypeOK`) needs the bounds of the counters: each execution has its call, which has two
  at most, and each message sent in a row beyond the limit one that is done (`CountersOK`).
- `MCAgentRun`, `AgentRunTypes` (`AgentRunTypeOK`): the invariants of `RunControl`, `RunStream`,
  `ToolWaves`, `McpServer` and `ModelReply` together are one of the composition.

Only model-checked:
- All liveness (`AcquireReturns`, `FinishedIsAnnounced`, `TasksFinish`, `QueuedIsDrained`,
  `WorkIsDone`, `AgentRunEnds`), which is out of the prover's reach.  Every safety property
  of a run that passes is stated by a theorem.
- The properties of the six runs that expect a violation, which do not hold.

## 6. What is not modelled

Data: message text, prompts, tool arguments and results, cron arithmetic,
timestamps beyond their order, HTML and JSON, token estimates and budgets.
Failing database writes that are only logged.  Transports, formatting, attachments
and logins of channels; request bodies, logins and the splitting of bytes into events
for model providers; hooks, plugins and
tools of the shell and the file system, which are external processes or I/O;
checkpoints, whose effect is git's; the setup wizard, gateway service management,
ClawHub and observability: I/O, or one user at a time.  Web authentication: requests
are independent but for the throttle.  ACP and A2A: adapters around the same agent
run.  Web sessions named by a number (`chat:<id>`).  The title generator, the knowledge graph and the user model; the quality
scores of memories; how a model decides.  `PROJECT.json` gives the reason for each
component.

## 7. What the code leaves open

Seen while modelling.  The models reach the first group and their properties
excuse it by name; the second lies outside the models.

Within the models:
- `acquire` gives up after 60 s and runs without the turn (`bare`), which `NoLostUpdate`
  excuses.
- A message stamped before a save and stored or queued after it is older than the
  save: the rerun for it reads nothing new.
- `/reset` takes neither the chat's turn nor its run: a run that is in progress saves
  what it had loaded and writes the deleted conversation back
  (`src/agent_engine.rs:502`).  `NoLostUpdate` is about runs only.
- A stop that comes between a run's look at its flag and its wait is lost: it wakes
  nobody and has taken the run out of the registry (`src/agent_engine.rs:193`).  The
  text of a web message is looked at under the session lock, which the run holds, so a
  `/stop` there is carried out when the run is over.  `StopEndsRuns` leaves out
  these two (`WithinReach`, `WebChat`).
- A turn that stops for an approval saves a list that ends with answers, and the next
  user message stands right behind them.  A compaction that keeps both joins them into
  one message of text, because both have the user's role: the calls before them are
  left without answers in the saved list, for good.  `bookkeeping` and
  `TranscriptSendable` have `Approvals` FALSE; `TranscriptSendableWithApprovals` says
  what is left.
- The reflector's first pass over a chat reads its 30 newest messages and puts the
  cursor behind them: earlier ones are never looked at (`src/scheduler.rs:704`), which
  `NoMessageSkipped` excepts.
- The bridge takes a lag for the end (`excused` in `EndedStreamsToldOutcome`); the
  outcome of a streamed run can precede its last events.
- A task whose owner lookup fails stays `running` until the next start; a batch's
  later tasks start although paused meanwhile; the entry of a one-time task is
  always skipped by a replay.
- Limits of sub-agents are counted before the row is inserted: two spawns at once
  pass the same count.  Rows that a restart or a dropped spawn has left stay active
  and count for ever.  A run that waits for its children keeps its permit.
- Two flushers can deliver an announcement twice and set one that was sent back to
  retry; a delivery whose storing fails is sent again.
- Parallel waves skip the hooks after a tool, and neither ask for an approval nor
  repeat a call with it (`src/tool_executor.rs:664`): with an override that makes `bash`
  read-only, two such calls get an error as their result and nobody is asked.
  `WavesFaithful` excludes that override.  One approval covers every high-risk
  call of the turn; a rate token is spent on calls the breaker then refuses, and a
  retry does not ask it again.
- A stream that breaks off counts as the whole answer, and a call whose input was cut,
  by the connection or by the output limit, runs with an empty one.  Streams are not
  retried when the provider asks for patience (429).
- Deltas of a call that name neither index nor id become calls of their own
  (`keyed = "no"`, which the properties except).  In OpenAI streams calls spelt out in
  the text are cleared from it and not run; in plain answers they are lost when an
  empty list of calls stands beside them.  Text in the first event of an Anthropic
  block is in the reply and not in the stream.
- Repetitions inside one batch do not count for the breaker of repeated calls.
- The reflector's snapshot is from before the model's call: a memory deleted in
  between is revived; two concurrent supersedes leave two active rows of a topic.
- An id is marked as seen before its message is stored: when Feishu's token request
  fails, the platform's redelivery is dropped.  Weixin's poll loop handles messages
  in line, so `/stop` is read when the run has ended.  The guard knows a message by
  channel and id, although ids of Telegram supergroups and of Slack are unique within
  a chat only (`src/channels/startup_guard.rs:64`): a message can be dropped for
  another chat's (`Confused`).  A command is carried out again
  once the guard has forgotten it.
- A disabled skill of a person is not in the list a review is shown, and the review
  may write one of that name.
- A web chat that is deleted under a run keeps what the run stores or saves after it;
  the table's numbers are given again, so the next new chat may continue it.  The same
  while a fork has deleted its target's row and not yet made it anew
  (`src/web/sessions.rs:375`): a chat made in between gets its number, and then the
  messages of the fork (`reused`).
- A setting saved between a message's storing and its run's loading moves `updated_at`
  past the message, which the run then does not see.
- After a reset or a fork two chats have one title: reading takes the newest, sending
  the one with the external id, and a deletion leaves the other.
- Two commands at once on one channel can leave the file and the maps different; the
  file is read, changed and written without a lock.

Outside:
- A web session whose key is a number finds, by that number, a chat that a reset or a fork
  of another session has made anew (`resolve_or_create_chat_id`).
- A provider that accepts a request and never answers holds the turn of its chat, or
  the scheduler with all its tasks, for ever: nothing times out.
- `chat_turn_queue_max_pending` 0 panics on the first message of a busy chat;
  `web_session_idle_ttl_seconds` below the rate window restarts the rate limit.
- `/api/reset` says that scheduled tasks are kept (`src/web/sessions.rs:168`), but for
  a web chat it deletes them and the memories (`delete_chat_data`).  A fork inherits no
  settings, as RFC 0003 asks.  `sessions.kill` and `chat.abort` miss a run that still
  waits for its session lock.
- A spilled tool result carries a fresh uuid, so equal large results never look the
  same to the guardrails; `parallel_tool_max_concurrency` is not used.
- A failed startup probe pauses the reflector's writes for good; its cursor is a
  timestamp, and a message stored late with an earlier or the same one is skipped.
  Messages and memories are not deleted in `MemoryStores`: `/reset memory`
  (`clear_chat_memory`) deletes the cursor too, and the next pass is a first one again.
- A message without an id gets a fresh uuid at each delivery (`src/channels/weixin.rs:2265`,
  `src/channels/feishu.rs:2774`, and others), so its redelivery is taken for a new one.
- Budget 0 of a sub-agent becomes none, so the child gets the full one; a stop for
  the budget records 0 tokens.
- A run reads provider and model one after the other; a switch in between mixes
  them.
- Checkpoints (`src/checkpoint.rs`): an initialisation cut short after `git init` is
  taken for complete and lacks the exclude file and the user; a restore checks files
  out over the directory, so files created later stay, and changes since the last
  snapshot are lost; a timeout leaves git running.
- Direct channels report failed runs to nobody (QQ, Signal, Weixin, Nostr, e-mail,
  DingTalk); Telegram's streaming path repeats what a `send_message` call has said;
  Slack starts a run for an image nobody addressed to it, if so configured.

What is left to do, in order of weight: `TurnLifecycle` with cleanup of slots;
tokens and budgets in `SubagentRuns`; the login throttle of `src/web/auth.rs`.
