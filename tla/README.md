# TLA+ models of lego-claw

lego-claw puts coding agents (opencode, Claw Code, OpenHands) behind adapters
that speak A2A and MCP, with a registry, a skills manager and a web-search MCP
server beside them.  This directory holds the specifications of its stateful
parts, the TLC configurations that model-check them, and TLAPS proofs of what
matters most.

- [1. The system](#1-the-system)
- [2. What is modelled](#2-what-is-modelled)
- [3. What the runs show](#3-what-the-runs-show)
- [4. Disagreements between code and words](#4-disagreements-between-code-and-words)
- [5. What is proved](#5-what-is-proved)
- [6. Plan](#6-plan)
- [7. How to run everything](#7-how-to-run-everything)

Paths are relative to the repository; `a2a/` is short for
`docker/agent-mesh-common/a2a/`.

## 1. The system

### Components

| Component | State it keeps | Operations | What makes it correct |
|---|---|---|---|
| **Task store** (`a2a/task_store.py`) | `_tasks`, a dict of records, each an immutable `Task` and a list of subscriber queues | `create_task` (evicts when full), `get_task`, `list_tasks`, `append_message`, `append_artifact`, `record_status`, `cancel_task`, `subscribe`, push configurations | streams show every update in order or log a warning, and come to an end; the table stays bounded; pages are consistent |
| **REST bridge** (`a2a/rest.py`) | `TaskRunnerBridge._running`, one asyncio task per A2A task | `submit`, `cancel`, `_drive`, SSE streams, blocking sends (`_wait_terminal`) | record and asyncio task agree; every task is driven to a terminal state and stays there; blocking calls answer with the right snapshot |
| **JSON-RPC and gRPC handlers** (`a2a/handlers.py`, `jsonrpc.py`, `grpc_server.py`) | none of their own; background asyncio tasks that write to the store | `submit_message`, `stream_message`, `cancel_task`, `get_task`, `list_tasks` | no task is handed out that nobody works on; a cancelled task stays cancelled |
| **Push dispatcher** (`a2a/push.py`) | one delivery worker per push configuration, attached at a sweep | `start`, `stop`, `_sweep`, `_deliver` with retries and backoff | a webhook misses no event, is never told an older one after a newer, and catches up |
| **In-task authentication** (`a2a/auth.py`) | a future per challenged task | `request_auth`, `provide_credentials` | a challenge is answered, cancelled or timed out, never stranded |
| **opencode ACP client** (`docker/opencode-adapter/acp_client.py`, used by `server.py`) | the subprocess, the JSON-RPC peer with its pending futures and reader task, `_initialized`, an asyncio lock, turn queues, known sessions | `ensure_initialized`, `session_new`, `session_prompt`, `session_cancel`, `aclose`, permission and file-system callbacks | pending calls always end; one subprocess at a time; readiness is true; a run never loses its connection to another run |
| **opencode terminals** (`docker/opencode-adapter/terminals.py`) | a table of child processes with ring buffers | create, output, wait, kill, release | every wait returns; output is the newest bytes |
| **Adapter core** (`docker/agent-mesh-common/agent_mesh_adapter.py`; runners in `docker/clawcode-adapter`, `docker/openhands-adapter`) | `SessionStore`, semaphores, child processes, sandbox containers | depth guard, bearer check, sessions, `run_subprocess`, sandbox cleanup | nesting is bounded; an answer follows its question; every call ends; a cleanup spares the runs of others |
| **Agent registry** (`docker/agent-registry/server.py`) | card cache with ETag and TTL | fetch, search, proxy of `tasks/send` and streams | a card is as fresh as its time stamp says; the ETag belongs to the card |
| **Skills manager and loader** (`docker/skills-manager/server.py`, `skills_loader.py`) | skill files and their front matter; a catalogue in every adapter | attach, detach, write, delete, reload broadcast | an adapter with an old catalogue is known to have one; what is detached stays detached |
| **Web search** (`mcp/multi.py`, `mcp/server.py`) | none | fan-out to engines, round-robin merge with deduplication | the merge is fair, duplicate-free and complete up to its limit |
| **Agent card and JWS** (`a2a/agent_card.py`, `a2a/jws.py`) | two cached cards behind a thread lock; the private key in a file | `cache`, `extended_cache`, `reload`, `load_or_generate_keypair` | a card is no older than the last reload and carries the published key |
| **Relay, launchers, compose and litellm files, vendored Dify, generated protobuf** | none | | not modelled: stateless, configuration, vendored or generated |

### How they interact

An orchestrator finds an agent through the registry and sends it a message.  The
A2A binding creates a task in the store and starts a runner for it; the runner
(for opencode: `OpencodeRunner.run_one_shot` over the ACP client) returns one
result, which the binding writes to the store.  Clients follow a task through
`subscribe()`, as an SSE stream, as a blocking send, or through the push
dispatcher's workers.  `tasks/cancel` reaches the store always and the runner
only in the REST binding.

At this commit the A2A routers are a library: `docs/agent-mesh.md` documents
them, `build_app` of the adapter core does not mount them yet.

### Where the hard behaviour is

Everything runs on one asyncio event loop, so an interleaving is a choice of
which coroutine continues at a suspension point.  The code's hazards are there:

- a cancellation that meets an asyncio task before its first step, inside the
  runner, or after it has finished (`rest.py:156`);
- writers that overwrite whatever state they find (`task_store.py:449`);
- a full table that evicts a task whose runner and subscribers are alive
  (`task_store.py:271`);
- bounded queues between writers that never wait and consumers that may be slow
  (`task_store.py:512`, `525`);
- a subprocess that dies while several runs have calls in flight, a lock that is
  not reentrant, a retry that closes what others use (`acp_client.py:458`,
  `465`; `server.py:268`);
- a snapshot taken before a wait and used after it (`rest.py:707`);
- a challenge replaced while a runner waits on it, and writers that do not know of
  each other (`auth.py:136`, `269`);
- workers that are attached, give up, end and are attached again by a poller that
  knows only its own table (`push.py:229`);
- one reader that carries out opencode's requests itself (`acp_client.py:292`) and
  terminals whose watcher a release cancels (`terminals.py:214`);
- files that change before the adapters hear of it (`skills-manager/server.py:447`)
  and fetches that overtake each other (`agent-registry/server.py:224`);
- agents that call the adapter their own caller occupies
  (`openhands-adapter/server.py:301`).

Two parts run elsewhere: the card manager is called from threads, and its key file
outlives the process (`jws.py:204`).

`PROJECT.json` lists each of them with its line and the properties that watch it,
and the ones that no property watches yet.

## 2. What is modelled

| Module | Models | Extends |
|---|---|---|
| `TaskStore` | `InMemoryTaskStore`: table, statuses, streams | |
| `TaskBridge` | the REST binding and its bridge | `TaskStore` |
| `TaskLifecycle` | abstract: the life of a task as a client may rely on it | |
| `TaskHandlers` | the handlers of the JSON-RPC and gRPC bindings | `TaskStore` |
| `TaskRpc` | the two bindings: batches, notifications, gRPC calls | `TaskHandlers` |
| `TaskListing` | `list_tasks` and a client that follows its page tokens | `TaskStore` |
| `InTaskAuth` | challenges and credentials | `TaskStore` |
| `PushDispatcher` | poller and delivery workers | `TaskStore` |
| `TaskServices` | composition: the four services above over one store | those four |
| `AcpClient` | the life of the opencode connection under concurrent runs | |
| `OpencodeTurns` | prompts, updates and terminals on a connection that stands | |
| `SkillsCatalogue` | skill tree, skills manager, loading in the adapters | |
| `AgentRegistry` | the registry's card cache over those adapters | `SkillsCatalogue` |
| `AdapterRuns` | nested calls and the two subprocess runners | |
| `MultiSearch` | the merge of a web search, with its reference definition | |
| `CardSigning` | the card manager under threads, the key file under crashes | |
| `AgentMesh` | composition: the services around the task API | all from `OpencodeTurns` on |
| `MCTaskBridge`, `MCTaskHandlers`, `MCTaskServices`, `MCAgentMesh` | symmetry sets and the inputs clients choose from | the module they check |
| `*_proofs` | theorems and their proofs | the module they are about and those it uses; see below |

`TaskServices_proofs` is about `InTaskAuth`, `PushDispatcher` and `TaskListing`,
`TaskHandlers_proofs` also about `TaskRpc`, `AgentMesh_proofs` about `OpencodeTurns`,
`CardSigning` and `MultiSearch`, `AgentRegistry_proofs` also about `SkillsCatalogue`.

Operators whose comment begins with "Mutant of" are versions of an operation with
a plausible bug.  No specification uses them; `PROJECT.json` says which property
must fail when one takes the operation's place.

### TaskStore

The store's methods take locks, but nothing inside a critical section suspends:
`put_nowait` never waits, and without suspension nobody contends.  A method is
therefore atomic and is written as an *operator* from a store value to a store
value (`CreateTask`, `AppendData`, `RecordStatus`, `CancelTask`).  A caller that
makes two calls in a row composes two operators, and its action is the whole
step between two suspension points.  The consumer side of `subscribe()` does
suspend, at its `yield`s and at `queue.get()`, and is written as actions
(`Subscribe`, `Deliver`, `Return`, `Disconnect`).

- `dict` is `_tasks` in insertion order, which decides ties in the eviction's
  `min()` by timestamp (`Oldest`).  `now` is the wall clock: it may stand still
  between calls, so several tasks may carry one timestamp.
- A task's history and artifacts are abstracted to `rev`, the number of updates.
  An event is named by the revision it announces.  This is all that order, loss
  and duplication need.
- A subscription carries its queue (`Capacity` is `maxsize`), the `closed` flag,
  the revision its consumer saw last, whether that item makes the generator
  return, and whether the store logged that an event was dropped for it.
- `StoreOperation` is one call of any caller, or a tick of the clock: the
  environment in which the dispatcher and the list are proved about.
- An evicted record leaves `dict`, while its subscribers keep their queues.

### TaskBridge

`drive[t]` is the asyncio task of A2A task `t`.  `_drive` suspends before its
first step and inside `run_one_shot`, nowhere else, so `DriveStart`,
`DriveRejects`, `RunnerReturns`, `RunnerRaises` and `DriveUnwinds` are single
steps.  `Cancel` is `TaskRunnerBridge.cancel`: a task cancelled before its first
step is `doomed` (its body never runs), one inside the runner is `cancelling`.
`MaySwallow` says whether a runner may catch the `CancelledError` and return as
if nothing had happened.  Blocking sends are consumers of their own: `last` is
the snapshot the wait began with, `reply` what the call answers.

Routes that only read one task are left out.

### TaskLifecycle

One variable, the phase of each task, and its legal moves, with eviction as the
move to `GONE`.  `TaskBridge` implements it under `PhaseOf`: the state in the
table, or `GONE` once a task has left it.

### TaskHandlers

The same store under the other bindings.  Here a runner holds the store and
writes to it as it goes (`RunnerReports`, `RunnerAppends`), so a queue can
overflow; `tasks/cancel` tells the store only.  `RunnerConcludes` is the runner's
last call or the `FAILED` the handler records for it.  `StreamMessage` creates the
task and then raises at `await self.store.subscribe(...)`, which is an async
generator and cannot be awaited.

### AcpClient

`proc` is the subprocess as asyncio sees it: after its death it is `dying` until
the child watcher sets `returncode`, then `exited`.  `peer` is the JSON-RPC peer,
whose reader may end before or after that moment.  `at[c]` is the suspension
point of run `c`: waiting for the lock (`entering`), inside
`create_subprocess_exec` (`spawning`), inside the handshake (`initializing`),
waiting for a reply (`calling`), sending `session/cancel` after a prompt that timed
out (`cancelling`), waiting for the lock in the retry's `aclose` (`closing`), waiting
there for the reader (`draining`) or for the process (`reaping`).  `selfwait` is the
failure handler of `ensure_initialized`: it calls `aclose()`, which waits for the lock
its caller holds.  There is no step out of it.

A call is written first and waited for afterwards: `writing` holds the runs inside
`_send_obj`, which may wait for another writer or for room in the pipe as long as
opencode does not read, outside of any time limit (`Written`, `PipeBreaks`).  `late`
holds the runs whose call was registered after the reader loop had failed the pending
ones: nobody but the time limit ends it.  `greeted` is observed: a handshake has
succeeded on this peer.  It tells `_initialized` apart from what it stands for, since
it may be set just after the reader has ended.

`HalfDead` lets the reader end before the exit status is known, or because of a
line over the `StreamReader`'s limit while opencode lives on.  `InitMayFail` lets
spawn and handshake fail.  Both are true in every passing run, and the theorems hold
whatever they are; the two findings narrow them down so that nothing else goes wrong
in their counterexamples.

What happens on a connection that stands is in `OpencodeTurns`.  Left out: the
cancellation of a run at an `await` and the sessions of chats.

### InTaskAuth

A call of `request_auth` makes one challenge and bears its name, so `fut[a]` is the
future of call `a`'s challenge and `pending[t]` the one registered for task `t`.
Futures are shared: `await_auth` waits on whatever is registered, and cancelling
either call cancels the future under the other.  `RequestAuth` is everything up to
`await fut`, `Unwind` the `except CancelledError` clause, which takes back whatever
is registered *by then*.  `Provide` is the route: it answers and then writes
`WORKING`, whatever state the task is in.  `AuthSpec` leaves the rest of the store
free to change in any way between these steps; in `AskingSpec` it may not put a task
into `AUTH_REQUIRED`, which in the code `request_auth` alone does when it is used.
A second challenge for a task replaces the first, whose future nobody can answer any
more; the properties are about the newest one.

### PushDispatcher

A key is a (task, configuration) pair and names its subscription, its worker and
its webhook.  A worker suspends in its POST (`Post`), where the answer may be lost
after the receiver has had the event, and in `subscribe()` (`Read`).  `Stop` only
begins `stop()`: the workers run on until the poller is gone (`StopWorkers`).
`FirstPages` is what a sweep sees: the oldest `PageSize` tasks, in every way equal
time stamps can be broken by random ids.  A configuration is one url: that another is
put under an id in use, which a worker of the first does not notice, is left out.
`PushSpec`, for the proofs, is the
dispatcher beside a store that changes one operation at a time.

### TaskListing

`PageTasks` and `NextToken` are `list_tasks`; `walk` is a client that turns pages
while tasks come, change and go.  A page is a set: the code sorts the matching tasks
and takes the first, which are those with fewer than a page of others before them,
and `LastOf` is the one whose key becomes the token.  `ListingSpec` is the client
beside a store that changes one operation at a time.

### TaskRpc

Requests of a body are handled in one step up to the next `message/send` that waits
for its runner; `HandleSingle` maps a *world* (store, runners, replies so far) to
the worlds one request may leave and `Handled` goes through the body.  `RpcSpec` puts
runners, cancellations of other bindings, streams and the clock beside the calls.
`HangUp` is grpc.aio's cancellation of a servicer
whose client is gone.

### TaskServices

The task store with its services around it.  `use` picks the services a behaviour
exercises; `Tasking` is the rest of the agent (tasks that are sent, reported on and
cancelled).

### OpencodeTurns

opencode's messages come through one pipe and one reader handles each to its end
(`ReadNext`).  `reader` is the request it is held up by: `terminal/wait_for_exit`
until the command has ended, `terminal/kill` for five seconds at most.  `stream` is
`_update_streams`; `turn[t].got[u]` counts the updates of turn `u` that turn `t`
collected.

### SkillsCatalogue and AgentRegistry

A manifest is its `agents` list and whether its front matter parses; its revision
is the number of changes of the tree so far.  `bundle[a]` is what adapter `a` has
loaded and when.  A request of the manager writes in one step and then waits for
every adapter, whose reload is a step of its own and may be missed, or be done and
not heard of.  The registry stamps a card with the time *before* it asks: a stamp
is the revision the adapter had then, so "older than its stamp" can be said without
a clock.  `Rebuild` starts an adapter in a build with or without a card of its own.  An answer
with status 200 may be unreadable and carry an ETag all the same (`garbled`): the
registry then makes a card up and keeps it under that ETag, so that a 304 confirms it
until the adapter's own card changes.
The TTL is a choice of the environment: `_fetch_card` either returns at once, which
changes nothing, or asks.

### AdapterRuns

`call[c].phase` is the suspension point of a call: `_check_container`, the session's
lock, the semaphore, `docker ps`, the agent's process, and the two of the cleanup.
`child` and `box` are the process and the sandbox, which may outlive the call.  An
agent whose process is alive may call any adapter, over HTTP with the depth header
or through the MCP tool, which counts anew; a call whose header is missing or cannot
be parsed counts as one from outside.  The abstraction keeps one session for each
adapter.

### MultiSearch, CardSigning

`Take` is one `next()` of the round-robin; `Firsts` and `Before` are the reference:
results that are first with their key, by rank and then by engine.  `CardSigning`
numbers the builds of a card; `floor` is what a caller knows to have been reloaded
before it called, `promise.keys` what verifiers were given.  `GenerateKey` is every
start that does not read its key: the file is missing or torn, or reading an intact
one raises, and then the key in it is in `promise.lost` until a later start reads it
(`LoadKey`).  `SearchSpec` and
`SigningSpec` are the two on their own.

### AgentMesh

`part` picks which service a behaviour follows.  Only the registry's cards read what
another part writes; they are followed together with the catalogue.

## 3. What the runs show

Deadlock checking is off in every run: each of these systems stops when all its
tasks, streams and runs have come to an end.

| Run | Question | Instance |
|---|---|---|
| `bridge_streams` | do readers of the REST bridge always get an end, the final status, a finished answer? | two tasks, a stream, a blocking send, `MaxTasks` 1, runners may swallow cancellation |
| `bridge_life` | do record and asyncio task agree, are terminal states final, does the table implement `TaskLifecycle`, does everything end? | two tasks, a stream, `MaxTasks` 1, clock 0..1, fairness |
| `handlers` | what do streams promise when runners write at will and queues overflow? | two tasks, a stream, `Capacity` 3, four updates per runner before its last |
| `acp_connection` | with every failure: are readiness and pending calls sound, do start and stop exclude each other, where can a run stay for ever? | two runs, two deaths or early ends of the reader, failing spawns and handshakes, writes that wait; fairness that asks nothing of opencode |
| `services` | do the services around the tasks keep their promises to runners, webhooks and clients? | three tasks, two places in the table, one webhook, two callers of `request_auth`, two RPC clients; fairness for webhooks |
| `mesh` | do catalogue, cards, runs, turns, search and signed card keep theirs? | see Bounds; fairness for runs |
| `late_reply`, `cancel_overwritten`, `stillborn_stream`, `respawn`, `retry_kills`, `key_replaced` | does the code do what its words say? (section 4) | the smallest instance that shows it |

Properties, in words:

- `TerminalStreamsEnd`: a subscriber of a terminal task has its end in its queue,
  or has shown it.  `EndedStreamSawFinal`: a stream that ends by itself has shown
  the final status.  `BlockingReplyIsFinal`: a blocking send within its budget
  answers with a terminal task, or not found.
- `DriveMatchesTask`: a task in the table that is not terminal has a live asyncio
  task that `cancel` still reaches.  `TerminalIsFinal`, `FollowsLifecycle`,
  `SubmittedTasksFinish`, `StreamsReturn`: its life, and its end.
- `StreamsGapFree`: snapshot and every later update, in order, exactly once,
  unless the warning was logged.  `NewestIsKept`, `ClosedStreamsEnd`,
  `StreamsAdvance`: what overflow may not do.  `ReturnedTaskIsSettled`: no task
  that nobody works on.
- `CallsHaveReader`: a pending call has a peer that reads, or was registered too late
  and has a time limit.  `ReadyIsGreeted`: what a run finds ready was greeted.
  `OneAtATime`, `ReadyHasProcess`: starting and stopping opencode.
  `RunsFinishOrHang`: every run ends, unless it stands for ever at one of the three
  awaits without a time limit (`Stuck`) or waits for the lock behind one that does.
  None of the three can be left out: without any of them TLC finds a counterexample.
- `ChallengeIsReachable`: credentials reach the newest challenge of a task while its
  runner waits.  `AuthRequiredIsAnswerable`: a task in `AUTH_REQUIRED` has somebody
  registered to take them, unless a wait was cancelled.
- `HookMissesNothing`, `HookNeverGoesBack`, `EndedWorkerToldTheEnd`: what a webhook
  has been told, across lost answers, retries, deleted configurations and restarts
  of the dispatcher.  `WebhookCatchesUp`: it is told in the end.
- `WalkIsExact`: a walk through the pages shows each matching task that did not
  change exactly once.
- `RequestsAreAnswered`: a reply for each request with an id, in order, and a settled
  task for a `message/send` that waited.  `UnattendedTaskWasDropped`: a task nobody
  works on was dropped by a call its client knows to have failed.
- `StaleBundleIsReported`: an adapter with an old catalogue has a reload on its way
  or a request that reported a failure.  `DetachmentsHold`: other attachments and
  detachments do not bring a detached skill back.
- `EtagNamesCard`, `CardIsAsFreshAsItsStamp`: card, ETag and time stamp belong
  together although fetches overtake each other.
- `NestingIsBounded`: chains over HTTP.  `SandboxIsKept`: a cleanup never takes the
  sandbox of a run that is awaited.  `AnswerFollowsQuestion`: histories.
  `EveryCallEnds`: also when agents call the adapter their caller occupies.
- `TurnCollectsItsUpdates`: an answered turn has all its updates, and none of
  others but those of a message of the same chat that was given up.
  `PendingWaitEnds`: a `wait_for_exit` under way has somebody to end it.
- `MergeIsFair`: the merge equals its reference.  `CardsAreCurrent`: what a verifier
  gets is no older than the last reload.  `CardsAreTrusted`: it is signed with the key
  the verifier knows, but for a key that a start could not read.

### Bounds, and why they are enough

- `MaxTasks` 1 with two tasks evicts a task at every stage of its life; which
  of several tasks goes is `Oldest`, the earliest timestamp and then the first
  inserted.  That it finds one in every table is proved (`OldestInTable`); the
  properties do not depend on which one it is.
- `Capacity` is 512 in the code.  In `handlers` it is 3, so a task's updates
  overflow it in every way: an event lost, an end marker that does not fit, a marker lost
  to a later event.  In `bridge_streams` it is 6 and in `bridge_life` 4, which the
  bridge's few writes per task cannot overflow, as they cannot overflow 512.
- `MaxClock` 0 or 1 covers equal and different timestamps.  `MaxRev` 4 lets a
  runner report four times before its last call, enough to push the final event and
  the end marker of a cancellation out of a queue of 3.
- `MaxDeaths` 2: one death to reach the recovery, one during it.  Two runs on two
  slots are one in flight and one that recovers.  A third would wait at the semaphore;
  that no number of runs breaks an invariant is proved.
- `services`: three tasks for two places, so one is evicted; the services deal with
  one of them and the others fill the table and the pages.  `PageSize` 1 leaves a
  task off the sweep's page (500 in the code).  `MaxRetries` 1: one retry and one
  give-up.  `MaxStops` 1: one restart of the dispatcher.  Two callers of
  `request_auth` or `await_auth` are one who replaces or shares the other's
  challenge.  Page sizes 1 and 2 with filters by state and time cut the list at
  every place.  The bodies include a batch with two sends that wait and a
  notification between them, and one that streams.
- `mesh`: two adapters and two requests of the manager, so one broadcast overtakes
  another's write; two overlapping fetches of one card; three calls with
  `MaxNested` 2 and one slot, enough for a chain that returns to its first adapter;
  two turns, one of them with a terminal, and two messages in the pipe; three
  engines with two results over three keys, limits 0 to 3 and the default, which is
  every pattern of duplicates a round can meet; two threads, two keys, three builds.
  `Slots` is 1 for both runners; the code gives claw 2, whose second slot only lets
  more calls through.
- Symmetry over tasks and streams is used in runs without liveness
  properties only.

### Fairness, and why the code justifies it

- The event loop runs every queued step: weak fairness of `_drive`'s steps, of the
  done callback, of the child watcher and of the reader at the end of stdout.
- `run_one_shot` bounds itself by `timeout_s`, so a runner comes back; `wait_for`
  bounds every ACP call once it is written.  For opencode this holds but for the three
  awaits of `RunsFinishOrHang`: what `bridge_life` says about the end of tasks is
  conditional on its runner not standing at one of them.
- Consumers keep reading.  Clients need not cancel or disconnect, the clock need
  not advance, opencode need not answer.
- Runs have strong fairness because `asyncio.Lock` serves its waiters in FIFO
  order: a run that finds the lock free again and again gets it.  This includes
  the run's progress inside the lock, which weak fairness would give too.
- `PushFairness`: the poller sweeps every `poll_interval_s`; a worker's POST ends by
  its `httpx` timeout, and a worker reads on.  No POST need succeed.
- `RunsFairness` is strong for the same reason as above: locks and semaphores are
  FIFO, and every subprocess is awaited with a timeout.  Agents need never exit.
- opencode owes nothing: it need not read its stdin, answer, or exit when its stdin
  is closed, and the reader need not end.  Only `respawn` lets it read what it is sent
  (`ReadingSpec`), so that its counterexample has no other cause than the one it is
  about.

## 4. Disagreements between code and words

Each has a run that ends in a counterexample.

1. **`late_reply`**.  `rest.py:464` promises clients that exceed the blocking budget
   "the current Task snapshot in whatever state it is in".  `_wait_terminal`
   returns `last or ...` (707), and `last` is the snapshot from the start of the
   wait.
2. **`cancel_overwritten`**.  The shared handlers' cancel writes `CANCELED` and
   leaves the runner going, whose next `record_status` overwrites it.
3. **`stillborn_stream`**.  `stream_message` (`handlers.py:116`) raises `TypeError`
   after it has created the task; the task stays `SUBMITTED`.
4. **`respawn`**.  `acp_client.py:398` promises that after the death of opencode
   "the next call transparently respawns".  If stdout ends before the exit status
   is known when a run sends its prompt, `_spawn` keeps the dead process, the
   handshake fails, and the failure handler waits for the lock its own caller holds.
5. **`retry_kills`**.  The retry of `session/new` (`server.py:264`) is meant for a
   dead process; it also closes a connection on which other runs wait.
6. **`key_replaced`**.  `load_or_generate_keypair` is to "generate + persist if missing",
   so that verifiers have a stable `kid` (`jws.py:177`).  An exception on reading an
   intact file is followed by a new key, written over the old one (204).

More were met while modelling and have no run of their own.

*Tasks.*  A second cancel writes `CANCELED` once more over a terminal task (`rest.py:259`, "ignore if
already terminal").  An evicted task is not driven to a terminal state
(`rest.py:16`).  Under the shared handlers, a runner that writes on after
`tasks/cancel` can overflow a queue so that both the final event and the end
marker are dropped, and the consumer then waits although it was to stop at the
terminal status (`task_store.py:195`).  A gRPC client that hangs up leaves its task
unrecorded and without a runner.

*Pages.*  "The caller never sees a duplicated row" (`task_store.py:16`), but a status
update gives a task a new time stamp, which puts it behind the cursor again.

*In-task authentication.*  `request_auth` says it raises if the task is cancelled
(`auth.py:199`), but through JSON-RPC and gRPC `tasks/cancel` reaches the store only
and not its future.  A runner whose challenge was replaced by a second one waits for
an answer nobody can give.

*Push.*  `rest.py` does not call the dispatcher's `register`, although
`push.py:222` describes it so, and a dispatcher's first page is the oldest tasks:
with more than 500 of them newer ones get no webhook.  `stop()` cancels and clears
its workers; an end already posted is posted again after a restart.

*Skills.*  `attach` is to "turn skill on/off per agent" (`skills-manager/server.py:26`),
but detaching the last agent writes `agents: []`, which the loader reads as everybody.
`_emit_yaml_scalar` does not quote a string that begins with a quote: the
manifest it saves does not parse, and from then on no adapter can load any skill.
Changes of `AGENTS.md` do not change `skills_version`.

*Registry.*  A 404 and then a failing `/v1/skills` replace a good card by a bare one.
The proxies lead to `/a2a/v1` routes that `build_app` does not mount, and the one of
`tasks:subscribe` sends GET to a POST route.

*Runs.*  "Every adapter call carries" the depth header, "so an LLM cannot recursively
spawn agents that spawn agents" (`agent_mesh_adapter.py:27`), but the MCP tool (368)
and gRPC start again from depth 1, and MCP is how agents see each other.
`ClawcodeRunner.post_message` runs without a slot of the semaphore.
`OpenHandsRunner.post_message` leaves a turn unanswered and the session `running` when
its run raises.  A killed `docker exec` leaves the `claw` inside the container
running.  A second slot of the openhands runner, or a second adapter on the same
docker daemon, would let the cleanup of one run remove the sandbox of another.

*opencode.*  A message that times out is not cancelled, and its late updates are
collected by the next message of the chat.  While the reader waits for a command,
neither `terminal/kill` nor any reply is read.

*Card.*  `AgentCardManager.reload` rebuilds from what it was wired with, although the
skills it is called for have changed; `extended_cache` may return `None` when a reload
comes in between.

## 5. What is proved

| Theorem | Statement | Assumptions |
|---|---|---|
| `TaskBridge_proofs!TypeCorrect` | `Spec => []TypeOK` | those on constants |
| `TaskBridge_proofs!NothingIsMissed` | `Spec => []StreamsGapFree` | same |
| `TaskBridge_proofs!MarkedStreamsEnd` | `Spec => []ClosedStreamsEnd` | same |
| `TaskBridge_proofs!FinishedStreamsEnd` | `Spec => []TerminalStreamsEnd` | same |
| `TaskBridge_proofs!EndedStreamsSawFinal` | `Spec => []EndedStreamSawFinal` | `Capacity >= 5` |
| `TaskBridge_proofs!DriveAgrees` | `Spec => []DriveMatchesTask` | those on constants |
| `TaskBridge_proofs!TerminalIsForever` | `Spec => TerminalIsFinal` | `~MaySwallow` |
| `TaskBridge_proofs!ImplementsLifecycle` | `Spec => FollowsLifecycle` (the refinement of `TaskLifecycle`) | `~MaySwallow` |
| `TaskBridge_proofs!BlockingRepliesAreFinal` | `Spec => []BlockingReplyIsFinal` | those on constants |
| `TaskHandlers_proofs!HandlersTypeCorrect` | `Spec => []TypeOK` | those on constants |
| `TaskHandlers_proofs!HandlersMissNothing` | `Spec => []StreamsGapFree` | same |
| `TaskHandlers_proofs!HandlersMarkedStreamsEnd` | `Spec => []ClosedStreamsEnd` | same |
| `TaskHandlers_proofs!NobodyIsLeftWorking` | `Spec => []ReturnedTaskIsSettled` | same |
| `TaskHandlers_proofs!NewestEventStays` | `Spec => []NewestIsKept` | same |
| `TaskHandlers_proofs!ConsumersGoForward` | `Spec => StreamsAdvance` | same |
| `TaskHandlers_proofs!UnattendedTasksWereDropped` | `RpcSpec => []UnattendedTaskWasDropped` | same |
| `TaskHandlers_proofs!RequestsGetAnswers` | `RpcSpec => []RequestsAreAnswered` | same |
| `AcpClient_proofs!TypeCorrect` | `Spec => []TypeOK` | same |
| `AcpClient_proofs!MutualExclusion` | `Spec => []OneAtATime` | same |
| `AcpClient_proofs!ReadyIsAlive` | `Spec => []ReadyHasProcess` | same |
| `AcpClient_proofs!ReliableConnection` | `Spec => []ReadyIsGreeted` | same |
| `AcpClient_proofs!PendingCallsHaveReader` | `Spec => []CallsHaveReader` | same |
| `TaskServices_proofs!AuthTypeCorrect` | `AuthSpec => []AuthOK` | same |
| `TaskServices_proofs!NewestChallengeIsReachable` | `AuthSpec => []ChallengeIsReachable` | same |
| `TaskServices_proofs!RequiredCanBeProvided` | `AskingSpec => []AuthRequiredIsAnswerable` | same |
| `TaskServices_proofs!WebhooksMissNothing` | `PushSpec => []HookMissesNothing` | same |
| `TaskServices_proofs!WebhooksNeverGoBack` | `PushSpec => HookNeverGoesBack` | same |
| `TaskServices_proofs!EndedWorkersToldTheEnd` | `PushSpec => []EndedWorkerToldTheEnd` | same |
| `TaskServices_proofs!WalksAreExact` | `ListingSpec => []WalkIsExact` | same |
| `AgentMesh_proofs!WaitsForExitEnd` | `TurnsSpec => []PendingWaitEnds` | same |
| `AgentMesh_proofs!TurnsCollectTheirUpdates` | `TurnsSpec => []TurnCollectsItsUpdates` | same |
| `AgentMesh_proofs!SearchMergesFairly` | `SearchSpec => []MergeIsFair` | same |
| `AgentMesh_proofs!CardsStayCurrent` | `SigningSpec => []CardsAreCurrent` | same |
| `AgentMesh_proofs!CardsStayTrusted` | `SigningSpec => []CardsAreTrusted` | same |
| `AdapterRuns_proofs!RunsTypeCorrect` | `RunsSpec => []RunsOK` | same |
| `AdapterRuns_proofs!NestingStaysBounded` | `RunsSpec => []NestingIsBounded` | same |
| `AdapterRuns_proofs!AnswersFollowQuestions` | `RunsSpec => []AnswerFollowsQuestion` | same |
| `AdapterRuns_proofs!SandboxesAreKept` | `RunsSpec => []SandboxIsKept` | same |
| `AgentRegistry_proofs!SkillsTypeCorrect` | `SkillsSpec => []SkillsOK` | same |
| `AgentRegistry_proofs!StalenessIsReported` | `SkillsSpec => []StaleBundleIsReported` | same |
| `AgentRegistry_proofs!DetachmentsStay` | `SkillsSpec => []DetachmentsHold` | same |
| `AgentRegistry_proofs!CardsTypeCorrect` | `CardsSpec => []CardsOK` | same |
| `AgentRegistry_proofs!EtagsNameCards` | `CardsSpec => []EtagNamesCard` | same |
| `AgentRegistry_proofs!CardsAreAsFreshAsStamped` | `CardsSpec => []CardIsAsFreshAsItsStamp` | same |

With these every invariant and every safety action property of the passing runs is
a theorem.  The services are proved about on their own.  `SkillsSpec`, `CardsSpec`,
`RunsSpec`, `TurnsSpec`, `SearchSpec` and `SigningSpec` are what `AgentMesh` follows,
without its bounds on what a request may be.  `AuthSpec` lets the store change freely
and `AskingSpec` does so but for `AUTH_REQUIRED`; `PushSpec` and `ListingSpec` put the
dispatcher and the paging client beside a store on which runners, requests and the
clock work, one operation at a time (`StoreOperation`), as they do in `TaskServices`.

The assumptions on constants are the `ASSUME`s of the modules (`StoreAssumption`,
`BridgeAssumption`, `HandlersAssumption`, `AcpAssumption`, `AuthAssumption`,
`PushAssumption`, `ListingAssumption`, `RpcAssumption`,
`TurnsAssumption`, `SearchAssumption`, `SigningAssumption`, `RunsAssumption`,
`SkillsAssumption`, `RegistryAssumption`).  They fix types, `MaxTasks >= 1` and
`Capacity >= 3`; the code has 10 000 and 512.

**The argument for the store** (`TaskStore_proofs`).  The lemmas say what each
operator of the store preserves, once, for both clients.  `PutInv`, `MarkInv` and
`ShownInv` treat one subscription: what an event, the end marker or a consumer
does to its queue.  `BroadcastInv` lifts them to all subscribers,
`RecordStatusInv`, `AppendDataInv`, `CancelTaskInv` and `CreateTaskInv` to the
operations.  Alone, "no gap" is not inductive: one also needs that the queue
runs up to the task's present revision (`CaughtUp`), so that the next event
continues it.  `ClosedEnds` rests on the order inside `RecordStatus`: a queue that
is full when the marker comes has just received the final event.  `StoreOrdered` is
weaker than "no gap" and holds through every overflow: a queue is sorted by
revision, lies ahead of what its consumer saw, and reaches the present revision.
`EndsHonestly` is the converse of `TerminalEnds`: only a stream of a terminal task
is told that it ends.

**The bridge** adds, in `Inv`, that streams follow tasks that were created
(`Followed`) and that every stream of a terminal task ends.  Between two writes of
one step the latter may be broken for the task being written, and only for it
(`EndsBut`).  For `DriveAgrees`, `Match` adds to the property itself that a task
whose `CancelledError` is under way is already recorded as `CANCELED`.  What is
written after that is `CANCELED` again or, if the runner swallows the error, its
verdict: terminal either way, so no assumption about runners is needed.  Only for
`TerminalIsForever` they must not swallow it.

**Final events of the bridge.**  `AllRoomy` counts how many items a reader that never
reads can find in its queue (`Unread`): `WORKING`; `CANCELED` and the end marker; the
artifact and the verdict of a runner that swallowed its cancellation, and a second
marker, which may be the one that finds the queue full.  So five places are enough
for no event to be dropped, and `StoreAnnounced` says that a queue with an end marker
has the final event before it, or its consumer saw it.

**The refinement** (`ImplementsLifecycle`) maps a task to the phase its record shows,
and an evicted one to `gone` (`PhaseNow`).  `Progress` ties a drive that has not
begun to `SUBMITTED` and a drive at work to `WORKING`, so a write of `WORKING` starts
a submitted task and a final write ends one that has not ended.  That `max_tasks`
bounds the tasks present uses `TableCounts`, which equates the number of live tasks
with the length of the table, and `CreateTaskEvicts`.

**Blocking replies** need no assumption about runners.  `Fresh` says that a task
just scheduled is in `running`, and that the stream of the waiter's task ends only
once the task is terminal (`EndsHonestly`), so the last status a waiter saw before
the end is the final one.

**The handlers** reuse the store's lemmas and add that a task whose runner is done
was settled by its last write, and that a settled task is not disturbed: only its
own runner writes, and a cancellation leaves it terminal.

**Requests.**  `RpcInv` says of each task that it is settled, worked on or dropped by a
failed call (`WorkOK`), and of each call how far it is: what is left is the end of
its body (`LeftOK`), and the requests before have their replies at their places
(`Answered`).  `RequestHandled` shows that one request keeps this for every world it
may leave, and `BatchHandled` carries it through a body of any length.

**The connection**.  `IInv` adds to the types and to mutual exclusion that a peer
that reads has a subprocess (`PeerHasProcess`) and that `aclose` only terminates a
subprocess whose peer no longer reads (`ReapsAlone`).  For `ReliableConnection`,
`OpenIsGreeted` says that a peer that reads was greeted, or the run inside `_spawn` or
the handshake still holds the lock (`Greeting`): that run is the only one that can make
a peer, and it lets go of the lock after the reply or never.
`CallsHaveReader` is inductive with the types: only `ReaderEnds` takes a reader away,
and it answers every call that was registered before.

**Challenges.**  `ChallengeIsReachable` becomes inductive with `LatestIsBegun`: the
newest challenge of a task belongs to a call that has begun on that task, so a
step on another task never removes it.  For `RequiredCanBeProvided` one adds
what a write of a status needs of the store (`HasTasks`): every step that takes a
registration away also writes another status, but for the call that unwinds.

**Webhooks.**  `Told` puts four revisions in order: the one the webhook was told of,
the one its worker is about to post, the one the worker's stream has reached and
the task's own; while the worker waits for the next event and dropped none, the
first equals the third.  A new worker begins with a snapshot of the task, so it
cannot fall behind what the webhook already has.  That the stream itself goes
forward is `StoreOrdered`, and that a webhook's task exists (`IsOfATask`) excludes
that its revisions begin again.  `EndInv` adds for `EndedWorkersToldTheEnd` what a
worker holds at each of its suspension points (`Ending`): one that is about to end has
been given the final event, and `StoreAnnounced` excludes an end marker that comes
without one.

**Pages.**  `WalkInv` says how often a task that did not change was shown: once if the
cursor is at it or behind it, and not at all otherwise.  `OnlyForward` makes "did not
change" hold back to the start: whatever was changed has a later revision for ever.
A page that is not the last is full, and a task outside of it comes after its last
task (`PageIsFirst`, `PageHasLast`), so moving the cursor there skips nobody.

**Waits.**  `ListedIsWatched` says that a terminal on the manager's list is watched or
has exited.  Only the reader takes a terminal off the list, and while it waits it
cannot: the wait that holds the reader up is what keeps `release` away from it.

**Turns.**  `CollectInv` counts: the updates opencode sent for an open turn are those
the turn has collected and those still in the pipe (`CollectOK`), and none is behind
the reply (`ReplyIsLast`).  `StreamsOK` says that the queue of a session belongs to the
turn under way in it, `TurnsInOrder` that messages of the chat do not overlap, and
`StraysOK` is the property for turns at every stage.

**Search.**  `RoundOK` says where each engine's iterator is within a round.  `OutOK`
says that what was consumed is closed downwards under `Before`, and that the results
collected list, in order, those of the reference that were consumed.  When the merge
ends, either everything was consumed or the limit is reached.

**Card.**  `HolderOK` describes the manager and its key file, `PublishedKeyStays` that a
key that verifiers were given is the one in the file and the one of the process, or was
lost by a start that could not read it; `BuilderOK`, `ReturnerOK` and
`UserOK` say what each thread holds between two steps: a build that is at least as
new as the reload it is to serve, and the key of the process.

**Runs.**  For nesting, `DepthCountsTheLine` ties the header to the chain a call
stems from, and `CallersAreCounted` and `LineHasBegun` say that only an accepted call
has a process that can call on, and that a chain never contains a call that is still
to come; so each hop adds exactly one to the cardinality.  For histories,
`OneHoldsTheLock` and `HolderWroteLast`: the last turn of a session whose lock is
held is the holder's question.  For sandboxes, `OneHoldsTheSlot`: a cleanup runs in
the only slot, so every run it could have listed has given its slot back.
`NothingBeforeTheStart` says that a run which has no slot yet has no sandbox either,
`MarksAreOfStarted` that a list names sandboxes only, and `SweepersHaveBoxes` that
who lists them is the adapter that starts them.

**Catalogue.**  `ViewIsOfItsRevision`: an adapter that has read the newest revision
shows it.  `RequestsReachOrReport`: a request has reached each adapter or is overdue
there.  `LastWriterAsked`: the newest revision was written by a request.  A stale
adapter has read an older revision, so the writer of the newest one is overdue.
`DetachmentsHold` is inductive with the types: a list that names no `*` and is not
empty grows by the attached adapter only, and the wildcard is spelled out before
anybody is taken off it.

**Cards.**  `FetchesAreHonest`: an answer under way is at least as new as the moment
it was asked for, and its ETag is its own.  `CardIsAsFreshAsItsStamp` excludes
cards a 304 has stamped: a slower fetch may have replaced the card that the ETag
was sent for.

**Induction over data.**  The library's induction theorems take an operator as a
parameter and cannot be used.  Where a proof needs induction it argues with a least
counterexample: `LeastNatural` follows from the well-foundedness of inclusion on
finite sets, `FirstMember` from counting predecessors.  `HandledUnfolds` shows in this
way that the recursive function behind `Handled` exists and what it is.

### Model-checked, not proved

Out of the prover's reach: liveness (`SubmittedTasksFinish`, `StreamsReturn`,
`RunsFinishOrHang`, `WebhookCatchesUp`, `EveryCallEnds`) and everything about
`ENABLED`.

Not proved: that the compositions `TaskServices` and `AgentMesh` with the bounds of
their runs implement the specifications the theorems are about.  Their steps are
those steps, with guards that only bound a run.

`EndedStreamSawFinal` is about the bridge, which writes to a task a handful of times.
Under the shared handlers, whose runners write as often as they like, it would not
hold for any length of queue.

## 6. Plan

What is left, in this order:

1. An abstract delivery promise (at least once, in order, up to a give-up) that
   `PushDispatcher` implements, and the proof of it.
2. In `AcpClient`: cancellation of a run at each `await`, chats whose opencode session
   belongs to a replaced process; permission requests.
3. The registry's streaming proxy; the push-configuration methods of JSON-RPC and
   gRPC.

### Not modelled

`PostgresTaskStore` (a stub), the fields and the cryptography of a card, the YAML
dialect (only whether a manifest parses), bearer checks, the search engines
(scrapers behind HTTP), the relay (a stateless proxy), launchers and compose files,
vendored Dify, generated protobuf.

## 7. How to run everything

    tlc -workers 2 -config MCTaskBridge_life.cfg MCTaskBridge.tla
    tlapm TaskBridge_proofs.tla

`PROJECT.json` maps every definition to the source lines it models and lists runs,
mutants, hazards, findings and theorems.
