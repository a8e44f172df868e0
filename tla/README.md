# Verification of llm-supervisor-proxy

TLA+ models of what the proxy does between a client's request and its answer,
and of what it stores, caches and balances on the way. TLC checks them on small
instances; TLAPS proves the safety properties of every component except the
live stream and the request list for all instances (section 4). Line numbers of every definition are in `PROJECT.json` ("map").

## 1. The system

A chat request enters `Handler.HandleChatCompletions`, an Anthropic one
`HandleAnthropicMessages`. The handler authenticates the token, resolves the
model and its fallback chain (perhaps through a *group* whose member is picked by
the group engine) and either starts a *race* of attempts (chat) or walks the
chain (Anthropic). An attempt resolves a credential through the credential
engine, reads the provider's event stream and stores its lines in a
`streamBuffer`, which the handler relays; the Anthropic path translates the
stream as it comes. A conversation that keeps coming back is answered by the
*ultimate model*. Decisions, images and MCP traffic have endpoints of their own.

| Component | State | Operations | Interacts with |
|---|---|---|---|
| Stream buffer (`stream_buffer.go`) | chunk list, reserved bytes, done and notify channels | Add, Close, GetChunksFrom, Prune | written by the attempt, read by the relay, released by Cancel |
| Attempt (`race_request.go`, `race_executor.go`) | status, error, cancel flag, context, credential | MarkStarted/Streaming/Completed/Failed, Cancel, receive loop | buffer, engine, coordinator |
| Client relay (`handler.go`, `heartbeat.go`) | read index, result, captured answer | fetch and write, prune, idle check, finish | buffer, client connection, attempt |
| Race coordinator (`race_coordinator.go`) | attempts, winner, tried credentials, rotation counters | tick, spawn, credential failover, fallback advance, two deadlines, WaitForWinner | attempts, engine, handler |
| Credential engine (`pkg/credentiallb`) | per model: credential list, bindings with idle time, cooldowns, counters | GetOrSelect, ExcludeAndReselectForClass, OnModelChanged, OnCredentialDeleted, janitor, Stop | resolver, coordinator, configuration store |
| Group engine and routing (`pkg/grouplb`, `store_group_rewrite.go`, `handler_groups.go`) | per group: two pools of members, bindings per pool, shared cooldowns | GetOrSelect and its backup twin, Exclude, reconfigure, remove, janitor; rewrite, re-entry | both endpoints, configuration store |
| Chat and Anthropic endpoints (`handler.go`, `handler_functions.go`, `handler_anthropic.go`) | request context, log entry, headers-sent flag, model list and index | admission, ultimate trigger, race, re-entry, reply, usage rows | all of the above |
| Streams (`internal_handler.go`, `providers/openai.go`, `toolcall`, `translator`) | event channel, tool call builders, open content blocks | read a line, hold, emit, flush, close | provider, client |
| Ultimate model (`pkg/ultimatemodel`) | ring of message hashes with attempt counters | trigger, execute with failover, record | handler, usage counter |
| Configuration (`store/database`, `models/config.go`, `config`) | models, credentials, claims of shadowing groups, settings | validated writes, delete, resolve and heal, load and save | engines, caches, UI |
| Caches (`pkg/modelscache`) | last-known-good rows, negative verdicts, claims; token verdicts with their age | fill, write-through, reconcile, serve stale, evict | database, authentication |
| Event bus, request store, buffer store, usage counter | subscribers and history; bounded list; directory; rows | publish, subscribe; add and evict; save; add | handlers, UI |
| MCP gateway (`pkg/mcp`) | server table, registry of connections, headers | edit, connect, relay, close | clients, upstream servers |
| Decision and image endpoints (`pkg/decision`, `pkg/imggen`) | none between requests | check, adapt, call, inspect, meter | usage counter, bus |

What is hard here: goroutines look at each other's state without a common lock;
a value read before a lock is released (a list, a clock, a row, a channel's
room) is used after it; deadlines race with answers; caches answer while the
database is away; a write consists of a table, a file, an index and a notice,
and may fail or be overtaken between two of them; answers are translated while
they arrive and cannot be taken back. `PROJECT.json` lists 40 such hazards with
their lines and the properties that cover them; one, a cooldown that ticks
prolong, needs the race and the engine's clock in one model and has none yet.
Many statements may fail, and not every failure is answered: where the code
swallows one, the model has it as an outcome, a history variable remembers it
where a property needs to, and the property says what is left to promise.

What makes the parts correct:

- relay and race: the client gets a prefix of one attempt's answer, in order,
  and a success is the whole answer; every request and attempt ends; the winner
  is never cancelled; a race stays within its budget, its chain and its models;
- engines: a conversation stays on its credential or member unless that one
  failed, idled or is gone, and an unhealthy one is chosen only when nothing
  else is left; "no member can serve" is said only when it is true;
- endpoints: the log entry and the usage rows say no more than the client got; no
  provider is asked for a name the token does not allow, nor after bytes of an
  answer were sent; what is streamed is well formed also after an error; an
  upstream gets no token but its own;
- stores and caches: no row refers to one that is gone unless a failed scan hid
  it, the balancers follow the rows they can read, what is stored loads again, an
  outage takes no model away, a stale verdict has a bounded age, a crash leaves no
  torn file.

## 2. Modules

| Module | Models |
|---|---|
| `StreamRelay` | one attempt, its buffer and the relay to the client |
| `RaceCoordinator` | one race: coordinator, attempts, handler, and the engine as seen by one request |
| `CredentialLB` | the credential engine of one model, several requests |
| `GroupState` | a group's pools, bindings and cooldowns, and what the engine does to them under its lock |
| `StickyTable` | abstract: what the group engine promises about affinity |
| `GroupEngine` | the group engine at the granularity of its locks; implements `StickyTable` |
| `GroupRouting` | requests for a group: rewrite of the model list, race, one re-entry |
| `ChatEndpoint`, `AnthropicEndpoint` | one request from its first byte to its reply, log entry and usage rows |
| `UltimateModel` | the hash ring and the execution of the ultimate model |
| `LiveStream` | one provider stream: channel, tool call buffer, incremental translator |
| `SideEndpoints` | decision and image requests, and the administrator's test of a model |
| `McpGateway` | MCP servers, their connections and the lines relayed |
| `ModelRows` | rows of the model table and the rules for a write |
| `ConfigStore`, `JsonStore` | the database-backed and the file-backed configuration |
| `Settings` | the proxy's settings, database-backed and file-backed |
| `Resolution` | how a request resolves provider, key and upstream model |
| `ModelsCache`, `TokenCache` | the caches in front of the models and of the tokens |
| `EventBus`, `RequestStore`, `BufferStore` | the bus and its stream, the request list, the directory of raw bodies |
| `Groups` | composition: the group engine and requests routed through it |
| `Stores` | composition: configuration stores, settings, caches, resolution, bus and buffers |
| `Endpoints` | composition: the chat, Anthropic, decision and image handlers |
| `MCStreamRelay`, `MCRaceCoordinator`, `MCCredentialLB`, `MCGroups`, `MCStores`, `MCEndpoints`, `MCLiveStream` | instances for TLC |
| `StreamRelayProofs`, `RaceCoordinatorProofs`, `CredentialLBProofs`, `GroupEngineProofs`, `TokenCacheProofs`, `ConfigStoreProofs`, `StoresProofs`, `EndpointProofs` | theorems and proofs |

Operators next to an operator `X` under the comment "Variant for X" are wrong
versions of `X`, for which a property fails; each property has one. Those are
listed in `PROJECT.json` ("mutants").

`Groups`, `Stores` and `Endpoints` put components side by side and state what they
promise together; `MCGroups`, `MCStores` and `MCEndpoints` extend them, give the
constants their values and add what the proofs leave out or state of one
component at a time: further instances of the group engine, the request list,
the live stream, the MCP gateway, the ultimate model and the routing of an
unseeded group. The variable `part`, chosen at the start, says which component
takes the steps; the others stay in one initial state. A run of such a module
explores the union of the instances, never their product.

### StreamRelay

The attempt (`ppc`) opens its stream (`MarkStreaming`, `OpenFails`), receives
lines, flushes what normalizers hold back and marks itself. `Add` is three steps
(reserve bytes, append, signal) because the relay and the coordinator look at
the buffer in between; `Mark` and `Close` are three (status under the attempt's
mutex, signal, close of `done`). The relay (`rpc`) is `streamResult`: after the
winner is picked it waits in the `select` of the code, one action per arm
(`OnNotify`, `OnTick`, `OnDone`, `OnClientGone`); each fetches and writes what is
there, a write may fail at any chunk; the prune decision, the idle check, the two
steps of `Cancel` and the final capture are steps of their own. A chunk is the
ordinal of the line with a size; the history variables `appended`, `delivered`,
`captured` record what was stored, written and captured. `mode` (live, buffered,
non-stream) and `idleTermination` are fixed when the request arrives.

### RaceCoordinator

`manage` is split where it releases the lock or re-reads the attempts' status:
`TickScan`, `CancelOthers`, `Gate`, `Case1` (credential failover or fallback
advance), `Case2` (idle spawn), `Terminal`, and the arms for the base context and
the two deadlines. An attempt is a row of `reqs` with the steps of
`executeRequest`. The engine appears as the set of cooling credentials and the
bound credential of each model; other requests change them (`OtherCools`,
`CooldownExpires`, `OtherRebinds`, bounded by `maxOthers`). The handler waits,
relays and returns; returning cancels the base context. What the coordinator is
built with (chain, credentials, first-byte gate, limits) is the record `cfg`, one
of the constant `Configs`, so one run covers several kinds of race.

### CredentialLB

A call is split where it takes another lock: it reads the clock (`StartGet`,
`StartExclude`), looks the model up (`Lookup`), counts its credentials
(`CredCount`), and then takes the fast path, or probes under the read lock and
confirms under the write lock, or goes the full path; an exclusion is one
critical section. Configuration changes, deletion of a credential and the
janitor's passes are one critical section each. A model that is removed and
added again gets a new state, numbered by `inc`; calls may still hold the old
one. `calls` keeps what a call has read, so stale values are explicit. The
weighted pick is any healthy credential (weights are positive); the Stats
counters except `bindingsCount` are left out.

### GroupState, StickyTable, GroupEngine

A member belongs to the default or the backup pool. `GroupState` has the
critical sections of `pkg/grouplb` as sets of outcomes, since a weighted pick is
any healthy member. `GroupEngine` splits a call as the code does: clock, outer
lock, count under the read lock, fast path with probe and confirm, or the full
path; exclusion; reconfiguration, removal, janitor and `Stop` come in between.
States are numbered, so that a call may hold the state of a group that was
removed and created again.

`StickyTable` is the promise without locks: per pool, a conversation is bound to
a member that was healthy at a time some call read, and leaves it only when the
member cools, the conversation idled, or the member left the group.
`KeepsAffinity` is that specification under the mapping of `GroupEngine` (the
table is the state the engine holds; an absent group is the empty table), as a
property of the run `groups`.

### GroupRouting

`store_group_rewrite.go` and `tryGroupReentry` with the engine's calls atomic and
everything between them interleaved: the row is read once, the engine is seeded
lazily, a member that cannot serve is excluded and another one asked for, the
backup pool follows, the race fails, the member is excluded and the request
re-enters once. Administrators disable members and edit the group meanwhile.
`good` is history: the members that stayed healthy and servable since the
rewrite began.

### ChatEndpoint, AnthropicEndpoint

The handlers as one request's control flow. What the request and its
configuration are is fixed in `Init`; what the cache, the engine, the ultimate
model, the race and the provider answer is chosen where they are asked.
`ChatEndpoint` keeps the usage rows that goroutines write after the handler has
returned. `called` says who was asked: the row, a member of a group, the other
one after it, a fallback or the ultimate model. A winner may break while it is
relayed (`RelayFails`, `RelayStops`, `ClientGone`), which leaves the log entry as it
was. `AnthropicEndpoint` walks the list of models: passthrough, buffered or
live attempt, one retry with another credential, one re-entry of the group, and
the point of no return (`headers`) from which no further model may be asked. A
buffered answer may turn out to be untranslatable.

### UltimateModel

The ring of hashes with its counters (eviction moves the head and must forget
the counter; `Remove` closes the slots and may leave the head off the oldest one),
the schedule of milestones, and the execution: failover over credentials until
the answer begins, events relayed and captured, heartbeats written by a goroutine
of their own. A fragment of a tool call is captured as it came and goes through a
`ToolCallBuffer` to the wire, where it may be repaired, held, split at the limit, or
not sent at all. `tries` counts, as history, how often a conversation came since it
was last forgotten, and `removed` whether a hash was taken out of a slot.

### LiveStream

The producer goroutine reads upstream lines into the bounded channel, the
consumer holds tool call fragments until the arguments are complete JSON, and
writes chunks or the events of `IncrementalStreamTranslator`. A call is fragments
`0..Pieces`; sizes are counted because the buffer has a limit, and so are calls. At
the limit the builder is replaced by a blank one, which loses its id, and a
fragment may be too large from the first on. `wire` is what the client has, `taken`
the calls it should have, `lost` those that a limit took a fragment or the id from.

### SideEndpoints

The checks in the order of the handlers (the image endpoint has none of the
model's kind), the adapters as what they make of a body (ordered fields) and of an
answer, one upstream call, relay, metering and the two kinds of events. OpenAI's
list of answers is any list and is relayed as it came; TypeSafe's answers have
names, from which one per question is made. A body may be empty, no JSON, an
error with a message or a code, "bare" (JSON without what an answer must have, such
as an error without a message), or an answer. The administrator's test joins at
the adapter.

### McpGateway

The server table, with addresses and tokens, and its create, update and delete,
which tell connections and rows in the order of the code; the SSE proxy with its
registry of cancel functions, the rewrite of the endpoint event line by line, and
the headers sent upstream. Connections, edits and lines interleave; a connection
keeps the row it has read. A token may be the masked one of a listing, which
creation accepts. `sent` is the address and the credentials of the last request,
`paired` the addresses and tokens that were ever columns of one row.

### ModelRows, ConfigStore, JsonStore, Settings

`ModelRows` has the validation both stores share. In `ConfigStore` a write is
validated against a snapshot, takes the lock, changes table and claims, calls
the engines and publishes; the drain goroutine re-reads the row and tells the
engine. `Lossy` lets the drain channel overflow, `Sequential` makes an
administrator wait for its answer. Four failures are swallowed: the rebuild of the
claims goes on without the rows it could not read (`degraded`), a credential is
deleted when the scan for its models failed (`unguarded`), and the drain goroutine
or the start of the process leaves the engine without a model whose row it could
not read (`missed`). `JsonStore` validates the whole configuration under the lock
and writes file and rename outside it. `Settings` merges a partial save into
memory, under overrides of the environment, and stores it; a field stands for its
kind of merge. Overrides are not validated, and neither is the file that `Load`
creates (`made`: the overrides in it); if it cannot be created, saves are refused
(`readOnly`).

### Resolution

Row, balancer and credential table are asked one after the other; a credential
that the balancer names and the table has not, or could not be read, is healed by
two calls of the balancer, which drop its bindings and cooldowns and exclude it
for a while; it stays in the balancer's list, and its cooldown ends. Administrators
write the row and the list, credentials vanish, upstreams refuse them, and the
drain goroutine may fail to read the row. The hour selects the upstream model of peak hours (`Day` hours, any
offset, windows across midnight).

### ModelsCache, TokenCache

Fill, write-through and scan each read or write the database outside the cache's
lock and apply the result later. The database may be away, and may answer with
an empty table, which the reconciler suspects; its check and its swap are two
steps with fills and writes in between. A token verdict has the time it was made;
expiry, the two TTLs and the stale cap are numbers on one clock. A row has its
expiry cut to whole seconds, while the entry its creation makes is clamped by the
expiry that was asked for.

### EventBus, RequestStore, BufferStore

The bus with its history, its replay to a new subscriber and full channels; the
request list with its two limits and entries that grow after they were added;
the directory whose files are written aside and renamed, with a crash between
any two steps, and with files that cannot be counted or removed (`left`).

## 3. Runs

Bounds are in the .cfg files and in the `INSTANCE`s of the MC modules. They are
small, and chosen so that each case the code distinguishes happens.

| Run | Shows | Bounds |
|---|---|---|
| `relay_safety` | `DeliveredPrefix`, `SuccessIsWhole`, `StoredWithinLimit`, `CaptureIsWhole` | all modes; 3 lines of size 1 or 4 under a limit of 6: one long line fits, two do not, and the limit is hit by a body, flush or final line |
| `relay_fair` | `NoLostWakeup` (a stored chunk is forwarded, a finished attempt ends the relay), `AttemptStops`, `RelayEnds` even when the upstream hangs | 2 lines under a limit of 4; live with and without idle termination (without it nothing but the wake-ups moves the relay), buffered, non-stream |
| `race_safety` | `NoOrphans`, `RaceBounded`, `WinnerKept`, `SpawnsJustified` (fresh credential, same model, chain in order) | one buffered model with three credentials and two steps of other requests; two live models that share a credential; a live chain of three models with idle spawns |
| `race_fair` | `ResolvedByDeadline`, `ResolvedByTicks`, `AttemptsStop` | two live models raced two at a time; one buffered model with two credentials |
| `credential_calls` | `CountMirrors`, `BindingsConfigured`, `GetIsAtomic`, `AffinityKept` | two requests (symmetric) of one conversation, a list of three (the smallest for which a rebind has a choice) that shrinks to one entry and grows again, two clock units |
| `credential_sweep` | `IdleEvicted` | one request, model removed and added again, Stop |
| `groups` | `KeepsAffinity` (refinement), `EngineSound`, `PickIsHealthy`, `LastResort` | two symmetric requests of one conversation; two default members and a backup, one default and two backups, or one default, with reconfiguration between the three; the group removed and created once; two routed requests with one edit and members that become unservable |
| `stores` | `ConfigSound`, `SettingsSound`, `CachesSound`, `OutageSafe`, `Converges`, `Resolves`, `RecordsSound` | two credentials, two chat models, two groups; two writes or empty answers against the model cache; five clock units for tokens with TTLs 1 and a stale cap of 2; a day of 4 hours; three requests in a list of two; five events through channels of two; bodies that fit or exceed a directory of 2; environments that `Validate` accepts and refuses; any statement, row read or file removal fails |
| `endpoints` | `UltimateSound`, `ChatSound`, `MessageSound`, `StreamSound`, `GatewaySound`, `SideSound`, `RequestsEnd` | two requests for three conversations on a ring of two hashes, answered and failing; an ultimate answer of three events of two tool calls; every kind of request; a chain of two models; two interleaved tool calls of two pieces, live and not, with a buffer of two units and pieces of one or three; four calls where three are allowed; two MCP connections to two servers with two addresses and an edit, or five lines of one; one routed group request |

A property of the last three runs is the conjunction of a component's named
parts, each stated in the component's module:

| Property | Parts |
|---|---|
| `EngineSound` | `TypeOK`, `CountMirrors` (the unsigned counters), `BindingsConfigured` |
| `LastResort` | `BackupLastResort`, `UnservableIsReal` |
| `ConfigSound` | `NoDanglingCredential`, `NoOrphanMember`, `OneOwner`, `ShadowRead`, `EngineFollows`; `JsonStore!FileValid` |
| `SettingsSound` | `EnvWins`, `StoredIsValid`, `RestartInvisible` (database), `BackupHeld` (file) |
| `CachesSound` | `IndexSound` (`LiveRedirect`, and `ClaimsFollowCache` where ids keep their kind), `StaleBounded` |
| `OutageSafe` | `OutageServes`, `ExpiredOnlyInOutage` |
| `Resolves` | `ResolutionSound` (types, `PeakMatchesWindow`), `Recovers` |
| `RecordsSound` | `BytesExact`, `TagsFresh`, `ViewIsRecent`, `NoTornBuffer`, `DirectoryBounded` |
| `UltimateSound` | `CountedIsFound`, `NeverEarly`, `CaptureMatchesWire`, `FailoverBeforeAnswer` |
| `ChatSound` | `PermissionFirst`, `LogMatchesReply`, `MeteredAnswers` |
| `MessageSound` | `LogIsOutcome`, `AllTried`, `SilentAfterBytes` |
| `StreamSound` | `WireGrammar`, `HeldCallsLand` |
| `GatewaySound` | `EventsWhole`, `TokenStaysHere`, `CutsOwn` |
| `SideSound` | `NoFalseSuccess`, `MeteredOnce`, `OwnAnswers` |

Runs other than the relay's do not check deadlock: a race, a request or a bounded
number of edits ends, and then nothing moves.

`RelayEnds` is claimed for an attempt that has started to stream. A buffered
winner picked by the streaming deadline before its stream opened is "running",
and the idle check only looks at streaming attempts, so such a relay can wait as
long as the provider's client does. `ConfigStore`'s invariants on the tables are
claimed for administrators who wait for their answers, `EngineFollows` for a
drain channel that does not overflow, `Converges` for a table that stays
reachable and non-empty: section 5 says what happens otherwise.

What some parts promise after a failure that nobody answers:
- `NoDanglingCredential` excepts the credentials deleted unscanned, `EngineFollows` the
  models whose row could not be read; `ShadowRead` promises the owner after a rebuild
  that read the table, and always an owner, the row itself or nothing;
- `StoredIsValid`: replacing the overridden fields by their defaults gives settings
  that `Validate` accepts, so what it refuses is an override's doing;
- `DirectoryBounded` is about the files that could be counted and removed;
- `Recovers`: once nobody writes and nothing fails and the balancer lists a
  credential that exists, from some time on every resolution succeeds;
- `LogMatchesReply`: "completed" exactly for an answer that reached the client whole,
  "failed" only if the client was told; the entry may stay "running" when the
  winner broke in the relay;
- `CaptureMatchesWire`: text and thinking are equal in log and wire; the fragments of
  tool calls on the wire are captured ones, in order and once, and all of them for
  an answer of one call that the buffer had room for;
- `HeldCallsLand` excepts what a limit of the buffer dropped (`lost`);
- `NoFalseSuccess` is about errors reported with a message or a code; a bare body that
  TypeSafe's adapter lets through becomes a refusal of every question.

Three runs show a statement of the repository that the code does not keep. The
counterexamples are what the code does; the quoted lines are in `PROJECT.json`
("findings").

| Run | What happens |
|---|---|
| `message_answered` | a live Anthropic stream whose provider fails before its first event ends with neither answer, error nor fallback |
| `live_parallel` | parallel tool calls of a live Anthropic stream are written into one content block |
| `mcp_delete` | when one connection of a server has ended, the registry loses another one's entry, and deleting the server does not cut it |

### Fairness

`StreamRelay!Fairness`: goroutines that can run do run, time passes. The provider
owes nothing until its context is cancelled (then the HTTP client fails the
read). Go's `select` picks at random among ready arms, so an arm that is ready
again and again is taken: strong fairness for the done and disconnect arms.
`RaceCoordinator`: the ticker keeps `manage` going (weak fairness), a ready
context is seen (strong), and an attempt whose context is done returns. On top of
that `ResolvedByDeadline` assumes that the streaming deadline elapses, and
`ResolvedByTicks` instead that attempts return, which the provider clients'
timeouts give. `CredentialLB!FairSpec`: the janitor's ticker fires again and
again and a pass ends.
`MCStores!Fairness`: the reconciler's ticker fires, a fill or a write that has
its database result applies it, a resolution runs on and cooldowns end; nothing is
assumed of the database or of administrators. `MCEndpoints`: the routing of a request runs
on, it waits for no one.

## 4. Proofs

The theorems hold for every value of the constants that satisfies the named
assumptions of the modules: positive limits, finite key and model sets,
non-empty duplicate-free credential lists, chains without repetition, groups
with members. A component that its run only instantiates has its assumption as a
definition (`ConfigAssumption`, `SettingsAssumption`, `ResolutionAssumption`,
`ModelsAssumption`, `TokenAssumption`, `BusAssumption`, `ChatAssumption`,
`MessageAssumption`, `SideAssumption`, `McpAssumption`, `UltimateAssumption`). It is a
hypothesis of the component's theorems, and `HypothesesAssumption` of `MCStores` and
`MCEndpoints` asserts it of the instances TLC checks. Those that say more than a
type:

- `SettingsAssumption`: an override is a boolean or a number that
  `applyEnvOverrides` does not skip, as it does zero for some fields; whether
  `Validate` would accept it is left open.
- `SideAssumption`: a name that was trimmed has nothing left to trim.
- `McpAssumption`: a stored token is none of the words the model uses for "no
  token" and for the client's own header.
- `ResolutionAssumption`: times of the day and offsets of less than a day, which is
  what `parseTime` and `parseUTCOffset` let through.
- `RoutingAssumption`: no cooldown that starts in the behaviour ends in it
  (`RouteClock <= Cooldown`); the engine starts with none. A rewrite is a handful
  of lookups and `DefaultCooldown` a minute, so this is the time a rewrite takes; but
  the theorem does not speak of a request that is re-entered after a race longer
  than that. If a cooldown ended during a rewrite, a member the request has
  already turned away would be healthy again and use up another of its rounds.

Each proof has an inductive invariant (`IndInv`, or one per argument), proved of the initial states and of every action.

`StreamRelayProofs`
- `TypeCorrect`, `DeliveryInOrder` (`DeliveredPrefix`). The invariant `OrderInv`
  says that the stored list is the log of what was appended, except that slots
  below the read index may be pruned; so a fetch from the read index is a plain
  suffix of the log (`FetchIsSuffix`) and delivery appends to a prefix.
  `ModeInv` ties the relay's location to the mode.
- `MemoryBounded` (`StoredWithinLimit`). `LimitInv`: stored bytes are at most the
  reserved ones, and an append is only reached after a reservation within the
  limit.
- `SuccessComplete` (`SuccessIsWhole`). `GapInv`: once a line was rejected the
  reservation stays above the limit, so the final lines are rejected too and the
  attempt cannot complete; `CloseInv`: what a closed buffer says about the
  attempt.
- `LiveCaptureComplete` (`CaptureIsWhole`): outside buffered mode no slot is ever
  pruned (`CaptureInv`), so what finishing reads is the whole log.

`RaceCoordinatorProofs`. A step writes the attempt rows in one of two ways:
every row goes on with its life (`Evolves`), or `manage()` appends rows.
- `RaceTypes` (`TypeOK`), `WinnerIsKept` (`WinnerKept`), `ManagerLeavesNoOrphans`
  (`NoOrphans`). What carries them is `ScanInv`: while `manage()` may still pick a
  winner there is none and nobody has been cancelled; and `RowsInv`: a recorded
  error means a failed row.
- `RaceIsBounded` (`RaceBounded`). `BudgetInv`: a model's failover rows are as many
  as its rotations, fewer than its credentials, and what they reselected is in
  the tried set. `WalkInv`: the latest row is at some position of the chain, and
  at most one row more than that position was spawned for models. With the
  finiteness of models and credentials this bounds the length of the race.
- `EverySpawnJustified` (`SpawnsJustified`): a failover row follows the failed row
  of its model with a credential no other failover used, a fallback a row of the
  model before it in the chain.

`CredentialLBProofs`
- `TypeCorrect`, `CountCorrect` (`CountMirrors`), `ConfiguredAlways`
  (`BindingsConfigured`). Every step writes the bindings of one state in one of
  four ways (`BindEffect`): restart an idle window, write an entry, drop an
  entry, drop a set of entries. Each keeps the mirror exact and the bindings
  configured; that the unsigned counter never wraps follows from the mirror.
- `GetAtomic` (`GetIsAtomic`): a confirmed hit is a valid binding at that moment
  because every binding is configured (`Confirm` does not look at the list), and
  the other paths are one critical section. `CallInv` says what a call has
  established at each of its locations.
- `AffinityHolds` (`AffinityKept`): a binding is replaced in the critical section
  that finds it invalid. `TimeInv` says that a call's clock is past (so a binding
  idle for the call is idle now) and that an excluded credential cools for a
  positive time.

`GroupEngineProofs`. The critical sections are functions of a group's state, so
the lemmas are about one state: `GroupOK` (mirror = number of bindings, bindings
name configured members). The invariant holds of every state ever created: a
call may still work on one that `OnModelChanged` or a reset has replaced.
- `EngineIsSound` (`EngineSound`), `PicksAreHealthy` (`PickIsHealthy`): `CallOK`
  says what a call has read at each point.
- `AffinityKept` (`KeepsAffinity`): the refinement of `StickyTable`. `TableInit` maps
  the initial states; `TableStep` maps every step to a step of the table or a
  stutter, using in which of four ways a section moves the bindings and, when a
  conversation leaves a member, the reason it had (`MayGo`).
- `BackupsAreTheLastResort` (`LastResort`): routing, of a group whose engine is
  seeded. A rewrite asks the engine at most once more than the pool has members,
  so the question is whether these rounds can be used up while a good member is
  left. `RoundsOK` counts them: each round that was lost has cooled another member
  of the pool, except one that went to a member of the other pool to which the
  conversation was still bound; that member cools then, so it happens only once
  (`Tame`). As cooldowns last (`Lasting`) and the good member is not among the
  cooled, a round is left for it.
  `RequestOK` carries the rest: once the request is at the backups, no default
  member is among the good ones; and while there are good ones, the row the
  request read is still the current one.

`TokenCacheProofs` is about both caches.
- `StalenessIsBounded` (`StaleBounded`), `ExpiryIsKept` (`ExpiredOnlyInOutage`). A
  verdict carries the clock its call read before it asked the database. The row
  it found was current then, so an entry is never stamped later than its
  version ended (`EntryInv`, `CallInv`), however calls and the administrator
  interleave; the age of an entry that is served bounds its staleness. A row never
  expires later than was asked for, and an entry is fresh at most until then.
- `IndexIsSound` (`IndexSound`): every claim leads to an id whose cached row, as far
  as it is an open group, shadows the id asked for, always; that the index is
  exactly that of the cached rows needs that an id stays a group or stays a model
  (`KindKept`), because `cacheModel` rebuilds it for groups only (section 5).
- `OutagesServe` (`OutageServes`): a step that applies no row found changes neither
  the rows nor the claims and only takes negative verdicts back; and an empty scan
  never gets to its swap when the cached list was not empty at its check.

`ConfigStoreProofs` has a part for each way to store the configuration, each with
the hypothesis it needs.
- `ReadsFollowRows` (`ShadowRead`), always: every claim is an owner of its id, and
  unless the last rebuild missed rows every id with an owner has a claim
  (`ClaimsInv`). So `GetModel` redirects as the rows say, or not at all.
- `ConfigurationStaysClosed` (`NoDanglingCredential`, `NoOrphanMember`, `OneOwner`),
  when requests come one at a time (`Sequential`): a write that was validated is
  still valid when it gets the lock, and a credential that is deleted unscanned is
  remembered until it is added again. Overlapping requests break it (section 5).
- `EngineCatchesUp` (`EngineFollows`), when the drain channel never overflows
  (`~Lossy`): a model whose engine state is not the committed one has a notice in
  the channel or in the drain goroutine, or its row could not be read when the
  engine was last told (`missed`). Overflow breaks it (section 5).
- `FileCanBeLoaded` (`JsonStore!FileValid`), with one administrator: the file, what a
  save has validated and what it is about to rename over the file pass the
  validation of the whole configuration. With two it is false (section 5).
- `SettingsHold` (`SettingsSound`), of either backend: what a save writes passes
  `Validate`, what is stored passes it once the overrides that `Load` wrote are
  replaced by defaults, and what runs once those of the environment are too; this
  needs that a default in the place of a field keeps valid settings valid. While a
  file is replaced its path is empty, and a file that is there is what was stored
  last.
- `ResolutionHolds` (`ResolutionSound`): the arithmetic of the local hour, for a day
  of any length, and what a request has read at each of its steps.

`StoresProofs` has the bus, the buffers and the composition.
- `BusIsBounded` (`TypeOK`), `StreamsShowTheRecent` (`ViewIsRecent`). `HistoryInv`: the
  history is the last events, as many as fit. `StreamInv`: what a stream has
  written, followed by its channel, is ascending and has exactly the events it
  is to show; a subscriber starts with the history, a published event goes to
  the end of all, a dropped one leaves the set.
- `BuffersAreWhole` (`NoTornBuffer`): a torn file has a temporary name until it is
  whole, and a rename is the only step that makes a name `Get` reads.
- `ConfigHolds`, `SettingsHold`, `CachesHold`, `OutagesAreSafe` (`ConfigSound`,
  `SettingsSound`, `CachesSound`, `OutageSafe`) are the statements the run `stores`
  checks. Each component has its variables to itself, so a step of `Stores` is a
  step of the component or leaves it alone; the proof modules are instantiated
  over the variables of `Stores`, and short lemmas (`SameModels` and the like)
  say that their instances of a component are those of `Stores`.

`EndpointProofs`. A handler is one request that runs through code, so the
invariants say what has been established at each of its locations.
- `ChatHolds` (`ChatSound`): past the permission check the token allows the name
  sent, and the ultimate model is only entered after its own check; a log entry is
  settled in the step that replies, or stays "running" in a relay that breaks, and
  rows are due only for the answer.
- `MessageHolds` (`MessageSound`): while the loop runs nothing was sent, a model left
  behind, in this list or in the one before a re-entry, is logged as failed, and
  the loop is left exhausted only past the end of its list.
- `SideHolds` (`SideSound`): until the end nothing is counted, before the call nothing
  is sent, and the reply that waits to be metered is the inspected answer or 502;
  what passes without being an answer has no keys, so each question is refused.
- `GatewayHolds` (`TypeOK`, `TokenStaysHere`, `CutsOwn`): every row in the table, and
  every one a connection holds, is in `paired`; every registry entry was filed by a
  connection of the server it is under (`FiledByServer`), although the registry can
  lose entries (run `mcp_delete`).
- `UltimateHolds` (`TypeOK`, `FailoverBeforeAnswer`) and `CountedHolds`
  (`CountedIsFound`, `NeverEarly`). `CacheTight`: the ring fills up in order, each slot
  has another hash, and the counters are those of the slots. `Remove` can leave the
  head off the oldest slot, so this lasts until a hash is taken out of the slots;
  that no counter exceeds the attempts since the conversation was last forgotten
  lasts for ever, as a counter only grows by an attempt.

Only model-checked:
- liveness under fairness, which is out of the prover's reach: the runs
  `relay_fair`, `race_fair` and `credential_sweep`, and `Converges`, `Recovers` (in
  `Resolves`) and `RequestsEnd`;
- `LiveStream` (`StreamSound`) and `RequestStore` (its parts of `RecordsSound`), which
  fold over sequences with recursive operators;
- `CaptureMatchesWire` (in `UltimateSound`) and `EventsWhole` (in `GatewaySound`), which
  filter and sort sequences, and `DirectoryBounded` (in `RecordsSound`), a sum over a
  directory: what the library's folds compute needs induction over data;
- the routing of a group whose engine is seeded lazily, and the seeding of group
  states in `ConfigStore`.

## 5. Known behaviours

What modelling met and the runs do not claim. The definitions named are in the
modules; TLC finds each of them violated in a state or step as described.

Relay and race
- `BufferedCaptureIsWhole`: a chunk that arrives between fetch and `ShouldPrune`
  makes Prune run in buffered mode, and the captured answer loses chunks.
- `IdleOnlyWhenQuiet`: the activity time is never refreshed, so a stream that
  still delivers is ended as idle.
- `HardDeadlineHolds`: once there is a winner nobody watches the hard deadline.
- `NoDoubleTry`: the first attempt's credential is not in the tried set.
- `DeadlineKeepsAnswer`: the streaming deadline skips an answer that completed
  after the last tick.
- A live winner is picked on reserved bytes, before (or without) a stored chunk;
  an attempt that fails between `Gate` and `Terminal` ends the race before its
  failover; main, second and first fallback fill the window of a chain of three;
  the idle spawn tests the parallel limit once for two attempts.

Engines and routing
- `ReExclusionExtends`: a rate limit after a quota failure shortens the cooldown.
- `BackupPickIsHealthy`: the fast path of a single backup decides on a snapshot
  and does not look again; after an edit of the group it may return a member that
  has begun to cool although a healthy backup exists.
- `ReentryMovesOn`: the only member of a group is not cooled when it fails; when
  an edit adds members before the re-entry, the failed one may run again.
- `EngineFollowsRow`: an engine seeded lazily with a row read before an edit keeps
  the old list until the next write.

Endpoints and streams
- A log entry stays "running" on a few early exits (`handler_functions.go:162`,
  `handler.go:481`, `handler_anthropic.go:163` and `:225`), after a failed write to
  the client (`handler.go:1181`), and when the winner fails, idles or runs out of
  time while it is relayed (`handler.go:1527`, `:1785`, `:1817`).
- A failure of the ultimate model after its credential was resolved is written as
  a stream event also to a client that did not ask for a stream.
- A token's list of models is compared with the name the client sent: fallbacks
  and members of a group are not compared (`handler.go:640`), nor is an ultimate
  model that is the row the name resolved to (`handler.go:757`).
- The Anthropic loop may report the error of an earlier model (`:2071`). A buffered
  stream that cannot be translated gets an error event without headers or log
  entry, and no fallback (`handler_anthropic.go:1045`).
- At its size limit the tool call buffer starts a blank builder: an oversized first
  fragment loses its id, and in live mode its arguments with it (`buffer.go:202`).
  As soon as a stream has as many tool calls as it may, fragments of the calls
  already begun are refused too (`buffer.go:170`).
- Fragments of the ultimate model's tool calls without an id are filed under the
  first index (`ultimatemodel/handler_internal.go:615`), so those of parallel calls
  mix; the log has what came, the wire what the buffer made of it.
- The provider's goroutine can stay blocked on a full channel when its consumer
  has left (`openai.go:542`); `ToolCallBuffer.totalSize` counts what was emitted
  (`buffer.go:202`); stop reason and usage of an internal live stream are unset.
- `HashCache.Remove` (`hash_cache.go:123`) moves the slots under the head: later
  insertions leave gaps or overwrite, a conversation may be in two slots or in none,
  counters outlive their slots and attempts go uncounted. `CountedIsFound` is
  claimed until a hash is removed, `NeverEarly` always.
- MCP: disabling a server keeps its connections, and messages over them are not
  refused; deletion closes connections before it removes the row; an update may
  store a bearer server without a token (`validation.go:252`), and creation accepts
  the masked token of a listing (`validation.go:215`); an event cut off by the end
  of its stream is flushed like a whole one (`handlers_sse.go:290`).
- Decisions: the first quoted model name in the body is replaced
  (`openaidecision.go:105`), TypeSafe's answers are looked up untrimmed
  (`typesafe.go:448`), a transport failure publishes two events. OpenAI's list of
  answers is relayed unchecked (`openaidecision.go:152`). TypeSafe's adapter relays an
  error without a message, and a body without the required keys, as 200 with
  refusals, although its comment says 502 (`typesafe.go:388`).
- Images: any model with a credential is accepted (`imggen/handler.go:247`).

Stores and caches
- `NoDanglingCredential`, `NoOrphanMember` and `OneOwner` fail when administrators
  overlap: a write is validated against a snapshot from before the lock.
- `RemoveCredential` deletes a credential that models use when its scan for them
  fails (`store.go:2355`); a failed query leaves the claim index without claims, so
  that shadowed ids answer themselves (`store.go:864`); and a row that the drain
  goroutine or the start cannot read leaves the credential engine without the model
  until its next write (`store.go:818`, `:746`).
- A row the drain goroutine read before `RemoveModel` is applied after it, and the
  credential engine keeps a model that is gone. When the drain channel overflows
  the notice is lost and nothing re-reads the row.
- A vanished credential stays in the balancer's list (`credentiallb/engine.go:435`)
  and may be picked, and healed, again, each time at the cost of a request. A
  conversation bound to another credential stays there (`Recovers`), until it idles
  longer than the TTL, which `Resolution` leaves out. A list without any other
  credential never resolves.
- Settings: overrides that `Validate` refuses run, are written into a file that `Load`
  creates, and, as a save of the database back end is merged into what runs, make
  later saves fail (`config.go:426`, `:461`); the backup of the file is written and never read.
- `JsonStore!FileValid` fails with two administrators (an older file is renamed
  last), and `RefusedChangesNothing` when Save fails: memory keeps the change.
- `ModelsCache!ConvergesAlways`: an emptied table is suspected for ever. An empty scan
  that was checked against an empty cache is swapped in although rows were cached
  since (`models.go:374`, `:406`).
- `ModelsCache!ClaimsFollowCache` fails when an id changes between group and model:
  a late fill puts a model row over a group and the claims stay. `GetModel` looks
  at the row again, so no read shows it (`LiveRedirect`, proved without `KindKept`).
- `TokenCache!NoMaskedChange`: a validation that overlaps a patch stores the old
  row for one more TTL. The entry a creation makes outlives the stored expiry by a
  fraction of a second (`tokens.go:270`, `auth/store.go:51`).
- A subscriber that joins after a full history starts with a full channel; saving
  a request body may delete the response saved just before it
  (`proxy/handler.go:209`), because cleanup empties the directory. The limit of that
  directory is best effort (`bufferstore/store.go:38`).

## 6. Not modelled

Contents of messages (request conversion, normalizing, token counting, JSON
repair), HTTP and SQL, event and log texts, weights of picks, the data race of
the heartbeat's flush with the relay's write (a property of net/http's writer),
gzip, static pages and listings of the UI, process wiring. Loop detection and the
upstream monitor are not reached by production code: `NewDetector` and
`MonitoredReader` are used by tests only.

## 7. Plan

Done: the models of section 2 and the proofs of section 4.

Next, in this order:
1. Routing with cooldowns that end between a race and its re-entry, and of a
   group whose engine is seeded with a row read before an edit (`EngineFollowsRow`).
2. An abstract credential engine (one atomic step per call) that `CredentialLB`
   refines and the race uses, with the clock that the repeated exclusion at
   `race_coordinator.go:699` needs.
