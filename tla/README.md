# The AgentCat Go SDK in TLA+

The AgentCat Go SDK watches the tool calls of an MCP server. An adapter
(`mcpgo/` for mark3labs/mcp-go, `officialsdk/` for the official SDK) is installed
on the customer's server by `Track`; for every `tools/call` it resolves a session
handle, builds one event and hands it to a publisher shared by the whole process,
which redacts, sanitizes and truncates the event on a background worker, exports
it to the customer's telemetry vendors and sends it to the AgentCat API. The SDK
runs inside the customer's process: it must never block, crash or alter a
customer's request, must never let text out that the customer's hooks have not
seen, and must not lose events silently.

## Inventory

| Component | State | Operations | Hard behaviour | What makes it correct |
|---|---|---|---|---|
| Event publisher, `internal/publisher` | bounded channel, `closed` under `closeMu`, `shutdownCh`, `shutdownOnce`, worker pool | `Publish`, `worker`, `publishEvent`, `Shutdown`, `SetTelemetryManager` | Publish racing Shutdown, drain under a deadline, retries interrupted, panics, customer hooks that hang | no panic on the channel, no event lost or doubled, redaction before anything leaves, clean shutdown = everything settled, everyone returns |
| Telemetry manager, `internal/exporters/telemetry.go` | a WaitGroup over export goroutines | `ExportAsync`, `Wait` | replaced at run time; a wait that outlives the deadline | exports awaited; no panic in the process |
| Global publisher, `publisher.go`, `mcpcat.go`, `custom_event.go` | `globalPub` under `globalMu`; each tracked server's closure over a publisher | `GetOrInit`, `ShutdownGlobal`, `InitPublisher`, `PublishCustomEvent` | several servers with different options share one publisher; shutdowns by several owners; use after shutdown | one live publisher; a server's hooks apply to its events; a shutdown that returns has drained |
| mcp-go call capture, `mcpgo/call_middleware.go`, `failure_hooks.go` | `pendingCalls` (256 records, oldest evicted) | tool middleware, after-call hook, error hook | three capture sites and customer middleware around them; results replaced; eviction | exactly one event for a call, with the session the agent was told, without the SDK's own decoration |
| mcp-go listing and schemas, `list_inject.go`, `registered_schema.go` | registered tool schemas under mcp-go's `toolsMu` | list hook, declarations on registered and session tools | compare-and-set against concurrent registration; notifications that cause lists | a customer's registration is never overwritten; an advertised call is accepted; lists come to rest |
| `Track`, `mcpgo.go`, `hook_state.go`, `officialsdk.go` | `capturers`, `instrumentedHooks` | `Track`, `installTracking`, `instrumentHooksOnce` | concurrent Tracks, shared Hooks values, recycled addresses | instrumented exactly once; a hook finds its own server's capturer |
| Official SDK adapter, `officialsdk/` | registries, weak rebuild target | receiving middleware, `Track` | a check after stripping; a rebuild that sees one page | an advertised call is accepted and reaches the handler with its own arguments |
| Server registry, `internal/registry` | map from address to token and instance | `Register`, `Get`, `Unregister`, cleanup | collection, delayed cleanup, recycled addresses | a live tracked server is found; no entry outlives its object |
| Handles, `internal/handles` | none | `ResolveSessionHandle`, mint-back text, mirror | precedence of hook, foreign, supplied, invalid, minted | a session id never issued is never recorded; a mirror of the SDK's is recognised |
| Injection and registries, `internal/inject`, `internal/core/types.go` | per-server `Registries` (atomic pointer) | `Build`, `MergeRegistries`, `Strip`, ownership | concurrent merges; lists seen in part | what was injected is stripped, what the customer owns is not |
| Redaction, walk, sanitization, truncation | none | functions over events | cycles, depth, breadth, size and numeric limits | bounded, total, all strings visited |
| Exceptions, validation, tags, custom events | none | build an event's values | error chains with cycles, panics and links no map can hold | bounded, and nothing of the SDK's overwritten |
| Diagnostics, `internal/diagnostics` | bounded buffer, `flushPending`, timer | `Init`, `capture`, `Flush` | capture racing flush, full buffer | a record is in one place; a timer is armed while records wait |
| Logging, `internal/logging` | singleton, sink, `globalDebug` | `New`, `SetGlobalDebug`, `emit` | two locks taken in two orders | the tee into the diagnostics |
| Exporters (OTLP, Datadog, PostHog, Sentry) | none | requests for an event | a failed request before others | all requests made; bodies are formatting |
| Token estimates, constants, examples | none | | | no state or control of their own |

Requests run on the customer's goroutines and call into the adapter; the adapter
calls `Publish`, which never blocks; the workers call the customer's redaction
hooks and the exporters; `Shutdown` may be called from any goroutine, through
`agentcat.Shutdown` or the shutdown function of any Track. Nothing is persisted, so
there is no crash recovery; what is lost at a crash is lost.

What the SDK itself runs concurrently: the goroutines of requests, five publisher
workers, one goroutine per export, the goroutines a Shutdown starts to wait on,
the diagnostics timer, and the collector's cleanups of objects that are gone.

## Modules

| Module | Models | Built from |
|---|---|---|
| `EventDelivery` | what a publisher promises: an event is taken or refused at once, a taken event is settled once, a closed intake takes nothing, a clean shutdown has settled everything | abstract, no code of its own |
| `Publisher` | `internal/publisher` with the fan-out and wait of the telemetry manager | the code between two synchronisation points is one action |
| `GlobalPublisher` | `GetOrInit`, `ShutdownGlobal`, the shutdown functions and closures of `Track`, `PublishCustomEvent`, over all publishers a process builds | each publisher is what `EventDelivery` says |
| `ToolCalls` | the mcp-go adapter's capture of a `tools/call` | mcp-go and the customer's middleware as its environment |
| `Injection` | `Build`, `MergeRegistries`, `Strip`, ownership, as operators over schemas | `internal/inject`, `internal/core/types.go` |
| `Handles` | resolution, mint-back text and mirror, as operators over classes of values | `internal/handles` |
| `Schemas` | lists, rebuilds, declarations and calls of both adapters, with a customer that registers and deletes tools | extends `Injection`, `Handles` |
| `Tracking` | `Track` of both adapters, the registry and the two maps of `hook_state.go`, the collector and its cleanups | |
| `Diagnostics` | `Init`, `capture`, the timer, `Flush` | `internal/diagnostics` and `emit` |
| `TelemetryManager` | `NewManager`, `ExportAsync`, `Wait` and `sync.WaitGroup` step by step, the requests of each exporter | `internal/exporters` |
| `Outbound` | what leaves beside the events: exports, their warnings, `agentcat.Shutdown` | composes `Diagnostics` and `TelemetryManager` |
| `EventValues` | an event's values, the bounded walk, truncation's normalization | operators |
| `EventCapture` | what an event of a call or a custom event carries, exceptions, tags | extends `EventValues` |
| `EventPipeline` | hook, redaction, sanitization, truncation of one event, a stage a step | extends `EventCapture` |
| `...Props` | the properties of a model, the refinements (`PublisherProps`, `GlobalPublisherProps`) | extends the model |
| `...Proofs` | the theorems (`AgreementProofs`: the session of a tool call, `CallProofs`: what a listed tool's call comes to) | extends the properties |
| `MC...` | instances and symmetry for TLC; `MCProcess` holds three models at a time | |

The models are layers of one program. A tool call ends in one `publish` (`ToolCalls`),
which is a `ToolCall` step of `GlobalPublisher`, which there is a step of
`EventDelivery`, which `Publisher` implements in detail. `Schemas` is the same call
before its handler, where arguments are stripped and the session is resolved, and
`Tracking` how the closures it runs in came to be installed. `EventCapture` and
`EventPipeline` follow the values of one event through the stages that `Publisher`
has for many events; `Outbound` is the part of `Shutdown` that comes after the
publisher's own. A definition whose comment begins with
"Fault:" is a deliberate mistake placed before the definition it would replace. No
specification uses one; they show that a property depends on the line it is about.

### Publisher

`queue`, `closed`, `closeMu` and `shutdownCh` are the fields of that name. `once` is
`shutdownOnce`, `telemetry` the atomic pointer, `inflight` the export goroutines of
every manager. `pubPc`/`offer`, `workPc`/`work`/`attempt` and `closePc` say where
each `Publish` call, worker and `Shutdown` call stands. Two variables are history:
`fate` (what became of an event) and `stages` (which parts of the pipeline ran on it).

- `Publish` is four actions, because the mutex, the check of `closed` and the send
  are three places at which others can run. It takes no room for granted: a full
  channel rejects (`PublishReject`).
- A worker receives, runs redaction, sanitization and truncation, exports, and
  enters the send loop. Each stage may end in a panic that the worker recovers
  from (`RecoverPanic`), the event hook may drop the event (`EventRedactionDrops`),
  and a hook may never return: no fairness makes it.
- `Shutdown` closes the channel under the mutex, then closes `shutdownCh`, waits for
  the workers or its deadline, and then for the exports of the manager it finds.
  After the deadline the workers of the model go on, as the code's do.

What is abstracted: the contents of events, the HTTP request, logging. A send
attempt succeeds or fails. A retry's backoff may elapse at any time.

### GlobalPublisher

`globalPub` is the pointer under `globalMu`. For each publisher that was ever built,
`hooks`, `exporters`, `intake` and `report` say what it was built with and how far its
shutdown is. `closure` is the publisher that a Track's middleware captured; it
outlives that publisher. `fnOnce` is the once of the shutdown function that each
Track returns, so `ShutdownFnCall` may wait behind another call of it.
`CustomEvent` and `CustomPublish` are separate steps: the publisher is looked up
first and used afterwards, and a shutdown may come between.

`Configuring` are the servers whose options list exporters, `Exporting` those of which at
least one initializes: `NewManager` skips the others, so a list may install an empty
manager, which `exporters` has as one that feeds nobody. `ExportAsync` is the worker's
fan-out of an event; what it fed is kept in `fed`, because the manager can be replaced
between the capture of an event and its export.

### ToolCalls

mcp-go lets the SDK look at a call from three places. `HandlerReturns` is the
middleware around the handler, `AfterHook...` the hook that is given the final
result, `ErrorHook` the one for protocol errors. `records` and `order` are
`pendingCalls`: the middleware stashes what it resolved under the pointer it returns
(`Stash`), the after-hook claims it (`Claim`), and a claimed pointer stays in
`order` as a tombstone until the eviction reaches it.

A result is a pointer with a content and the session in its decoration. The
decorated copy is a new pointer; a handler may return one `Shared` result from many
calls, and a decoration that panics leaves that pointer in use as the key, so two
calls may stash under the same one. Every resolution of handles mints a session
here (`<<c, n>>`), the case in which resolving twice shows.

The environment is mcp-go (rejections before the handler, task tools, detached
tasks, validation of the output) and a middleware of the customer's around the
SDK's. That middleware may pass a call on, replace its result, answer it itself,
answer it with a result kept from another call, turn results into errors and back,
or try again; `moves` notes what it did. `exempt` marks the four shapes that
`failure_hooks.go:36-44` lists. `Untrack` may end tracing between any two steps.

Stripping arguments and rebuilding the registries do not bear on these properties;
they are in `Schemas`.

### Schemas

A tool is what the customer declared, with the SDK's parameters that were declared on
it, and a version that counts the registrations of its name. Only three parameter
names matter (`session_id`, `agent_id`, `context`), and the kind of schema: a plain
object, one that forbids other properties, one that is composed, or one that cannot
be read. `setup` fixes the configuration, the adapter, which tools live in a session,
which are on the first page of a list and which the customer registers after Track (`Late`).

- A list collects a page, merges what it injected into `registries` by
  compare-and-swap (`MergeRegistries`), and with mcp-go declares the parameters on the
  registered tools: `CopyGlobalTools` reads them, `ApplyDeclarations` writes under
  `toolsMu` only where the schema is still the one it read. `AddSessionTools` writes
  its copy back unchecked and notifies the client, which is `relist`.
- A call loads the registries, and without any lists the first page itself (`Rebuild`,
  which may fail). The same steps serve it, so `Listers` are lists and calls.
- mcp-go looks a tool up and validates before the middleware (`CallTool`), the official
  SDK afterwards (`Dispatch`); that is the difference between the adapters here.
- `raced` and `crossed` are history: names two overlapping lists saw in different
  versions, and names the customer changed while a list held a copy.

At first the client knows the tools from another instance of the server, as in the
factory examples, where each request gets an instance with no registries. With mcp-go
the tools that were there at Track are declared on; those in a session and those of
`Late` have nothing declared on them until a list of this instance.

### Tracking

`serverMap`, `capturers` and `instrumented` are the three process-wide maps, by
address. An entry is named by the Track that made it, which stands for the token. An
object is unborn, live or dead; its address is free at once when it is dead, and its
cleanups run at any later time (`CleanupServer`, `CleanupCapturer`, `CleanupHooks`).
`Track` is a step per critical section: the look at the registry, `Register`, reading
or making the Hooks value, the capturer, `InstrumentHooksOnce`, and `Use`. A server of
the official SDK skips the hooks. `before` is history: who had registered the server
when a Track looked.

### Outbound

`Diagnostics` has `Init` in its four steps, since a record may be logged between them,
and `capture`'s two: the critical section and the `AfterFunc` outside it. `TelemetryManager`
has `sync.WaitGroup` with its counter, its waiters and its three panics, because
`Add` runs under the worker's `recover`, `Wait` under its own, and `Done` under none:
the deferred `Done` runs after the deferred `recover`. An export makes the requests of
its vendor in order, the ones after a failed one too, may panic, which ends it, and logs a
warning into the diagnostics in either case. `Shutdown` begins, drains the workers or passes its deadline, waits for the
exports, flushes the diagnostics and returns.

### The event pipeline

A string is its length, what a byte of it takes in JSON, and whether a redaction
function has seen it. The two container types that the walk knows (`map`, `slice`)
and all others (`struct`, `list`: `http.Header`, `[]map[string]any`, a customer's
types) are told apart, because redaction and truncation treat them differently.
`Limit` is the fixed limits and the first normalization, `Reduce` one turn of the
loop over depths, `CutLargest` one round of the last resort. What `TruncateEvent` means
by the size of an event is `Bytes`, the length of the JSON.

What a reader should know of this part:

- `truncateToSize` "ensures the serialized event fits" (`truncation.go:319`) but for an
  event whose many strings are all short, which no round cuts, and for one that
  cannot be encoded (`Properties` are not normalized), whose size counts as zero.
  `Sized` states exactly that.
- A typed container on a cycle of its own passes the walk, fails in `json.Marshal` and
  overflows the stack in `fmt` (Findings). `PreparedWithinLimits` allows the end of the
  process for such a value only.
- A redaction function that masks all strings masks the `type` of content blocks too,
  and sanitization then replaces the blocks as unsupported.

## Runs

| Run | Instance | What it shows |
|---|---|---|
| `publisher_safety` | 3 events, 2 producers, 2 workers, 1 shutdown, 2 managers, channel of 1, 1 retry | no panic on the channel, every accepted event in exactly one place, both hooks before anything leaves, a clean shutdown has settled everything and awaited the installed manager's exports, nothing is accepted after the close |
| `publisher_liveness` | 2 events, 1 producer, 1 worker, 2 shutdowns | `Publish` and `Shutdown` return even with a worker stuck in a hook; if hooks return, what was accepted is settled and every goroutine ends; the publisher implements `EventDelivery` with its fairness |
| `publisher_exports` | as `publisher_safety`, 2 events | exports of a replaced manager are not awaited (finding) |
| `lifecycle` | 2 servers, one with exporters and one with a list of which none initializes, 2 Tracks, 2 shutdowns, 2 events, 3 publishers | no publisher is left running unowned, none takes an event that nobody will drain, what is queued after a shutdown is in the hands of another, an event is handed to the exporters of a server that lists some and uses the publisher, each publisher is used as `EventDelivery` allows |
| `lifecycle_options` | 2 servers with exporters, one with redaction | a shared publisher has the hooks of the first server and the exporters of the last (finding) |
| `toolcalls` | 2 calls, table of 2, up to 2 dispatches of a call | one event for a call, filed under the session told, showing what the client received; the table bounded |
| `toolcalls_guarantee` | the same | calls outside the four documented shapes with no event or two (finding) |
| `schemas` | 1 customer tool and `get_more_tools`, 7 setups, 1 list at a time (2 with a rebuild), 1 call, 2 versions, 1 list of the client's own accord | no list's entries are lost; calls of what this instance told of, or with mcp-go had at Track, are accepted and reach the handler with their own arguments; the customer's registrations stand; lists come to rest |
| `schemas_instances` | the same, without lists of the client's own accord | a call of what another instance told of is turned down, or keeps the SDK's arguments (finding) |
| `process` | three parts, one at a time: 3 servers (1 official), 2 Hooks values, 2 addresses, 2 Tracks; 2 events and up to 2 exporters, a buffer of 2, 1 Track's beacon; 16 events, each with its difficulty, and 6 settings | the maps find what is live and forget what is not, hooks are instrumented once; records and warnings leave, a crash needs a deadline that passed; what is prepared is within the limits |
| `track_once` | the first part of `process` | two Tracks of a server install two middlewares, and one of a server at a recycled address installs none (finding) |
| `event_redaction` | the third part of `process` | redaction does not reach typed containers (finding) |

Why the bounds are enough. A channel of one is full after one event, so a third
event meets both a full and a drained channel. Two producers and two workers give
every race on the mutex, the channel and the drain; one retry is enough for a
backoff that a shutdown interrupts, and two managers for a replacement with
exports in flight. In the life cycle the two servers replace each other's manager, one
of them by an empty one, and custom events that name no server come between; two shutdowns can take at most two publishers,
so a third always exists (`EnoughPublishers` states that). In the tool calls two
calls with two dispatches each stash four times into a table of two, so records
are evicted, orphaned, overwritten and claimed by another call.

In `schemas` one list and the rebuild of one call are two merges at a time, two
versions let the customer replace or delete a tool once under a list or a call, or
register it late and then change it, and the setups cover each adapter, with handles off, with a hook,
with the tool in a session, registered after Track, on the first page and after it. The two forms are a
closed schema that a declaration must open and one that owns `session_id`. In
`process` three servers and two Hooks values on two addresses make every address serve two objects
in turn, with a cleanup of the first still to come; two Tracks race on one server, or
share a Hooks value over two. Two exports meet in the WaitGroup, and one event
with two exporters has a worker between two `Add` calls when the deadline passes. A buffer of two overflows.
No event there has failed, and Sentry's tracing is off: the further
requests these add are more of the same step. The events of the pipeline are chosen so that
each limit is passed once and met by another: too many, too long, too
deep, too large only together, cyclic, typed, not encodable.

The three parts of `process` share no variable, so a behaviour is one of one part
with the others at rest in an initial state; their product would repeat each part's
states. Symmetry (of addresses and of Tracks there) is used in runs of safety
properties only, over constants no definition orders.

## Fairness

`FairSpec` of `Publisher` assumes what the Go runtime and the code's timeouts give:

- weak fairness of the SDK's own goroutines, as a runnable goroutine is scheduled;
- strong fairness of `PublishLock` and `ShutdownClose`, as `sync.Mutex` hands over to
  a waiter that starves, though others take it again and again;
- weak fairness of sends, exports and backoffs, each of which has a timeout
  (`RequestTimeout`, the exporters' HTTP clients, `BackoffElapses` a timer);
- weak fairness of the deadline, since `Shutdown` gives itself one when its caller
  gave none.

Nobody has to publish or shut down. The customer's redaction hooks get no fairness;
the properties that need them to return say so (`HooksReturn => ...`), and
`PublishReturns` and `ShutdownTerminates` hold without.

`FairSpec` of `Schemas` assumes that a request that was begun is served to its end
(each lister's next step is weakly fair), and that a client told of a change lists
again. The latter is no promise of the code's but the worst a client may do: under
it, declarations that always notified would cause lists for ever (`ListsSettle`).
The customer does not have to register anything, nor the client to call.

The other specifications have safety properties only. What would be live there,
that a batch is posted or a cleanup runs, is the runtime's promise alone.

## Proofs

All theorems hold for every value of the constants, under the assumptions the
modules name (`PublisherAssumption`, `GlobalAssumption`, `ToolCallsAssumption`,
`NoneAssumption`, `TrackingAssumption`, `MaxBufferAssumption`, `LoadAssumption`,
`CallersAssumption`, `SchemasAssumption`, `FormsAssumption`: capacities are positive, nil
is no value of anything, names of different things differ, a form is well formed, and
that of `get_more_tools` asks for a context). TLC evaluates these
on every run of these modules.

**Publisher.** `Inductive` proves `IInv`. None of the safety properties is inductive
alone. `NoChannelPanic` needs that the mutex is held from the check of `closed` to
the send (`CallStates`) and that only one Shutdown is in the body of the once
(`ShutdownStates`). `DrainedMeansSettled` needs that a worker exits only from the
closed, empty channel (`WorkerStates`) and that accepted events are nowhere else
(`Accounting`). `RedactedBeforeLeaving` needs how far the pipeline got at each
place an event can be (`PipelineStates`). From `IInv` follow type correctness,
the five invariants, `NothingAcceptedAfterClose`, and that every step of the
publisher is a step of `EventDelivery` or none (`PublisherImplementsDelivery`).

Three more theorems are about what the runs refute or show only on an instance.
`OnlyReplacedOutlive` is the other side of the run `publisher_exports`: as long as no
manager is replaced by another (one may be installed where there was none), every
export that runs is the installed manager's, so a Shutdown in time has awaited them all.
`DrainAlwaysGoesOn` is the measure behind the liveness that TLC checks. A worker has at
most `6 + 2 * MaxRetries` steps to do with an event (`StepsBounded`), and once the
intake is closed the channel only shrinks and each step of a worker lowers that
measure, takes the next event or is its last. `NobodyWaitsForEver` says that the waits
form no circle: the holder of the mutex is a Publish that waits for nobody, a Shutdown
behind the once has another in the body of it, and that one waits for workers that it
has already told, or for the deadline.

**GlobalPublisher.** `IInv` adds where each shutdown stands with the publisher it
took, that a taken publisher belongs to one shutdown, and that only publishers that
exist are captured. It gives `NoPublisherOrphaned`, `TakerHasDrained` and
`IntakeIsLive`, and with them the two action properties. `ExportsAreOfUsers`: only
`GetOrInit` writes the exporters, and only when its caller lists some, so a publisher
feeds what the last of its users with a list brought, or, if none lists any, nobody
(`ManagerIsAUsers`); a user is never forgotten, so what was so when the event was handed
over stays so. An empty manager counts as what its caller brought.
`PublishersImplementDelivery` takes one publisher at a time: what its shutdown
reports is what its intake and its unsettled events allow, so each step is a step of
that publisher's `EventDelivery` or none, and every other publisher stutters.

`ShutdownPublishesItsOwn` is what is true of "all queued events are published" in
general: a closed publisher belongs to the shutdown that closed it (`ClosedIsTaken`), so
what is still queued after a shutdown returned nil is in another one's hands.
`SoleShutdownEnsuresPublished` concludes that the documented claim, which is not so in
general (Findings), holds while shutdowns do not overlap and none meets its
deadline. Two theorems do the same for the halves of `OptionsHonoured`, which the run
`lifecycle_options` refutes: with one
server, which custom events name, every publisher ever built has that server's hooks
(`OneServerIsRedacted`, by `HookedFor`), and where no other server lists exporters, even
unusable ones, each event of a server gets to its own (`SoleExportersGetTheirEvents`).
These hypotheses are about how a program uses the SDK, and about the time
it gives a shutdown.
`ShutdownFnOnce` needs that at most one call is inside a Track's function and that none
enters after it is done (`FnStates`).

**ToolCalls.** `EventCount` is the argument for one event: it follows a call through
its places and says where it has its event (published by the middleware, or
answered) and where it has none yet. The table does not occur in it. A claim that
hits and one that misses both publish, so neither eviction nor another call can
change the count. `TableBounded` is inductive by itself, `EventTruthful` needs that
every record holds the undecorated form of the result it is filed under
(`RecordsPlain`). `OutsideTheGuarantee` bounds what `toolcalls_guarantee` shows: each
dispatch may publish once and a hook once more, where it has something to report
(`Share`), whatever the handler and the outer middleware do.
`SessionAgreement` has a module of its own, `AgreementProofs`. A decorated result
bears the session of the dispatch that minted it, which no later result bears again once
the handler has returned (`OrderSpent`): its pointer is new to the table and stands
in `order` once. From then on it moves one place at most with each stash, so that
as long as `overtaken` is below `Capacity` it is not evicted (`Waits`), and only a call that was
given the same result can claim it. What the after-hook then files is the record's
session (`Filed`). A task is filed by the middleware itself.

**Tracking.** `TrackingInv` is built in layers, each inductive with those before it. `Shape`
says what a Track has in hand at each step. `Entries`: whoever made an entry is past
the step that makes it, its object had the entry's address, and its cleanup is still
to come; so a cleanup that finds its own token finds the entry of a dead object, and
one that finds another's leaves it. From that follows `RegisteredIsFound` as an
inductive fact. `Instrumented` adds that a live Hooks value with closures is in the
map, which is what makes the second Track skip it. `Captured` says that a
middleware is installed by exactly the Tracks that are done, and that no step takes a live
server's capturer away. `LookedFirst` says that who went on to register found nobody
registered, which needs `RegisteredIsFound`. `TwiceOnlyByRace` concludes that a Track
installs a second middleware only beside one that it could not have seen, so the race of
`track_once` is the only way to it on a server that was not unregistered.

**Outbound.** `OutboundInv` has the types, how far each export is with its requests, and
three arguments. `Timely`: while no worker outlived the deadline, the counter of the WaitGroup is
the number of exports that run, whoever counts to zero while someone waits is alone,
and a released waiter sees zero; so nothing panics. `late` makes all of that void, and
`Clocked` says that it needs the deadline. `Opened`: what is in the buffer has a timer,
or a caller about to start one, and the sink exists only when the attributes do.
`Recorded`: a record is in one place, and a failed export's record is somewhere once it
is past its warning, which it reaches with all its requests made or by a panic; after a Shutdown in time it is no longer in the buffer.
The counting needs cardinalities of finite sets, for which the theorems of the library are cited.

**Schemas.** `StripUndoesBuild` and `MirrorRecognised` are about the operators alone.
`EveryListAlwaysCounts` needs that a merge never forgets (`KnownStays`, where the
compare-and-swap comes in) and that what a list saw is recorded once it is past its
merge. `RegistrationAlwaysKept` needs that a copy in hand is of the last version or
crossed, and that only tools of a session are written back unchecked (`Copied`).

**Calls.** `AdvertisedAlwaysAccepted` and `HandlerAlwaysSeesItsArguments` relate what the
client was told, what is registered and the entry a call is stripped by, of which
the last does not say what registration it was made from. `CallProofs` therefore
speaks of a history, a function from names and numbers to what the customer
registered, which the invariant says to exist and no variable holds. The acceptance is of
what the tool's own instance told of, and with mcp-go also of what was registered globally before Track;
the calls it leaves out are those of `schemas_instances`, of a session's tools told of
elsewhere, and with the official SDK those of a tool whose lists raced.
`Served` has these parts.

- `Genuine`: every registered tool, copy, advertised schema and entry is made from
  one registration of the history, declared on or not, and a declared tool is listed as the undeclared one
  is (`DeclaredOnce`). What the history says of registrations to come is open, so that it
  can be chosen to foretell the next one (`Foretelling`).
- `Fresh`, for a name whose lists did not race: the stored entry is of the n-th
  registration with n no newer than what is registered, in a copy or about to be
  merged, and no older than what was merged or told. Lists that overlap without a race saw
  the same version (`NoRace`), and a failed compare-and-swap loads again (`Leaving`), so
  no merge brings an older entry back. `InHand` says the same of what a call loaded.
  At a strip the two bounds meet: the entry is of what the client was told
  (`EntryInHand`).
- `Ordered`: who rests holds nothing, every rebuild is its call's, what is in hand is stored, and a call
  that was told of its tool on this instance never rebuilds.
- `Declaring`, for mcp-go: what a list saw is declared, or its copy is pending and still what is
  registered, from the step on at which its kind of tool was copied; so it is
  declared before the client is told.
- `Plain`, for the official SDK: nothing is declared, so a tool is always in its last
  version, and what a stripped call found stays so until it is looked up (`Checkable`).
- `Answers`: the two properties for each call, from the step that decides them to the
  end of the call.

Before it was proved the invariant was checked with TLC, on the instance of
`schemas.cfg` and with the history as a variable.

Some theorems go beyond the runs: `TakerHasDrained`, `ShutdownFnOnce`,
`SoleShutdownEnsuresPublished`, `OneServerIsRedacted`, `SoleExportersGetTheirEvents`,
`OnlyReplacedOutlive`, `TwiceOnlyByRace`, `DrainAlwaysGoesOn`, `NobodyWaitsForEver`, `OutsideTheGuarantee`, `StripUndoesBuild` and
`MirrorRecognised`. What those of the publisher, its life cycle and the tool calls state
was checked with TLC on the instances of these runs before the proofs.

Only model-checked: all liveness and the fairness part of the refinements (the proof
system has no ENABLED); and the pipeline's `Sized`, `PreparedWithinLimits` and
`ProcessTypeOK`, whose operators are recursive over values of any depth. Induction over
data is out of the prover's reach, so those are checked over the chosen events.

## Findings

Places where a comment or a document says more than the code does. Six are shown by a run,
and `PROJECT.json` quotes the lines:

- `publisher_exports`: a shutdown waits for the exports of one manager only
  (`publisher.go:354`), so those of a replaced one may still run. `OnlyReplacedOutlive`
  says when none does.
- `lifecycle_options`: the publisher has the redaction hooks of whoever asked for it first,
  and the exporters of whoever listed some last, an empty manager if none of these
  initializes. TLC reports the hooks; with `RedactionHonoured` or
  `ExportersReceiveTheirEvents` alone it refutes either half. `OneServerIsRedacted` and
  `SoleExportersGetTheirEvents` say when each is so.
- `toolcalls_guarantee`: one event for a call has more exceptions than the four listed in
  `failure_hooks.go`. `OutsideTheGuarantee` says what is true of the calls left out.
- `schemas_instances`: what one instance tells of another may not take. With mcp-go a tool
  registered after Track is declared on by a list of its own instance, and a call may come
  before that (`list_inject.go:165` says it cannot); a closed schema turns it down. With
  the official SDK a rebuild knows the first page alone. Either half is refuted
  alone (`DeclaredBeforeCalls`, `RebuiltCallsStripped`). `AdvertisedCallsAccepted` names
  exactly these calls, and with mcp-go those of a session's tools, as the ones that may be turned down.
- `track_once`: Track looks at the registry and registers later, so two Tracks of a server
  may both install a middleware (`mcpgo.go:212` calls Track idempotent; `TwiceOnlyByRace`);
  and the registry goes by the address (`registry.go:60`), so a new server at the address of
  a collected one, whose cleanup has yet to run, is taken for tracked and never is.
- `event_redaction`: redaction does not descend into containers other than
  `map[string]any` and `[]any`, the HTTP header of a call among them.

Others are what a property that holds makes an exception of:

- `mcpcat.go:97` has Shutdown called "to ensure all queued events are published". A
  shutdown that finds the publisher taken by another returns nil at once;
  `PublishedUnlessElsewhere` and `SoleShutdownEnsuresPublished` say what is so.
- `failure_hooks.go:66` calls the pointer of a result exact whenever the result survives.
  When a middleware gives the result of one call to another, the second may claim the
  first one's record; `SessionAgreement` is about results given to no other call.
- `telemetry.go:91` says that Wait's `recover` keeps the misuse of the WaitGroup from
  crashing the process. That is so in Wait's goroutine; a `Done` that panics in an export's
  goroutine is past every `recover`. `CrashOnlyPastDeadline` says when that can be: a
  deadline that passed with a worker still at its event.
- `walk.go:4` counts on truncation being cycle-safe. A typed container on a cycle of its own
  passes the walk and fails in `json.Marshal`, and `fmt` follows it until the stack
  overflows (`truncation.go:165`); `PreparedWithinLimits` allows that for such a value only.
- `registered_schema.go:143` says that a registration made in between must not be clobbered.
  `declareSessionSchemas` (line 137) writes a session's tools back from its copy;
  `CustomerRegistrationKept` leaves out a session's tools that were changed under a copy.

## Plan

Every part of the plan is modelled: the publisher and its life cycle, tool calls,
registry and Track, registries and handles, registered schemas, the telemetry
manager, the official SDK's path, diagnostics, and the algorithms over events.
What is left, in this order:

1. Multi-round calls of the official SDK, with the tags that tie the rounds together.
2. `GlobalPublisher` and `Outbound` composed: several shutdowns around one set of
   exports and one buffer of diagnostics.

## Not modelled

- The exporters' mapping of events to vendors' bodies, `ordered.go`, stack lines and
  source context of frames, `compat.go` and `metadata.go`: formatting and reflection
  without state of their own. The examples: programs that use the SDK.
- How an id is derived and validated character by character; a class stands for it.
- Strings: a rune that a cut splits, a customer's `MarshalJSON` that panics in
  truncation, and token estimates, which divide a length. The walk's limit of 100
  levels is in the model, and no event of the runs is as deep.
- Logging's singleton. `New` and `SetGlobalDebug` take its two locks in opposite
  orders, but the singleton is created when packages are initialized
  (`registry.go:26`), before a second goroutine can be in the other.
- Multi-round tool results of the official SDK.
- Crashes of the process: nothing is persisted, so what is queued then is gone and
  nothing resumes.
