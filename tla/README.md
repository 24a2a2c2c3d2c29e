# A TLA+ development of go-inject-trace-contrib

The repository holds source templates that the `go-inject` compiler wrapper puts
into a Go program while it is built. `otelc/` injects OpenTelemetry tracing,
`skywalking/` injects SkyWalking tracing. There is no server: everything below
runs inside the instrumented program, on its goroutines, before and after the
calls the application makes. A template's body runs before the original
function, its deferred function after it ("hook").

What has to be right is therefore: which span is whose parent, when a span ends,
what it says of the call it stands for, and that the application notices nothing.

## 1. Inventory

| part | state | operations | hard about it |
|---|---|---|---|
| span stack (`sdktrace/gls.go`) | per goroutine: chain of spans, count, local root; process-wide: lifecycle map with eviction list | push when a span starts, remove when it ends, lookup of the top, clone for a new goroutine, clear | spans end on other goroutines; stacks are unlinked lazily; two limits |
| runtime propagation (`otelc/runtime`) | two fields of `g` | `newproc1` copies them | descriptors are reused |
| lookup (`oteltrace`, `otelgls`) | registered function | `SpanFromContext` falls back to the stack | a context without a span |
| gate (`hooksupport`) | cached configuration | `Instrumented`, suppression marker | shared without a lock, environment may change |
| bootstrap (`boot`, `bootinit`, `otelroot`) | three providers, signal channel, one-shot flag | setup, runtime metrics, signal handler, shutdown, `SetTracerProvider` | partial failures, panics, signals at any time, order of package initialisers |
| AMQP (`plugins/amqp`) | contexts by channel, pending acknowledgements twice | publish, consume, get, ack/nack/reject | two maps and several goroutines; shutdown |
| net/http server | response writer wrapper | `ServeHTTP`, the writer's methods | any order of calls, panics, hijacking |
| client calls (net/http, linodego, elastic v7) | headers of the request, marker in the context | `RoundTrip`, `doRequest`, public methods, `PerformRequest` | they nest; retries |
| kafka-go | headers of messages, marker in the context | `ReadMessage`, `FetchMessage`, `WriteMessages` | headers shared, partial failures, asynchronous writes |
| gRPC | context value with counters | `TagRPC`, `HandleRPC` of both sides | RPCs nest; unsampled spans |
| database/sql | fields of `DB`, `Conn`, `Tx`, `Stmt` | open, prepare, begin, exec, commit | information is handed on along chains of handles |
| gin | two keys of the `gin.Context` | `Next` | it nests; the keys may be cleared |
| GenAI (`genai`, `streaming`, openai/anthropic) | parser and flags of the streaming reader | middleware, `Read`, `Close` | lines cut anywhere, `Close` during `Read`, bounded memory |
| redis, gocql, Kubernetes informers | none, or a wrapped handler | hook, observer, `processDeltas`, `OnAdd`/`OnUpdate`/`OnDelete` | spans started when the query is over; handlers wrapped twice |
| mongo, AWS, log bridges | which clients and loggers already have the hook | append a library's monitor or middleware; read the current span's ids | double registration |
| DSN and path parsing | none | pure functions | many forms of input |
| SkyWalking tracing context (`skywalking/runtime`, the library) | active span of the goroutine, snapshots | create, end, finish asynchronously, capture, continue, clean; `newproc1` | spans are shared by a reuse rule |
| SkyWalking synchronous hooks (servers, routers, clients, drivers) | the status a writer wrapper keeps | a span around one call | they nest and share a span; panics; several notions of the status |
| SkyWalking gRPC streams | a flag and two snapshots per stream | `NewStream`, `SendMsg`, `RecvMsg`, `finish` | `finish` runs on gRPC's goroutine |
| SkyWalking rocketmq, pulsar | the snapshot in a callback | `SendSync`, `SendAsync`, callbacks, `consumeInner`, `Receive` | a callback may run inside the send |
| SkyWalking amqp | map from consumer tag to queue, a sequence number | `Consume`, `send`, `close`, publishing | the map is process-wide, the tag guessed |
| SkyWalking sql | runtime context of the goroutine, a field of each handle | `Open`, driver hooks, statements | nested opens, chains of handles |
| SkyWalking mongo, go-micro | request map, data of a socket | monitor events; `Accept`, `Close`, `ServeRequest` | one goroutine starts a span, another ends it |
| SkyWalking boot and meters | two slices without a lock, last histogram values | `Init`, registration, `MetricsObtain`, the collect hook | the collector is a goroutine of its own |

`PROJECT.json` lists every part with its sources, whether it is modelled, and the
places in the code ("hazards") the properties are aimed at.

## 2. Modules

Every model keeps the control flow of the code and reduces the data to what
the properties tell apart. Actions split where the code can be interrupted by
something that matters: a mutex, an atomic flag, a channel operation, the call
of the original function.

| module | code | state and actions |
|---|---|---|
| GLSSpanStack | `sdktrace/gls.go`, `runtime/`, `oteltrace/hook.go` | `stack`, `n`, `lcs` per goroutine (the linked list as a sequence), `ended` (the shared flags), `states`/`order` (map and eviction list), `pc`/`arg` for the hook under way. `tail` and `compact` take one action per node, because other goroutines set flags meanwhile; what is done under the mutex is one action. A lookup ends in two: `tail`'s last look at the flag (`found`), and the use of what it returned as a parent. `past` remembers the spans that were over when the lookup began |
| ImplicitParent | the promise of that code | a goroutine has a set of spans it may yet use as a parent; spans leave it and none comes back |
| GLSRefinement | | the mapping between the two |
| SequenceLemmas and the modules named `...Proofs` | | section 5 |
| HookGate | `hooksupport.Instrumented` | the environment, the shared cache, three reads, load, store, decide per goroutine |
| Boot | `boot.go`, `bootinit`, `otelroot/hook.go` | package initialisers, one step per provider with all its outcomes, signal delivery, the handler's receive, stop and shutdown |
| AMQPDelivery | `amqp.go`, consuming | deliveries with their span, the local and the channel's map, the wrapper goroutine, callers that settle singly or multiply through delivery or channel |
| AMQPPublish | `amqp.go`, publishing | the context stored under the channel between `PublishWithContext` and its delegate |
| SDKSpans | `sdk/trace` as the hooks use it (external) | a log of spans on one goroutine; operators only |
| ClientCalls | `linodego.go`, `elastic.go`, `http.go` client, `redis.go`, `gocql.go`, `deltas.go`, `deltasbatch.go`, `k8s_handler.go` | the calls under way as frames, with their spans; sets of plugins that are linked into one program, each subset switched on |
| HTTPServer | `http.go` server | the wrapper, the writer under it, and `plain`, the writer an uninstrumented handler would have used |
| KafkaHooks | `kafka.go` | header slices, queue of the asynchronous writer, topic, call under way |
| GRPCStats | `grpc.go` | RPCs of one worker goroutine with their context values and spans |
| DBSql | `dbsql/sql.go` | handles with their copied fields, the last span |
| GinNext | `gin.go` | nested calls with the span a middleware started in each, the two keys, `c.Errors`, the span in the request's context |
| GenAIStream | `genai.go`, `anthropic.go`, `streaming.go` | the call, its span, and a reader whose lines arrive cut in thirds; `Read` and `Close` are separate processes, each split between its compare-and-swap and `finalize` |
| ContentCapture | `streaming.go`, accumulators | content as sequences of bytes with one to three byte characters |

The SkyWalking modules stand on a model of the library they call:

| module | code | state and actions |
|---|---|---|
| SWContext | the tracing context of skywalking-go as the hooks use it (external), `newproc1` | a log of spans and each goroutine's active span; operators only. An entry span made under an entry span, or an exit span under an exit span, is the same span with a count of ends to come |
| SWCalls | the hooks that put a span around one synchronous call | the nested calls of one goroutine. A hook is a record of what tells it apart: kind of span, deferred `End` or not, what happens without a span, where the status comes from; each of the 31 hooks is a definition with its own lines |
| SWGRPCStream | `grpc/client.go`, `stream.go`, `shared.go` | streams with their flag; calls of two goroutines and of each stream's watcher, `finish` split at its compare-and-swap |
| SWAsyncSend | `rocketmq`, `pulsar` | sends and the stack of user code on each goroutine; a failed `SendSync` panics in its deferred function and leaves its span (`lost`) |
| SWAmqp | `amqp/amqp.go`, consuming | the map, both sequence numbers, subscriptions per channel; `Consume` is split where the library's code begins, `send` and `close` where the lock is free: `sending` is a delivery between the library's `send` and the hook, which reads the map |
| SWSql | `sql/sql.go`, `mysql.go`, `pgxstdlib.go` | nested opens per goroutine, the runtime context, handles with the address they got |
| SWMongo | `mongo/mongo.go` | options with the layers of their monitor (two of one `NewClient` if it was given the option twice), clients, commands; the layers make their spans one after the other, a recursive function over the layers |
| SWSocket | `microv4/socket.go`, `server.go` | the socket's data, and each goroutine between two of its three reads of it: the nil check, the snapshot, the span; a request keeps the connection it came on and whether the socket has accepted another since (`moved`) |
| SWMetrics | `boot.go`, `runtimemetrics.go`, `toolkit-activation/metric.go` | the slice of waiting meters, an append or obtain under way, the histogram's last values |

TLC runs `MC...` modules. MCGLS, MCAMQPDelivery and MCBoot add a symmetry or nothing. The
others put modules that share no state side by side: the initial state chooses one, and
only that one moves.

| | |
|---|---|
| MCOutbound | ClientCalls, GRPCStats, DBSql, GenAIStream, ContentCapture |
| MCInbound | HookGate, HTTPServer, GinNext |
| MCMessaging | AMQPPublish, KafkaHooks, SWAsyncSend, SWAmqp |
| MCSkyWalking | SWMetrics, SWCalls, SWGRPCStream, SWSql, SWMongo, SWSocket |

Definitions whose comment begins with "Mutant:" are plausible wrong versions of
the definition after them. No specification uses them; each
property is known to fail when its mutant takes the definition's place.

## 3. Runs

Passing runs, and what they show:

- **GLS_safety** (2 goroutines, one reusing a descriptor, 3 spans, both limits 2).
  Wherever a span is ended or evicted, every goroutine's stack that still holds it holds it
  as ended (`EndReachesEveryGoroutine`). A lookup decides on a live and tracked span, and no span that
  was over when the lookup began becomes a parent; it may end between `tail`'s last look at
  the flag and the SDK's use (`ParentIsLive`). Map and list agree
  (`SpanStatesConsistent`); the count and the local root do not drift
  (`CountMatchesChain`, `LocalRootIsBottom`); a span is turned away only if the stack
  was full of live ones (`RefusedOnlyWhenCrowded`); and the whole implements
  ImplicitParent. Three spans with limits of two are enough for an eviction, a
  compaction and a refusal.
- **GLS_liveness**: every hook returns (`HookReturns`).
- **Boot** (3 signals): whatever failed or panicked during setup, a signal received is
  followed by the shutdown of all providers that were made (`ShutdownReachesEveryProvider`,
  `SignalIsFollowedByShutdown`), and another one during or after the shutdown ends the process
  (`ForceQuitWorks`).
- **AMQPDelivery_safety** (1 consumer and `Get`, 2 callers, 3 tags),
  **AMQPDelivery_liveness**: a delivery's span ends once, for a reason, with an
  error only if a call failed, and is never out of reach of everything that could
  end it; once the channel closes, the spans of its consumers end.
- **Messaging**. AMQPPublish (3 publishers, 4 publishes): without overlap a publish uses
  its own context. KafkaHooks (batches of 2, 4 spans, 3 header
  slices): a consumer span is the child of its message's producer span unless messages under
  way shared the header, one span per read, each producer span has its own outcome
  (`MessagesAreTraced`). SWAsyncSend (1 caller, 2 goroutines of the SDK, 2 asynchronous sends,
  4 spans): a goroutine has no context but that of the calls it is in (`ContextsAreOwn`), and
  every span is reported (`SendsAreReported`), but for what is listed below; two sends are enough for one inside the callback
  of the other. At most two spans share one by the library's reuse below a span that
  `SendSync` left (`MaxDepth`): one shows that a send after the panic gets the lost span
  again, a third would be like the second. SWAmqp (2 goroutines, 2 channels, 2 queues, one tag
  besides the made-up ones, 3 calls of `Consume`): a delivery's span names its queue. Names of
  goroutines, channels, queues and tags are alike to every property, hence the symmetry.
- **Outbound**. ClientCalls (4 spans): the spans form the tree of the calls, nothing stays
  open, one elastic request is one span, failures are marked; a batch of informer events is
  one more level. GRPCStats (3 RPCs): spans and
  counters belong to their own RPC, except for an RPC whose context was used for an exporter
  call. DBSql (2 databases, 4 handles): no span names another database than its own, or
  another statement. GenAIStream (3 lines): one end and one duration per span, there as
  soon as the winner of the compare-and-swap is through, and the span tells what was
  delivered, however the lines were cut. ContentCapture (limits up to 6, 7
  bytes): capturing chunk by chunk keeps what truncating the whole would keep, within the
  memory bound (`CaptureIsBoundedAndExact`).
- **Inbound**. HookGate (2 goroutines, 2 changes): racing replacements of the cache never
  give an answer that is wrong both before and after the change of the environment, if there was
  at most one during the call; with two the answer may be neither's. HTTPServer (2 requests of 4
  writer calls): the client gets what it would have got, and the recorded status and error are
  those of the status sent (`WrapperIsFaithfulUnlessMisled`); no span survives
  its request on the connection's goroutine. GinNext (5 nested calls, 2 errors, 2 spans):
  errors are recorded exactly once without and at least once with `HandleContext`, if the
  request has the server's context again; the route reaches a recording span.
- **SkyWalking**. SWCalls (2 requests, nesting 3, 2 spans): a span ends with the last call that
  shares it, and its status is the one sent. SWGRPCStream (2 goroutines, 2 streams):
  a stream's span is reported when the stream is over and not before. SWSql (2 databases, 2
  opens, 3 handles): a statement's span names its database. SWMongo (2 clients, 2 options, 2
  commands) and SWSocket (2 goroutines, 3 spans): spans that one goroutine starts and another
  finishes are finished once, with the command or connection they are for; the span a request
  names and hangs its calls below is that of the connection it came on. SWMetrics (3
  buckets, one counter of the application): no meter is lost, and the histogram's differences
  add up.

Two runs end in a violation. They show where the code differs from what its own comments say;
`findings` in `PROJECT.json` quotes them:

| run | what happens |
|---|---|
| ClientCalls_doRequest | linodego ends the span before it marks it, so a failed request's span shows no error |
| SWGRPCStream_finish | `RecvMsg` arms `finish` again after it has run, so the "one-shot" finish runs twice (`stream.go:54`) |

The exceptions in the passing properties are behaviours of the code, too. Each is a history
variable or a condition of the property, so that the rest is shown to hold in
every other case:

| exception | what the code does |
|---|---|
| `overlapped` (AMQPPublish) | two publishes on one channel exchange their contexts: the map has one entry per channel (`amqp.go:217`) |
| `shared` (KafkaHooks) | a received message forwarded twice: `Set` overwrites the trace header both copies share (`kafka.go:85`) |
| `Lent` (GRPCStats) | an exporter call under an RPC's context finds that RPC's values, counts there and ends its span (`grpc.go:372`) |
| `sampled` (GRPCStats) | the span of an unsampled RPC is never ended and stays on the worker's stack (`grpc.go:541`) |
| `was.bare` (DBSql) | `Conn.BeginTx`, and `DB.BeginTx` while the plugin is off, leave the transaction's fields empty (`sql.go:444`) |
| `was.mute` (DBSql) | `Tx.StmtContext` does not hand on the statement's text |
| `ctx = Server` (GinNext) | a middleware that leaves its ended span in the request makes the hook record errors nowhere (`gin.go:84`) |
| `misled` (HTTPServer) | the wrapper takes a 1xx or an invalid code, or an empty `ReadFrom`, for the final header: the code that follows is neither recorded nor passed on (`http.go:566`) |
| `flushed` (HTTPServer) | `Flush` sends the header without the wrapper noting it, so a later code is recorded although 200 was sent (`http.go:617`) |
| `ForceQuitWorks` after `signal.Stop` only (Boot) | a second signal between receive and `signal.Stop` stays in the channel unread (`boot.go:290`) |
| `skipped` (SWCalls) | echo's middleware and gorm's callbacks do not defer `End`: after a panic the span stays active (`echov4.go:47`, `gorm.go:91`) |
| `misled` (SWCalls) | goframe's wrapper is never told a status (`goframe.go:35`); wrappers keep the last of two codes, the server sends the first |
| `HasData`, `received` (SWGRPCStream) | the exit span of a stream that failed to open, that an interceptor wrapped (`client.go:74`) or that was never read from is prepared for an asynchronous finish and never finished |
| `strayed` (SWAsyncSend) | a callback inside `SendAsync` cleans the caller's context (`producer.go:153`); a `SendSync` that panics leaves its span as the goroutine's |
| `lost` (SWAsyncSend) | of a failed send `SendSync`'s deferred function reads `result.MessageQueue`, which is nil, and panics before `End` (`producer.go:72`); the asynchronous callback checks it (`producer.go:173`) |
| a "callback" span (SWAsyncSend) | is lost if tagging the result panics; the panic itself is recovered |
| `clashed`, `skewed`, `closing` (SWAmqp) | one tag on two channels; the guessed sequence out of step with the library's; deliveries between the hook's `close` and the library's (`amqp.go:180`, `228`) |
| `nested`, `raw` (SWSql) | an `Open` inside an `Open` takes the address or the flag away (`sql.go:20`); `Conn.Raw` never ends its span (`sql.go:273`) |
| `overtaken` (SWAmqp) | the hook reads the map after the library's `send` has let go of its lock; a tag that was cancelled and given to a new consumer in between leads to that one's queue (`amqp.go:197`) |
| `raced` (SWMetrics) | appends and `MetricsObtain` have no lock (`boot.go:66`) |
| the last bucket (SWMetrics) | with boundaries that begin with -Inf the last bucket is never reported (`runtimemetrics.go:204`) |
| `hidden`, layers (SWMongo) | of several options only the last monitor is called; options used for two clients make two spans per command |
| `Replaced` (SWMongo) | an option given twice to one `NewClient` gets two layers with one map: the outer layer's span takes the place of the inner one's, which is never finished (`mongo.go:67`) |
| `won` (GenAIStream) | a `Close` that loses the compare-and-swap to a `Read` may return before that `Read` has ended the span (`streaming.go:180`) |
| `moved` (SWSocket) | a request reads the socket's data three times; after a `Close` and an `Accept` in between it continues another connection's snapshot or names its span (`microv4/server.go:69`) |
| `crashed` (SWSocket) | `ServeRequest` checks the socket's data and reads it again; a `Close` in between is a nil dereference (`microv4/server.go:66`). The model lets that goroutine stop; no property is about it |

Of two tracer providers the first caller of `SetTracerProvider` wins, whoever it is
(`otelroot/hook.go:22`): Boot models it, no property is about it.

Read in the source and left outside the models: SkyWalking's amqp publish writes the trace header
into a copy when the message has no headers; its mongo monitor calls the application's callbacks
without a nil check; `Header.Add` in its `RoundTrip` repeats the header when a request is sent
again; otelc's mongo v1 hooks `Connect` and `NewClient`, of which one calls the other; its logrus
hooks keep two maps of loggers, so that one logger can get the same (idempotent) hook twice.

Bounds are named in the modules (`Max...`); they limit how often the application
does something and never cut a hook short, except `MaxSpans` and `MaxSpanStates`
of the span stack and the limits of ContentCapture, which are the code's own
constants made small so that they are reached. Most runs switch off
the deadlock check: an application may stop.

## 4. Fairness

- GLS: weak fairness of the hook's next step, per goroutine. The Go scheduler does not
  starve a runnable goroutine, and the hooks block on nothing but a short mutex.
- AMQPDelivery: weak fairness of the wrapper goroutine (scheduler) and of a caller that
  reads deliveries and finishes calls it has begun. The second is an assumption
  on the application: if it stops reading, the wrapper blocks, as the library would.
- Boot: weak fairness of the initialiser's steps and of the signal handler's goroutine.
  Shutdown of a provider has a deadline of five seconds, so each step ends.

## 5. Proofs

What a run shows on a small instance a theorem shows for every value of the constants.
Seven modules hold the theorems, and SequenceLemmas the lemmas on sequences and numbers they
share. `PROJECT.json` lists each theorem with the property it is about.

| module | runs it extends | theorems |
|---|---|---|
| GLSProofs | GLS_safety | TypeCorrect, EndIsGlobal, SpanStatesSafe, CountCorrect, LocalRootCorrect, RefusalJustified, ParentsAreLive, RefinesImplicitParent |
| BootProofs | Boot | ShutdownComplete, ForceQuit |
| AMQPDeliveryProofs | AMQPDelivery_safety | OpenSpansAreReachable, EndsHaveReasons, AcksSettle |
| MessagingProofs | Messaging | OwnContext, DeliveryNames, ContextsNest, SpansAreReported, MessagesTraced |
| OutboundProofs | Outbound | SpansDescribeStatements, SpansLiveWithRPCs, TreeMirrors, FailuresAreMarked, DurationsMirrorSpans, StreamSpansAreTrue, CapturesAreExact |
| InboundProofs | Inbound | WrapperIsFaithful, ServerSpansEnd, AnswersAreCurrent, ErrorsAreRecorded, RouteIsPut |
| SkyWalkingProofs | SkyWalking | StatementsNameTheirDatabase, StreamsAreReported, AsyncSpansMatch, MetersAreCollected, MetersShow, CallsEndTheirSpans, TagsAreWhatWasSent |

Hardly any of the properties is inductive alone. Each component has an inductive invariant
of its own, a conjunction of named parts; one lemma per action (`...Keeps`, `...Step`) shows
that the action keeps it, a lemma (`...NextInv`) puts them together, and the theorem follows.
Where several models share a run, the specification has a behaviour of one of them at a time,
and a theorem uses only that model's invariant. An invariant `GateInv`, `SqlInv`, ... in the
list below is found under that name.

### The span stack

    IInv == TypeOK /\ ArgInv /\ ForkInv /\ FlagInv /\ OrderInv /\ CountInv /\ CompactInv /\ LcsInv

- `ArgInv`, `ForkInv`: which span and which goroutine a hook works on, and that no two
  hooks work on the same; without them a span might be tracked twice.
- `FlagInv`: what a stack holds is tracked or flagged. This carries
  `EndReachesEveryGoroutine`: an ended span is not tracked, hence flagged.
- `OrderInv`: the eviction list enumerates the map without repetition.
- `CountInv`: the count is the chain's length, and below the limit at a push.
- `CompactInv`: inside `compact` room has been made or a flagged entry is still ahead of
  the cursor, or the stack was full of live spans; this is what makes refusals justified.
- `LcsInv`: the local root is right outside `compact` and on chains that are not empty.

That the stack implements ImplicitParent (`RefinesImplicitParent`) needs the order in which spans
were tracked as well, `RInv == IInv /\ HistoryInv`:

- `BirthInv`: a span's number is at most the number of spans tracked so far, so the next one is
  the youngest; what is tracked or flagged has a number.
- `AgeInv`: every stack and the eviction list ascend in these numbers, whatever is unlinked from
  them. So the tail of a stack is the candidate that was tracked last, which the abstract
  lookup chooses, and the head of the list the oldest tracked span, which the abstract eviction takes.
- `ContextInv`: a goroutine without a tracing context has no stack.

From there on each action has its lemma (`...Steps`): it maps to the abstract action it is named for.
The moves that nobody outside sees share one (`MovesAreHidden`): they map to a stutter. Unlinking by `tail`, `compact` and `del` is such a stutter: it takes
flagged entries away, and those are no candidates. `End` and the eviction, which set one flag, empty
the sets of all goroutines at once.

`ParentsAreLive` needs one conjunct more (`PastInv`): what was over when a lookup began is over
for good, so `tail`, which stops at a live span, has found none of it.

### Shutdown

`HandlerInv` ties the handler's goroutine to the end of the setup and the channel's registration
to the time until `signal.Stop`; `ClosedInv` says that every provider Shutdown has passed is down.

### AMQP deliveries

`IInv` follows a delivery's tag: not yet used, queued (`InboxInv`), in the hands of the one
goroutine that registers it (`WorkInv`, `GetInv`), from then on in the maps until a settling
call or the shutdown takes it out (`CallInv`, `EndInv`). `EndInv` is the important part: what
`End` has been reserved for in somebody's hands is not yet ended, and the `sync.Once` makes the
second `End` harmless. `ReturnInv` keeps a delivery whose call has returned out of both maps.

### Message queues

- AMQPPublish (`PublishInv`): a publisher alone between `PublishWithContext` and its delegate
  finds in the map what it left there.
- KafkaHooks (`KafkaInv`): a header leads to its producer wherever its message is (`HeaderInv`), in the
  topic, in the queue, in the batch being written or with `ReadMessage`, unless its slice was
  shared. What makes it inductive is that a write to a slice in use marks it as shared, and a
  slice handed out is used by nobody. The spans of the batch are the last ones (`CallInv`), one for
  each message, by induction over the batch (`BatchStarted`); the k-th message sent is one of the
  batch (`Ranked`). `OutcomeInv` and `ReadInv` are the other halves of the property with the call under way.
- SWAmqp (`DeliverInv`): the library's sequence number counts the calls without a tag that have
  passed it, and the hook's runs ahead by at most the one under way (`SeqInv`); so the map gives
  the queue of every subscription (`NameInv`) and of a delivery that has yet to read it, unless its tag
  was registered anew (`SendingInv`). `HolderInv`: two holders of a tag, among them that delivery, have clashed.
- SWAsyncSend (`AsyncInv`): a goroutine's context is the span of one of its calls (`ActInv`), each
  span belongs to one call (`OwnerInv`), and on goroutines that have not strayed contexts
  nest as the calls do (`NestInv`). Only exit spans are lost, and never one below another (`LostInv`).

### Outgoing calls

- DBSql (`SQLInv`): every handle, however derived, has the fields of its own connection, but for
  the two exceptions of section 3.
- GRPCStats (`GRPCInv`): an RPC owns its span, or borrows that of the RPC whose context it got.
- ClientCalls (`ClientInv`): the frames' spans are live, older ones further out; a frame's
  context and its span's parent are the span of the innermost instrumented call around it
  (`CtxInv`, `TreeInv`).
- GenAIStream (`ReaderInv`): `Seen` says what a parser knows that has read the first n lines; that reading
  one more line leads from n to n + 1 is what makes the place where lines were cut irrelevant. Whoever set the flag ends the span (`EndedInv`).
- ContentCapture (`CaptureInv`): an accumulator holds what is to be shown of everything it was
  fed, with the suffix already counted in.

### Incoming requests

- HTTPServer (`ServerInv`): while nothing misled it, the inner writer is where `plain` is, and the
  recorded status is the one it has.
- HookGate (`GateInv`): a cached configuration was built from some environment, and the values read
  are those of the environments since the call began; `Setenv` changes one variable, so two
  environments leave room for one answer each.
- GinNext (`GinInv`): the depth counts the calls of `Next` under way, unless `HandleContext` reset
  it (`DepthInv`), so without it only the outermost call records errors (`OnceInv`).

### SkyWalking

Lemmas on SWContext come first: what `CreateSpan`, `End`, the asynchronous finish and the
snapshots do to the log and to each goroutine's context.

- SWCalls (`CallsInv`). A span is under another when every set that holds the other, and with a span
  its children, holds it too (`Under`): an induction principle in place of a recursive walk up
  the parents. `NestOK`: the goroutine's context, and the span of every frame further in, is under
  the span of each frame. `OpenOK`: what the context is under is open. `DepthOK`: a span's
  depth counts the frames that share it, entry spans under entry spans and exit spans under exit
  spans, exactly so (`Exact`) unless a panic skipped an `End`. `StatusOK`: the outermost frame that tags from
  what it recorded recorded what the client was sent, and the tag is that unless another tag is to come.
- SWSql (`SqlInv`): a handle has the address its driver told, unless opens were nested.
- SWGRPCStream (`StreamsInv`): a stream that was read and is disarmed or over is finished
  or some goroutine is in `finish` for it; only one that was received to its end is finished.
- SWMongo (`MongoInv`): the maps have the spans of the commands that run, under the layer that made
  them, but for the spans a later layer with the same map replaced, and an entry is a span of its own command. `LayerSpansLayer` shows by induction what a monitor of any number of layers leaves.
- SWSocket (`SocketInv`): the data of a socket stay until the one `Close` that finished the span
  clears them; a request that has yet to read them finds none or those of its connection, unless the
  socket has moved (`LooksOK`), and one that serves without a context of its own has the snapshot it read.
- SWMetrics: `QueueInv`, in which every append under way has read all settled meters (`ReadersInv`), so that
  whichever writes the slice next loses none, and the collector's copy has them before it resets the slice
  (`ResetInv`). `MeterInv`: in each bucket of its own the histogram has reported
  what it remembers, which is what the runtime showed last.

### Assumptions

The theorems rest on the assumptions on constants and nothing else; TLC evaluates each of them.

| assumption | what it says, and why |
|---|---|
| GLSAssumption | finitely many spans, both limits at least one, as `positiveIntEnv` sees to; names differ |
| BootAssumption, GateAssumption, AMQPAssumption | bounds are numbers, names differ, auto-acknowledged consumers are consumers |
| PublishAssumption, QueueAssumption | bounds, the number of header slices among them, are numbers; "none" is no span and no queue |
| CaptureAssumption | the ellipsis fits the limit, as it does for the code's constants |
| ErrorBound, LinesAssumption | bounds are numbers |
| MetricsAssumption | a histogram has a bucket |
| WatchersAssumption | the goroutine gRPC starts for a stream is none of the application's |

### What is only model-checked

- Liveness (`HookReturns`, `ShutdownEndsSpans`, `SignalIsFollowedByShutdown`): the prover has no rule
  for fairness and `ENABLED`.
- The runs that expect a violation: each has its counterexample, and there is nothing to prove.

Every invariant and every action property of the passing runs is the statement of a theorem.

Induction is used where a definition is recursive: the library's induction rules take an operator as a
parameter, which the provers cannot instantiate, so SequenceLemmas states the principle for a set of numbers
(`Induction`) and proves it from the existence of a greatest element of a finite set (`Greatest`).

## 6. Not modelled

- Names, attributes, metrics' values and logging, unless a property is about them.
- In GLSSpanStack: spans with an invalid context, which the SDK does not make; the baggage
  container, which this code only ever sets to nil; recording and non-recording spans are
  treated alike, as the code does.
- Libraries (amqp091-go, net/http, kafka-go, gRPC, gin, database/sql, the SDKs) appear as
  the hooks see them and are marked external in the map.
- Pure functions over strings: DSN parsing, the path parser of elastic, redaction of redis
  statements, attribute helpers. Over the few model values the other modules need they
  would say nothing, and character by character they would be the program again.
- Hooks that only hand something on: AWS (appends a library's middleware), otelc's mongo
  (appends a library's monitor), the log bridges (one lookup of the current span), SkyWalking's
  toolkit and pprof, and the constructors that insert a hook the models take as inserted.
- The compiler wrapper and the A/B test harness.

`PROJECT.json` gives the reason part by part.

## 7. Plan

1. (done) The span stack with its abstract specification and proofs; AMQP; the gate;
   bootstrap; the client and server hooks with state over several calls.
2. (done) Redis, gocql, Kubernetes informers; SkyWalking's context, synchronous hooks, streams,
   queues, databases, connections and meters.
3. (done) Proofs of every safety property of the passing runs, and of the refinement of
   ImplicitParent.
4. To come, should the prover learn it: liveness, from the invariants that are proved.
5. Where a proof asks for a strengthening, it becomes an invariant of the module and takes the
   place of the plainest one of its run.
