# Verification of the NestJS microservice template

TLA+ specifications of the service in `src/`, the TLC configurations that check
them on small instances, and theorems that TLAPS proves for every instance.

## The system

The repository is a template for a microservice: an HTTP API over PostgreSQL
(the tasks module) and a messaging layer over NATS JetStream with idempotency
keys in Redis, plus health, metrics, logging and configuration around them.
Paths below are relative to `src/src/`.

| Component | State | Operations | Talks to |
|---|---|---|---|
| Message consumer (`shared/messaging/message-consumer.service.ts`) | map of active consumers, shutdown flag, one loop per subscription | `subscribe`, the loop (`consumeMessages`, `processMessage`), `unsubscribe`, `onModuleDestroy` | NATS service, JetStream, Redis, the caller's handler |
| Message producer (`message-producer.service.ts`) | none | `publish`, `publishBatch` | NATS service, JetStream |
| NATS service (`nats.service.ts`) | memoised connection, its promise, JetStream client and manager | `getConnection`, `ensureStream`, `ensureConsumer`, `isHealthy`, `onModuleDestroy` | NATS server |
| Redis service (`redis.service.ts`) | the client and its status | `getClient`, `ping`, `onModuleDestroy` | Redis |
| Prisma service (`shared/prisma`) | client and pool | connect, disconnect, queries | PostgreSQL |
| Tasks API (`modules/tasks`) | the `tasks` table | create, findAll, findOne, update, remove | Prisma, validation pipe, exception filter |
| Request pipeline (`app.module.ts`, `shared/interceptors`, `shared/metrics`, `shared/pipes`, `shared/filters`) | throttler counters, metrics registry, `request.id` | guard, interceptors, pipe, filter, per request | every controller |
| Health (`shared/health`) | none | live, ready, general | NATS, Redis, Prisma services |
| Bootstrap (`main.ts`) | shutdown timer | start, signals | all modules |
| Configuration (`config`) | the environment, once validated | `validate`, `environmentConfig` | bootstrap, every service that reads a setting |
| Logging, DTOs, generated client | none that changes | | |

How they interact: a producer publishes envelopes to a stream under their id as
the message id; the server drops repeated ids within its duplicate window. A
durable consumer per consumer group hands messages out to the pull requests of
any number of loops in any number of service instances. A loop validates the
message, asks Redis whether its idempotency key is known, calls the handler,
acknowledges and stores the key; on an error it hands the message back (`nak`),
and on the last delivery it publishes a dead letter and terminates the message.
An HTTP request passes the guard, the interceptors and the validation pipe,
reaches the tasks service, which makes one or two database calls, and ends in
an answer or, through the exception filter, in an error. A process starts with
`bootstrap()`; `MessagingModule.forRoot()` is imported by `AppModule` and by
`HealthModule`, which makes two instances of the NATS, Redis and consumer services.
A signal has two listeners: Nest's, which runs the `onModuleDestroy` hooks module
after module, closes the server and raises the signal again, and that of
`bootstrap()`, which starts the timer of the forced exit.

What is hard here, and hardly reachable by tests: loops of several instances
interleaving at every `await`; acknowledgements that are lost or late; handlers
that outlive the ack wait; a crash or a failing Redis between the handler, the
acknowledgement and the key; the number of deliveries, counted by the server and
by the service; the shutdown flag set while loops fetch; requests that interleave
between an existence check and a write; database calls that fail after they were
executed; hooks that release a connection while a loop or a probe still uses it or
makes another; timers that race each other at shutdown; settings that are validated
in one reading and used in another; dependencies that come and go between the checks
of one probe; statuses that are read before they are set. `PROJECT.json` lists each of these at its line.

### What makes each component correct

- **Consumer**: nothing acknowledged unhandled; each message handled by one
  consumer of a group at a time; every message settled; what is not handled ends
  in the dead letters, once, and nothing else does; a key handled once; every loop
  ends when its process shuts down.
- **Producer**: a confirmed publication is stored; a retry with the same key
  within the window is not stored twice; a failed batch has published a prefix; a
  confirmation is that of the event it is for.
- **NATS service**: one connection at a time; no call uses a closed one while a
  new one could be had; nothing is left open after the drain; two services that
  provision the same stream end with one configuration.
- **Tasks API**: every request behaves as if executed at one instant, and is
  answered.
- **Configuration and lifecycle**: a process serves only with the settings that its
  checks demand; when the shutdown is over what it holds is released and its requests are
  answered; it ends, unless a service never answers and nothing forces the exit, and by
  force only for a cause.
- **Request pipeline**: every request answered, and counted once; the request id of
  the answer is that of the request; nobody throttled for the requests of others;
  probes report what was the case.

## Modules

| Module | What it is |
|---|---|
| `JetStream` | the server: stream, duplicate window, durable consumers, acknowledgements on the wire (external, from how the services configure and use it) |
| `MessageConsumer` | `MessageConsumerService`, its processes and the faults around it; EXTENDS `JetStream` |
| `MessageConsumerProofs` | theorems that hold under every fault, or with one exception |
| `DeadLetterProofs` | theorems that hold where some faults are absent; EXTENDS `MessageConsumerProofs` |
| `DropCauses` | what can befall the last delivery of a message before a worker decides; EXTENDS `MessageConsumer` |
| `DropCausesProofs` | the theorem about it, under every fault; EXTENDS `DeadLetterProofs` |
| `Delivery` | what the messaging promises a consumer group, without loops, replies, keys and crashes; `MessageConsumer` implements it |
| `MCMessageConsumer`, `MCDropCauses` | instances for TLC |
| `TaskApi` | what the tasks API promises: every request executed at one instant |
| `Tasks` | controller, validation, service and exception filter, one step per database call; implements `TaskApi` |
| `TasksProofs` | theorems, among them the refinement |
| `MCTasks` | instance for TLC |
| `NatsService` | the connection of `NatsService` and its clients, `onModuleDestroy`, and the health checks that use them |
| `NatsServiceProofs` | theorems |
| `MCNatsService` | instance for TLC |
| `Publication` | what publishing promises a caller, without provisioning, ids and the wire; `MessageProducer` implements it |
| `MessageProducer` | `publish`, `publishBatch` and `ensureStream`, against a server whose answers may be late or missing |
| `MessageProducerProofs` | theorems |
| `MCMessageProducer` | instance for TLC |
| `Configuration` | `validate` and `environmentConfig`: two readings of the same texts; operators only |
| `Lifecycle` | one process: bootstrap, connections, probes and loops, signal, hooks, closing, forced exit; EXTENDS `Configuration` |
| `LifecycleProofs` | theorems |
| `MCLifecycle` | instances for TLC |
| `HttpPipeline` | guard, interceptors, handlers, health checks, exception filter and request counter for concurrent requests |
| `HttpPipelineProofs` | theorems |
| `MCHttpPipeline` | instances for TLC |

### MessageConsumer and the code

A *worker* is one call of `subscribe()` and the loop it starts. `pc[w]` is the
`await` the loop is suspended at; one step runs the code up to the next `await`,
as the JavaScript event loop does.

| `pc` | Suspended in | Actions |
|---|---|---|
| `idle`, `dead` | no loop; loop ended by an exception outside its `try` | `Subscribe` |
| `start` | `getJetStream()`, `consumers.get()` | `StartLoop`, `StartLoopFails` |
| `next` | `next({ expires: 5000 })` | `Deliver`, `NextExpires`, `NextThrows` |
| `backoff` | the pause of `handleConsumeError` | `ResumeLoop` |
| `received` | (chooses what to do with the message) | `Accept`, `Reject` |
| `check` | `isDuplicate`'s GET | `CheckDuplicate`, `CheckFails` |
| `handle` | the handler | `HandlerSucceeds`, `HandlerThrows` |
| `ack` | (handler done, loop not resumed) | `Acknowledge` |
| `mark` | `markProcessed`'s SET | `MarkProcessed`, `MarkFails` |
| `dlq` | the dead letter publication | `moveToDeadLetterQueue`, `DeadLetterFails` |

`Fail` is the catch block: `nak` below `maxRetries` deliveries, dead letters from
there on. `LoopTop` is the condition of the `while` loop. `consumers` and
`isShuttingDown` are the fields of the service, for all processes. `job[w].replied`
is the flag of the `JsMsg`, which sends only its first answer. `handled` and `dead`
are history. `Exit` is a crash, or the exit after `onModuleDestroy`; the wait of
five seconds there means that anything may still have been running.

`Faults` selects what the environment does, so that each property is checked
under the strongest environment in which it holds: lost deliveries and failing
fetches (`network`), lost acknowledgements (`reply`), failing Redis calls,
throwing handlers, work slower than the ack wait, failing dead letter
publications, expiring keys and message ids, failing starts, crashes, `unsubscribe`
and shutdown.

Abstractions: time (delays, waits and expiries may happen at any moment their
cause allows), payloads (`event`, `invalid`: refused by `validate`, `malformed`:
not JSON), one stream. A failing fetch and a delivery that is lost are separate
steps. `Subscribe` takes `ensureStream` and `ensureConsumer` as one step with the
registration: only `max_deliver` is observable in between. A dead letter that the
server stores although its publication fails has the effect of one that succeeds.
The stream's `max_msgs` limit is not modelled: the bound on messages stays below it.

`Delivery` is the abstract specification. Its events are open until they are settled
once; acknowledged only if handled; buried (dead-lettered) at most once; handled any
number of times. `Promise` in `MessageConsumer` is the mapping: statuses before the
final ones are `open`, and of `handled` and `dead` only the pairs that have one are
kept. That a dead letter may be missing is part of the promise: the code swallows the
failure of its publication.

### Tasks and the code

`pc[c]` is the place of a client's request: `pipe` (validation), `find`
(`findUnique`), `list` (`findMany`), `write` (create, update or delete). Errors
are the code's exceptions (`NotFoundException`, `BadRequestException`, Prisma's
`P2025`, validation and unknown errors) and `HttpStatus` is the exception
filter's mapping. `DatabaseError` is a call that fails, executed (`Executed`) or
not. Tasks keep a required column (`title`) and one with a default (`status`);
`priority` and `description` take the same paths. Query parameters are not
validated by the pipe (they are strings), so that an unknown status reaches
Prisma and is answered with 500; so is `null` for a required column in an update,
which `@IsOptional` lets pass. `TaskApi` states both in `Refused`.

### NatsService and the code

`connection`, `connectionPromise`, `jetStream` and `jetStreamManager` are the fields;
each holds the identity of the connection it belongs to. `conns` is what the client
library knows of each: connecting, open, reconnecting, draining, closed. A call is
of a *kind*: one that publishes (`getJetStream`), one that provisions
(`getJetStreamManager`), or a probe (`isHealthy` under `checkReadiness` or `check`).

| `pc` | Suspended in | Actions |
|---|---|---|
| `idle` | no call | `Call`: `UseClient`, `UseConnection`, `JoinConnect`, `StartConnect` |
| `connect` | `connectionPromise` | `Connected`, `ConnectFails`, for all that wait |
| `manager` | `jetstreamManager()` | `ManagerMade`, `Failed` |
| `request` | a request with the client | `Answered`, `Failed` |

`hook` is `onModuleDestroy`. `report` is what a call ended with; `Report` is the
outcome of the two checks, given whether NATS and the database answered. A server
that is slow beyond the request timeout is one that is away. Connection identities
are reused when nothing refers to them any more. Memory and Redis checks are left
out: a Redis failure never fails the general check.

### MessageProducer and the code

A publisher is a caller of `publishBatch` (`publish` is a batch of one) that may try
again when it threw. `pc[p]` is its `await`: `info`, `update` and `add` of
`ensureStream`, `send`, and `confirm` for the answer to the publication. A failing
`info` or `update` continues with `add`, a failing `add` ends the batch; a request
may be executed although its answer is missing. `wire` holds publications, late ones
too; `ids[p]` are the message ids the batch has collected, as positions of `log`.
Streams have the two subjects of their configuration; the server refuses subjects of
another stream. Keys, stream names and subjects are given per event and publisher:
what `getStreamName` and `getSubject` do to a name shows in which of them coincide.
`max_msgs` and `maxLength` (which nothing uses) are left out.

`Publication` is the abstract specification: an attempt begins anew (`Restart`), an event is
stored after those before it in its batch, a keyed one only if its stream has not got it or
has forgotten it since (`Put`), and the next event of an attempt is confirmed with its own
message, a new or an earlier one (`Put`, `Repeat`). The mapping hides who published, the ids,
and what the server still knows: `forgotten` are the keys that have expired and are not known
again, so each key that is forgotten permits one more message.

### Configuration and the code

A numeric variable is a text of some *form*: absent, empty, blank, digits, with an
exponent, or no number. `validate` converts it as class-transformer does (`Number()`),
`environmentConfig` with `Number.parseInt`, and an `.env` file's variables are written
back as digits in between: `1e4` is ten thousand to one and 1 to the other, a blank
text is 0 to one and `NaN` to the other. Of the numbers `PORT` and `SHUTDOWN_TIMEOUT`
are kept, the two that decide about the process; of the other texts the ones that
`validate` insists on in production and staging.

### Lifecycle and the code

`boot` is how far `bootstrap()` got, `stage` how far Nest's shutdown got. `standing`
are the modules whose hooks are still to be called and `hooks` the running ones, as
pairs of a module and a service: Nest calls the hooks of one module together and
awaits them before the next module's. `Database` is the module of `PrismaService`.

| Code | Actions |
|---|---|
| `NestFactory.create`, `app.listen` | `Create`; `Connect`, `ConnectFails` (`PrismaService.onModuleInit`); `Listen`, `ListenFails` |
| signals, `bootstrap()`'s listener | `Signal` |
| `onModuleDestroy` of the consumer, NATS, Redis and Prisma services | `Destroy`, then `WaitEnds`, `DrainEnds`, `DrainFails`, `QuitEnds`, `QuitFails`, `Disconnect` |
| Nest's `dispose`, the second raising of the signal | `Dispose`, `CloseServer`, `Raise` |
| the end of the process | `Exit`, `ForceExit` |
| a probe, as far as it makes a NATS connection | `Arrive`, `ProbeChecks`, `Answer` |
| a subscription's loop, as far as it keeps the process | `Subscribe`, `BeginLoop`, `Fetch`, `EndFetch`, `EndHandler` |

`Alive` is what keeps Node's event loop going. Time is counted down in units of five
seconds, the consumer's wait, so that the default timeout of ten seconds is two.
`Tick` passes a unit when the process has no step of its own to make (`Due`): what the
process does itself takes no time, what it waits for (`Waiting`) any. Two histories
serve the properties: `slowed`, that time passed while something outside was waited
for, and `late`, the connections that were made after the hook to drain them.

Nest's own behaviour (order of hooks, listeners, removal of the listeners before the
signal is raised again, `process.exit(1)` when a hook rejects) is taken from how
`main.ts` uses it (`enableShutdownHooks`) and marked external where no line of `src/`
states it.

### HttpPipeline and the code

`phase` is how far a request got: arrived, past the guard (`Admit`), answered.
`Intercepted` folds the interceptors in the order of registration, after Nest has set
the status of success; what they do with the result happens in `Return`, or in `Throw`
together with the exception filter, `Catch`. The throttler counts by client and handler
(`Key`) and a hit expires at any time. `NoRoute` and `Throttle` answer before any
interceptor. A probe's checks are steps of their own (`Check`) while dependencies
change; `Soft` are the checks whose failures the probe catches, and a failed NATS or
Redis check throws a plain `Error`, which the health check service passes on when the
other checks have ended, while the database and memory report.

`up` are the dependencies that answer in time, `link` the connections that the process
keeps to NATS and Redis. NATS and Redis are asked through them: the check of NATS takes
the memoised connection, making one only if there is none (`Connecting`, `Connect`),
that of Redis wants the client to be ready. A connection is lost some time after its
server (`Lose`) and regained some time after the server is back (`Regain`), so that a
check can fail while the server is up; NATS connections may be closed for good (`GiveUp`).
`away` is what a check would fail for. `met[r]` is a history, what of the dependencies
of r's probe was away, each time, while r was handled; `fallen` another, what has ever
been down. The handlers of tasks return or throw here; `Tasks` has what they do.

## Runs

Bounds are chosen so that every action fires and two workers (or clients) can
meet in every pair of steps; two deliveries (`RetryOnce`) are the fewest with a
retry and a last delivery.

| Run | Instance | Shows |
|---|---|---|
| `consumer_faults` | two instances, one worker each in one idempotent group, one message, every fault, fair | `TypeOK`, `AckedWasHandled`, `DeadLetteredOnce`, `DroppedForCause`, `LoopsEndAtShutdown`, `ImplementsDelivery` |
| `consumer_settles` | two loops of one instance under one key, two messages, lost replies, failing handlers and Redis, fair | `ProcessedByOneConsumer`, `NoSilentDrop`, `TermedAreDeadLettered`, `EventuallySettled` |
| `consumer_idempotent` | one worker, two messages that may carry the same id, lost replies, slow handlers, expired message ids, unsubscribe | `HandledOncePerKey`, `OnlyFailedAreDeadLettered` |
| `tasks` | two clients, two ids, thirteen requests, failing database | `TasksTypeOK`, `RemovedOnce`, `ImplementsApi`, `Answered` |
| `nats` | two callers, two connection identities, server and database away twice in all, fair | `TypeOK`, `OneConnection`, `ClientsOfTheConnection`, `WaitsForTheAttempt`, `ReadyAgain` |
| `producer` | two publishers of `orders` sharing an event with a key, one of them with two events and two tries; one of `orders:dlq`, one of `orders_dlq`, each with one event | `TypeOK`, `ConfirmedIsStored`, `StoredOncePerKey`, `BatchInOrder`, `ProvisionedBeforePublish`, `ImplementsPublication` |
| `lifecycle` | two instances of `MessagingModule`, one with a subscription, seven environments (longer and shorter timeouts, texts read in two ways, refused ones), every connection fails, fair | `TypeOK`, `ServesConfigured`, `ReleasedBeforeRaise`, `ForcedForCause`, `ShutdownEnds` |
| `http` | two requests of five kinds from two clients, limit one, one outage of NATS or the database, fair | `TypeOK`, `Traceable`, `CountedOnce`, `ProbesAreTrue`, `ThrottledAlone`, `EveryRequestAnswered` |
| `dead_letter_after_success` | a failing SET on the last delivery | violated: a handled, acknowledged message is dead-lettered |
| `dead_letter_malformed` | a payload that is not JSON | violated: terminated without a dead letter |
| `groups_share_keys` | two idempotent groups | violated: the second group skips the first one's event |
| `metrics_status` | one request whose handler throws | violated: counted with the status of success |

The last four contrast what a document or comment of the repository says with
what the code does; `PROJECT.json` quotes them under `findings`.

In `nats` a third connection could only be made once one of the two is forgotten,
when its identity is free again; two outages are enough to lose a connection and to
fail the attempt that follows. In `producer` the subject of `orders:dlq` is the dead
letter subject of `orders`, so that provisioning is refused, and `orders_dlq` gets
the same stream name as `orders:dlq`, so that the two overwrite each other; the
publishers of `orders` meet both while their own calls fail or are lost. Producer
properties are safety only: that a call ends is the request timeout of the library.

`consumer_faults` allows everything at once with one message: messages share
nothing but their keys and stream order, which `consumer_settles` and
`consumer_idempotent` exercise with two. Its two workers are in two instances, so that one
can crash or shut down beside the other; those of `consumer_settles` are two loops of one
instance under one key, which `subscribe()` after `unsubscribe()`, or a second `subscribe()`,
leaves. In `lifecycle` two
instances are what the repository has; three units of timeout are the first that cover
the waits of both, so that both sides of `ForcedForCause` happen. In `http` two requests
suffice for one to be throttled by the other or not, and one outage (`MaxOutages`) for a
dependency to go and come back within a probe, or before it with the connection still lost
or closed for good; Redis begins not connected, which is an outage of its own. The liveness
probe has one check that never fails in the instance and is left out of it; the process of a
`Lifecycle` and the request of an `HttpPipeline` may stop for good, hence
`CHECK_DEADLOCK FALSE` there and in `producer`, whose publishers finish. Each property of a passing run has a
mutant of the code it must catch; the mutants stand in the modules before the
definition they change.

### Fairness

- A worker's steps and a subscription that a starting service makes are weakly
  fair: the event loop runs continuations, handlers, Redis calls and fetches
  settle (a fetch expires after five seconds).
- Replies that are not lost arrive; ack waits expire and deliveries are counted
  (`AckWaitExpires`, `GiveUp`): the server does so on timers.
- `LoopsEndAtShutdown` takes these together: a loop in a handler or a fetch gets to the
  loop condition. Subscriptions may be repeated in the shutdown, as often as they like.
- Nothing is fair that callers or faults do: `Publish`, `unsubscribe`, crashes,
  failing calls. Handlers and Redis calls may fail forever; the number of
  deliveries still bounds every message.
- In `NatsService` connection attempts and requests end (`timeout`), the library
  reconnects when the server is there (it retries on a timer), a drain ends, and the
  readiness probe comes again and again: it is called periodically, and only ever
  disabled while its previous call runs, hence strong fairness. Outages and recoveries
  are not fair; `ReadyAgain` assumes that both stay up from some point on.
- In `Lifecycle` the event loop turns and its timers fire, a connection attempt to
  NATS and a request to it end by their timeouts, so that probes are answered, and a loop
  goes on when what it awaits is there. Nothing is assumed of handlers, of signals, of the
  first connection to the database, or of the answers to `drain()`, `quit()` and
  `$disconnect()` (`ServiceStep`), which have no timeout. `ShutdownEnds` holds because of
  the forced exit, and excepts the process that has none: before or without listening a
  hook may wait for its service for ever (`Unanswered`).
- In `HttpPipeline` the guard, handlers and checks end, with a result or an error, and so
  does the connection attempt that a check of NATS waits for: request and connection
  timeouts of the library. Nothing is assumed of outages, recoveries and reconnection.
- In `Tasks` the handling of each request is weakly fair: database calls return
  or fail.

## Proofs

`MessageConsumerProofs`, for any workers, processes, groups, ids, retries and
number of messages:

- `TypeCorrect`, from `TypeInv`: the type invariant with the fact that a busy
  worker's message is stored, without which the keys and histories that are
  indexed by it have no type.
- `NothingAckedUnhandled`, from `AckInv`: not inductive as it stands, since an
  acknowledgement on the wire settles the message much later. The invariant adds
  that every `ack` in flight, every worker at `ack` or `mark` and every stored key
  stands for a handled message.
- `DeadLettersAreUnique`, from `DeadInv`, assuming that the subscriptions of a
  group agree on `maxRetries`: a dead letter is published only on the delivery
  numbered `maxRetries`, which one worker at most holds, once.
- `OneConsumerAtATime`, from `PromptInv`, assuming `"slow" \notin Faults`: a
  delivery has one holder, a worker or a reply in flight, and the ack wait does
  not expire under it.
- `DeliveryImplemented`, with the assumption of `DeadLettersAreUnique`: each step of
  the consumers is a step of `Delivery` or changes nothing it sees. `AckInv` makes an
  arriving acknowledgement a permitted `Settle`, `DeadInv` a dead letter a first `Bury`.

`DeadLetterProofs`, for the same constants with named faults absent:

- `TerminationsAreDeadLettered`, assuming that dead letters can be built and published
  (`DeadLettersArrive`), from `TermInv`: a `term` on the wire has its dead letter.
- `NothingDroppedSilently`, assuming that every delivery reaches a worker that decides
  within the ack wait (`WorkersDecide`) and that keys belong to one message of one group
  (`OwnKeys`); from `DropInv`: a message whose deliveries are used up is accounted for or
  held by the worker that has the last one, which hands it back only before
  (`HolderDecides`). With `OneConsumerAtATime`'s invariant the server cannot give it up
  under that worker.
- `HandlesOnce` and `BuriesOnlyFailed`, assuming one worker that is not interrupted and
  keys that are kept (`OneWorker`); from `HandledInv`, that what was handled has its key
  stored or a worker on the way to store it, and `FreshInv`, that the message in the
  handler, or on its way to the dead letters, was not handled. Lost replies and
  deliveries, slow handlers, republished messages and unsubscribing are covered, so the
  gap between acknowledgement and key is harmless for one worker.

`DropCausesProofs`, for the same constants, every fault and any `maxRetries`:

- `DropsHaveCauses`, an action property from `TypeInv` and `AckInv`: a step that leaves a
  message that goes out no more with nobody to decide about it is one of the five that
  `Befalls` lists. The last delivery goes out to a worker or is lost (`LastGoesOut`),
  becomes the last one when a subscription lowers `max_deliver` (`Lowered`), and its holder
  keeps it, sees the message through, hands it back, fails to bury it or goes with its
  process (`LastHolderMoves`). `NothingDroppedSilently` is the case in which none of the
  causes can happen.

`TasksProofs`, for any clients, ids, titles and requests:

- `TasksTypeCorrect`, from `TasksInv`: what the place of a request says about it
  (it passed validation; which operations can be there).
- `TasksImplementTheApi`: the refinement mapping is the identity on the table and
  the requests; a step of the service is the API's step or leaves its variables
  alone. Each action has a lemma.
- `TasksAreRemovedOnce`: proved of `TaskApi` (`ApiRemovesOnce`) and inherited.

`NatsServiceProofs`, for any callers and connections:

- `NatsInvariant`: types, and who may be waiting for what: every connection that is
  not closed is the memoised one, and callers hold it or a closed one.
- `OneConnectionAtATime`, `ClientsMatch`, from it.
- `WaitsOnlyForAttempts`: no promise of an attempt that ended stays, and whoever waits
  does so for the attempt that is being made. It is inductive beside `NatsInvariant`
  (`AttemptKept`) and is the part of `ReadyAgain` that is a safety property: no call is
  left behind by a rejected attempt or a drain, so that fairness of attempts is enough.
- `NatsTypeCorrect`: its part of types.

`MessageProducerProofs`, for any publishers, batches, streams, tries and number of
messages:

- `ProducerInvariant`, `ProducerTypeCorrect`: an id on the wire or in the log is one
  that `publish` gives its event, and two entries of a stream share an id only if its
  window has expired in between.
- `KeysAreStoredOnce`, from it. `ProvisionsBeforePublish`, an invariant beside it:
  what other provisioners do to a stream between the configuration and the publication.
- `ConfirmsWhatIsStored`, `StoresBatchInOrder`: from `BatchInv`, assuming that callers use
  a key for one event (`KeysIdentify`) and, for the order, that a batch has no event
  twice (`BatchesDistinct`). Without the first the server's duplicate is another event.
  The order is that of events in the log: an event is there only after those before it in
  its batch. The ids a retry returns need not be in order: a key that has expired gets a
  new message, the next one's old message may still be known.

- `PublicationImplemented`, with `KeysIdentify`, from `BatchInv` and `Windowed`, that an id
  the server knows is in the log. A publication that arrives late, or again, is stored or
  confirmed only as `Put` and `Repeat` permit (`StoreIsPut`, `DuplicateIsRepeat`): its id
  tells its event (`IdsIdentify`, `KeyOrUUID`), and what precedes it in its batch was
  confirmed before it was sent (`Following`).

`LifecycleProofs`, for any number of `MessagingModule` instances, environments, timeouts
and faults:

- `LifecycleInvariant`: how far start and shutdown can be at a time (`Staged`), what a
  process that serves has gone through (`Served`), what a module whose hooks are called
  still holds (`Released`).
- `ServesOnlyConfigured`: what `validate` accepts, `environmentConfig` reads as wanted,
  though by other conversions: an origin and a database in production-like environments,
  and a port that is a number, whichever. `ReleasesBeforeRaise`, with the exceptions that
  `ReleasedBeforeRaise` names: a NATS connection that came after its hook or is closed for
  good, a pool whose disconnecting failed, a server that began to listen late.
  `LifecycleTypeCorrect`, assuming that no timeout exceeds the bound of the model.
- `ForcesForCause`, from a count (`Counted`): as long as no cause is there, each unit of
  the timeout that is gone was the wait of one consumer service, so that a forced exit
  without a cause needs a timeout of no more units than there are instances. A cause
  lasts once it is there (`Cause`).

`HttpPipelineProofs`, for any requests, clients, limits and dependencies that come and go
any number of times:

- `PipelineInvariant`: the ids that a request being handled carries, and for each check of
  its probe that has ended a set in `met` that has the dependency or has it not, as the
  check says (`HandlingInv`); what follows for an answered one (`AnsweredInv`); and that a
  lost or closed NATS connection means an outage at some time (`WorldInv`), which makes
  `fallen` the cause of every failure of a check that its probe does not catch.
- `RequestsAreTraceable`, `ProbesTellTheTruth`, `HttpTypeCorrect`, from it.
- `RefusedForItsOwn`, from `QuotaInv`: a hit that has not expired stands for a request of
  its key that was let through, so that the refused one is one more than the limit.
- `RequestsCountedOnce`, from `CountInv`: the counter's copies, told apart by number, are
  as many as the finished requests; `RecordAdds` says what `recordHttpRequest` adds.

Only model-checked: the liveness properties (`EventuallySettled`, `LoopsEndAtShutdown`,
`Answered`, `ReadyAgain`, `ShutdownEnds`, `EveryRequestAnswered`), which TLAPS cannot
prove (`WaitsOnlyForAttempts` is the safety part of `ReadyAgain`). Of the assumptions
above, those named `...Assumption` are evaluated by TLC on the instances; the others are
hypotheses of their theorems, which the runs that check the same property satisfy (`consumer_settles` those of
`NothingDroppedSilently`, `consumer_idempotent` those of `HandlesOnce`).

## Known limits of the code that the model shows

Besides the findings:

- A crash between the handler and the key has the message handled again:
  `HandledOncePerKey` excludes crashes, while `ARCHITECTURE.md` (428, 433) lets the key
  prevent double processing.
- A crash or a lost delivery on the last delivery drops the message without a dead
  letter: the server's count is used up and no worker decides. `NoSilentDrop`
  therefore is checked without `crash`, `network` and `slow`; with them `DroppedForCause`
  says that these are the ways a message is dropped, and that slow handlers, lost replies
  and failing Redis calls are none.
- With different `maxRetries` in a group the last subscription sets the server's
  `max_deliver`: `NoSilentDrop` and `DeadLetteredOnce` need equal ones. Two of the causes
  of `DroppedForCause` (`returned`, `lowered`) come of it; the run has equal ones and does
  not meet these two, the theorem covers them.
- A handler slower than the ack wait runs beside the next delivery;
  `ProcessedByOneConsumer` needs `"slow"` absent.
- The key is checked before and stored after the handler: two workers with
  republished ids can both handle the event, so `HandledOncePerKey` is checked with
  one worker.
- A dead letter that cannot be published is lost, and a loop that fails before its
  `try` block is never restarted.
- A connection that the library closed for good (`maxReconnectAttempts`) stays
  memoised: the service is unready until it is restarted. `ReadyAgain` excepts
  exactly this (`Stuck`).
- The probes ask NATS and Redis through the connections the process keeps: they fail while
  the servers are up as long as the client has not reconnected, and readiness for good once
  the NATS connection is closed. `ProbesAreTrue` therefore blames a dependency that was
  down at some time, not while the probe ran.
- `quit()`, `drain()` and `$disconnect()` have no timeout in the hooks: a server that never
  answers keeps a process that is not, or not yet, listening for good, as only
  `bootstrap()`'s listener, set after `app.listen`, forces the exit (`Unanswered`). In one
  that listens the exit is forced.
- `onModuleDestroy` returns at once while the connection is being made; that
  connection, and one that a call after the drain makes, is never drained.
- Logical streams whose names differ only in `:`, `.`, `_`, other special characters
  or case can share a stream name and not the subject: each `ensureStream`
  overwrites the other's subjects, and publications in between fail.
  `ProvisionedBeforePublish` excepts them (`OwnName`).
- A stream called like another with `:dlq` appended cannot be provisioned beside it.
- The two instances of `MessagingModule` wait five seconds each at shutdown, one after
  the other, which is all of the default timeout of ten: an idle process with the default
  settings is ended by force (last disjunct of `ForcedForCause`). The comment in
  `redis.service.ts` (9) calls the client a singleton; there are two.
- A bootstrap that fails (database away, port none) leaves a process that neither serves
  nor ends by itself: the `unhandledRejection` listener only logs, and Redis keeps the event loop.
  A hook that rejects ends the process before the remaining hooks are called.
- NATS is drained while the consumer service still waits for its loop, so that late
  acknowledgements may not go out; their messages are delivered again.
- `SHUTDOWN_TIMEOUT=1e4` passes validation and forces the exit after a millisecond, unless
  it stands in an `.env` file (and `PORT=1e4` is read as port 1); a blank `PORT` passes and cannot be listened on.
- The readiness probe answers 500, not the 503 that `test/app.e2e-spec.ts` (220) allows for,
  when NATS is away: the plain `Error` of its check is passed on.
- Probes and `/metrics` are throttled as any handler; behind a proxy all clients are one,
  as `trust proxy` is not set. Throttled and unrouted requests get no metric and no
  `X-Request-ID`.
- `/metrics` is wrapped in the JSON envelope by `TransformInterceptor`; Node's default
  metrics are announced in `metrics.service.ts` and not collected; `metrics.enabled` and
  `logging.enableConsole` are never read.
- `ARCHITECTURE.md` shows a delivery and three retries; the code makes three
  deliveries in all (`maxRetries` is `max_deliver`).

## Not modelled

- Environment variables beside those of `Configuration`: each is converted as one of the
  kept ones is, and none decides about the process.
- Acknowledgements on a connection that is being drained (`EndHandler`): the client
  library decides.
- `max_msgs` of a stream: the oldest messages go, whatever their status.
- The histogram and the exposition format of the metrics, the thresholds of the memory
  check, times and paths in envelopes and error bodies, and the log lines: wording and
  numbers no property is about.
- Priority, description and ordering in the tasks API: they take the paths of the columns
  and queries that are modelled. A priority filter that is no number ends in 500 as the
  invalid status does.
- `executeRaw`, `queryRaw` and `getDatabaseInfo` of `PrismaService`, and `maxLength` of
  the producer: nothing uses them.
- What ioredis, the NATS library, Prisma, Terminus and Nest do beyond what the services
  see of them. Their parts are marked external in `PROJECT.json`.
- The logger (output only), documentation DTOs, the generated Prisma client (generated code
  that passes queries on), containers, CI and migrations (no behaviour at run time).
