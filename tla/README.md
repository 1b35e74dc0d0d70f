# Verification of the webhook registry

TLA+ models of the service in `src/`, the TLC runs that check them and the TLAPS
proofs about them. The service accepts events over HTTP, matches each against the
registered subscriptions, and delivers it to every match by HTTP POST, with
retries, a recovery sweep and at-least-once semantics.

## The system

| Component | State | Operations | Correct when |
|---|---|---|---|
| Event ingestion (`application/event-service.ts`) | the event table | `ingest`: validate, save, dispatch, answer 202 | an accepted event is dispatched |
| Dispatcher (`application/dispatcher.ts`) | the delivery table, `inFlight`, `scheduledRetries` | `dispatchEvent`, `materializeDelivery`, `attemptDelivery`, `scheduleRetryAttempt`, `resumeDelivery`, `whenIdle`, `cancelScheduledRetries` | one row per match before the first POST; every row ends delivered or failed; the row tells the truth; the attempt budget holds |
| Delivery model (`domain/delivery.ts`) | one record | seven pure transitions | rows only make legal transitions |
| Retry policy (`domain/retry-policy.ts`) | none | `classifyOutcome`, `hasAttemptsRemaining`, `computeBackoffMs` | a delay lies between half the capped window and the window |
| Recovery sweep (`application/recovery.ts`) | `running`, two snapshots | `runOnce`: reclaim stuck rows, resume due rows | it reaches all abandoned work, and no other |
| Repositories (`infrastructure/memory`, `infrastructure/dynamodb`) | the tables | `save` (replace the whole item), `get`, queries | - |
| Webhook client (`infrastructure/webhook-client.ts`) | none | `send` with a timeout, never throws | - |
| Target guard (`domain/target-url.ts`, `infrastructure/ssrf-guard.ts`) | none | `validateTargetUrl`, `assertAllowed` | a host is allowed exactly when every address it is judged by is outside of the internal ranges, as it is written |
| Delivery queries (`application/delivery-service.ts`, the lists of the repositories) | none | `list`, `listPendingDue`, `listStuckDelivering` | both stores list the same rows, no index hides one |
| Subscriptions (`application/subscription-service.ts`, `domain/subscription.ts`) | the subscription table | `create`, `replace`, `delete` | a row is whole and keeps its creation time; a deleted one stays deleted |
| Matching (`application/matching.ts`) | none | `findSubscriptionsForEvent`: a paged Scan, filtered | a subscription that matches all along is not missed, a deleted one is not found |
| Shutdown (`index.ts`, `container.ts`) | `shuttingDown`, the failsafe and drain timers | close, drain, exit | the process ends, and waits for what it has started |
| HTTP (`http/server.ts`, `router.ts`, `problem.ts`, `handlers`) | per request: the chunks read, the promise of the body | `readBody`, `route`, `match`, `writeResult` | handlers see whole bodies only and the id of the path; every request that parses is answered |
| Configuration (`config.ts`) | none | `loadConfig` | it rejects what it cannot use, and never replaces it by a default |
| Provisioning (`provision.ts`, `infrastructure/dynamodb/ensure-tables.ts`, `table-schema.ts`) | the deadline, the table it is at | `ensureTables` in a loop | it completes only when every table is ready, uses an endpoint that comes late, ends, and never touches AWS |
| Startup (`index.ts`) | the server | `loadConfigOrExit`, `listen` | the composed service finds its tables |
| Logging, ids, other input validation, scripts | - | - | - |

Everything runs in one Node process, so code between two awaits is atomic and
everything else interleaves. The parts meet in the delivery table: a request's
dispatch, the retry timers and the sweep all read a row, await something, and
write the row back whole. There is no lock and no conditional write.
`resumeDelivery` is called both by retry timers and by the sweep. The timers live
in memory only; the table survives a crash.

What is hard here: two runs of one delivery at a time; copies of a row that are
older than the row when they are saved; snapshots saved late; saves that reject
but were applied; a crash between any two steps; a late answer racing the stuck
threshold; requests that write back a subscription another one has deleted; stale
scans and indexes; a process that exits among attempts nobody awaits; the events of
a stream in any chunking; provisioners that meet half-made tables. `PROJECT.json` lists these hazards at their lines.

## Modules

| Module | Models | |
|---|---|---|
| `RetryPolicy` | `retry-policy.ts` and the outcomes of `webhook-client.ts` | operators |
| `Delivery` | the record and the transitions of `delivery.ts`, the filters of the recovery queries | operators |
| `Dispatcher` | `event-service.ts`, `dispatcher.ts` | variables and actions |
| `Recovery` | `recovery.ts` | variable and actions |
| `WebhookService` | the two together, with time, crashes, fairness and the properties | specification |
| `DeliveryLifecycle` | the state machine at the head of `delivery.ts` | abstract specification |
| `WebhookServiceInv` | the inductive invariants | |
| `WebhookServiceProofs`, `DispatcherProofs` | the theorems, with the sweep and without it | |
| `SubscriptionRegistry`, `SubscriptionRegistryProofs` | `subscription-service.ts`, `subscription.ts`, `validateEventType`, `matching.ts`, the subscription repositories | specification, theorems |
| `SubscriptionLifecycle` | what clients are promised of a subscription when nobody sends a PUT | abstract specification |
| `Shutdown`, `ShutdownProofs` | `shutdown` of `index.ts`, `drain` of `container.ts`, `whenIdle`, `cancelScheduledRetries`, `stop` | specification, theorems |
| `Router` | `router.ts` and the routes that `container.ts` and `handlers/` register | operators |
| `HttpRequest`, `HttpRequestProofs` | `server.ts`, `problem.ts` | specification, theorems |
| `Config` | `loadConfig` of `config.ts` | operators |
| `TableSchema` | `table-schema.ts`, and which indexes the repositories query | operators |
| `Startup`, `StartupProofs` | `provision.ts`, `ensure-tables.ts`, the start in `index.ts`, the order in `docker-compose.yml` | specification, theorems |
| `TargetGuard` | `target-url.ts`, `ssrf-guard.ts` | operators and theorems |
| `DeliveryQueries` | the lists of both delivery repositories | operators and theorems |
| `MCWebhookService`, `MCSubscriptionRegistry`, `MCShutdown`, `MCHttpRequest`, `MCStartup` | the instances that TLC checks | |

The four specifications meet where the code does, each abstracting what another
details: `Dispatcher` takes the result of the matching as any set, which
`SubscriptionRegistry` details; `Shutdown` takes an attempt as one stretch of time,
which `Dispatcher` details, and an open request as one state, which `HttpRequest`
details. `Startup` composes `Config` and `TableSchema`; `RunningConfigIsSound` is what
the assumptions on the constants of the other modules ask of a configuration.
`DeliveryQueries` shows that the lists `Recovery` takes from the rows are what either
store answers.

### State of `WebhookService`

* `events[e]`, `rows[d]`: the two tables. A delivery `d` is a pair of an event and
  a subscription, since `materializeDelivery` makes one per match. `rows[d]` is the
  record of `delivery.ts`, or `Null`.
* `dispatch[e]`: where `ingest` and `dispatchEvent` are for an event, and which
  deliveries `Promise.allSettled` still waits for.
* `runs[d][s]`: the activations of `resumeDelivery` and `attemptDelivery` for `d`,
  each at the await named by its `pc` and holding its own copy `mine` of the row,
  or waiting as a retry timer (`backoff`). `Slots` bounds how many there may be.
* `sweep`: where `runOnce` is, the reclaimed copies it has still to save, and the
  rows it has still to resume. `pc # "idle"` is the `running` flag.
* `index[d]`: what the `status-index` of DynamoDB holds of each row. `Replicate` copies
  the row into it at any time, so that it may skip contents and stay behind. With
  `LaggingIndex` the two lists of the sweep read it in place of the table, and the
  reclaimed copies are computed from it; `get` is a consistent read and is not
  affected. Without, the lists read the table, as the in-memory store does.
* `heard`, `posts`: history, for the properties only. What subscribers, guard and
  event table answered, and how many POSTs were sent.
* `faults`, `crashes`: how many have happened.

An action is what the code does from one await to the next, as the map in
`PROJECT.json` says line by line. The saves of both repositories replace the whole
item unconditionally, which is `Save`.

### Abstractions

* Time is relative: `nextAttemptAt` is the number of ticks until the attempt is
  due, `lastAttemptAt` the number of ticks since it began, counted up to
  `StuckThreshold`. `Tick` moves every row, copy and snapshot at once. This keeps
  the state space finite without a bound on time.
* A tick does not pass an await whose timeout has run out: the webhook client's
  abort timer has fired by then. `StoreTimeout` bounds the two saves of an attempt
  in the same way; the code sets no such limit, the AWS SDK does.
* The subscription table is abstracted: `Match` returns any set of subscriptions.
* A query with a limit returns any batch of that size. The code returns the
  longest overdue first, which is one of them.
* A rejected store call may or may not have been applied.
* Jitter is a choice among all the delays that `computeBackoffMs` may return.
* A crash restarts the process at once, on a durable table (`PERSISTENCE=dynamodb`).
  With `memory` a crash loses everything and there is nothing to recover.
* `createdAt`, `updatedAt`, `completedAt`, `lastStatusCode` and the wording of
  `lastError` are left out; no decision reads them.
* The index lags row by row. A list reads all rows at one instant: its pages add
  nothing that an older content of single rows does not.

### The other specifications

* **`SubscriptionRegistry`**: `requests[r]` is a POST or PUT at the await its `pc`
  names (`guard`: the lookup of the target; `save`), with the row it read and the
  row it will write. A DELETE is one store call. `scans[e]` is a published event
  whose Scan reads one row per step, from the table or, with `LaggingScan`, from
  a `replica` that catches up row by row. `gone` and `owed` are history: the ids
  answered 204, and those that have matched at every instant of a scan. A type is
  a sequence of pieces, one of them the wildcard. An id is the POST that made it.
* **`Shutdown`**: `task[d]` is one delivery: open request, attempt, backoff, pending
  without a timer, or settled. `tracked` is membership in `inFlight`, `awaited` what
  `whenIdle` found in it. `phase` goes from running through closing (the server
  waits for its open requests) and draining to exited. Time is in ticks left. The
  sweep has its two phases: between its queries it is `reclaiming`, which `stop` does
  not end.
* **`HttpRequest`**: `stream` emits chunks, an end or a loss while `stage` follows
  `handleRequest`; `body` is the promise of `readBody`. Requests share no state in the
  server, so there is one, chosen at the start. The body is not chosen in advance:
  each `Data` adds a chunk. What a handler does is free among what its service
  returns and throws. A path is the sequence of its segments; percent-decoding is a
  function on segments that may throw. Node's parser hands over methods in upper
  case already.
* **`Startup`**: `prov[p]` is one run of `provision.ts`: the table it is at and the time it
  last saw on the clock, in seconds up to just beyond its deadline. `tables` are the tables
  at the endpoint, each `creating` or `active`; CreateTable of one that exists changes
  nothing. `env` is one environment for all processes, with values classed by what
  the reader of the key makes of them (unset, blank, unreadable, or read). An endpoint
  that does not listen rejects a call with any code, retried or not. A call
  may fail although it was applied, a process may be killed and run again, and the
  endpoint may come late or never. Two tables may be given the same name, which
  nothing rejects: `AppFindsItsTables` leaves that case out.

## Runs

| Run | Instance | Shows |
|---|---|---|
| `race` | 1 delivery, 2 runs at a time, 2 attempts, 1 fault, sweep on, lagging index, T = W | types, the attempt cap, no illegal transition, no row that recovery cannot find, delivered and failed only for a cause, even where the sweep reclaims attempts that are still under way, or rows that have moved on |
| `alone` | sweep off, 2 subscribers, 2 faults, 1 crash | one run per delivery, no stale copy, all POSTs counted, rows before POSTs, the refinement of `DeliveryLifecycle`; without a failure every accepted event is driven to its end |
| `settle` | sweep on, W = 1, S = 0, T = 2, 1 fault, 1 crash | every row ends delivered or failed, for good; every sweep ends; `StuckMeansAbandoned`. With T = 1 = W + 2S it fails: the bound is tight |
| `batch` | 2 rows, a batch limit of 1, 1 fault, 1 crash | the rows a batch leaves out are settled too |
| `terminal_overwritten` | sweep on | found: a finished row is overwritten |
| `registry` | 1 POST, 2 PUTs, 1 DELETE, 1 event, lagging Scan, 1 fault, 2 instants, wildcards written by clients | whole rows, constant creation times, resurrection only by a race |
| `delete_is_final` | 2 POSTs, 2 DELETEs, 1 event, consistent Scan, 1 fault, no PUT | the refinement of `SubscriptionLifecycle` (opened once, closed for good, by one 204 at most), no delivery after a 204, no match missed |
| `put_revives` | with a PUT | found: a deleted subscription is back |
| `drain` | 2 deliveries, sweep on, any backoff | the drain awaits what the dispatcher had started; exit code 0 means a drain came to its end; the process exits, whatever clients do |
| `sweep_cut` | sweep on | found: an attempt of the sweep is cut off by an idle exit |
| `http` | 14 paths, 5 methods, bodies of 0 to 4 with a limit of 2 | whole bodies, bounded buffer, the right id, every request answered |
| `provision` | 2 provisioners, an endpoint that comes or not, 1 fault, 1 kill, 123 environments | tables ready before the service, a sound configuration that is the one given; provisioners end, and the stack comes up, also when the endpoint comes during the last sleep before the deadline or after it |

(W = `WebhookTimeout`, S = `StoreTimeout`, T = `StuckThreshold`.)

**Bounds.** Two attempts are a first and a last one; every comparison with
`MaxAttempts` is met on both sides. Two runs are what it takes for one to
overwrite the other; the sweep's snapshot is a third writer. One fault and one
crash may fall at any step, and the fault before, during or after the crash. `race` has the
index in place of the crash: a content that the index missed and a copy that a crash
discards are both copies of the past, and `IInv`, which the proofs carry through
crashes, covers every one of them. Its two runs are interchangeable, which is
the symmetry it uses.
A delay is at least one tick, and a sweep may fall before, with and after it.
Four status codes give one answer of each class, and both ways to be retryable.
`settle` uses one status code that ends a row and one that is retried, all that
`EveryRowSettles` can tell apart; `batch` uses one code and one attempt, and is about
the rows that a list leaves out. In the registry a DELETE may fall between any two
steps of either PUT; the two URLs are interchangeable, and so are the two PUTs,
which is the symmetry the run uses; two instants are what it takes for stamps to differ. In
`Shutdown` an attempt may outlast the drain (3 ticks against 2), end in it or be
cut, backoffs are shorter and longer than it, and the failsafe (4) may fall before,
in and after the drain. A body may stay below the limit, meet it, pass it by one
chunk or by several. An environment of `provision` has one key at a value below, at
or above each of its bounds, blank or unreadable, or both delays in every order; the
deadline is one second, which a look at the clock may fall before, at or after.

**Fairness.** `Fairness` is weak, and on program steps only: the event loop gets
round to whatever is ready, store calls, lookups and timed POSTs end, timers and
the sweep's interval fire, the index catches up, the clock moves. Nothing is assumed about events being
published, faults or crashes. Fairness of `RunStep` is for each run as a whole: a
run moves on, but which answer it gets is free, so a subscriber may refuse forever.

In `Shutdown` fairness covers attempts, which end by their timeouts, the callbacks of
`close` and of the two timers, and the clock; not clients, signals, retry timers or
the sweep. In `HttpRequest` it covers the server's steps and the handlers, and that
a request ends or is lost, since Node cuts off a request that is not complete after
its `requestTimeout`. In `Startup` it covers the steps of a provisioner that runs, the
services docker-compose starts, and that a table that is being created gets
ready; not the endpoint, faults or kills. `SubscriptionRegistry` states no liveness.

**The violations.** The sweep and the dispatcher share rows without a lease or a
conditional write, and a new row is due at once (`nextAttemptAt` is its creation
time), so a sweep may resume a row whose own dispatch has not marked it yet. From
there two runs read `pending`, both attempt, both count the same attempt, and the
slower one writes last (`terminal_overwritten`). With the sweep on,
`OneRunnerNoStaleCopy`, `PostsAreCounted` and `AcceptedNeverFailed` fail for the same
reason, and a subscriber may be sent more than `MAX_DELIVERY_ATTEMPTS` POSTs; they
are stated of the dispatcher alone (`RECOVERY_INTERVAL_MS = 0`), and what holds with
the sweep is `race`.

`PUT` reads, awaits and saves unconditionally, so it undoes a DELETE
(`put_revives`); `delete_is_final` and `ResurrectionNeedsRace` say when that cannot
happen. `drain` knows what the dispatcher tracks: the attempts of a sweep in
progress are awaited by nobody (`sweep_cut`).

**Conditions that the passing runs and the theorems depend on**, each of which the
code leaves open:

* `loadConfig` compares no threshold with a timeout (`config.ts:192`); with T at most
  W + 2S the sweep may reclaim a live attempt, and `race` shows what holds then.
* An event saved but not materialised when the process dies is not recovered, since
  recovery reads rows and not events (`dispatcher.ts:129-136` says so), hence the
  condition in `AcceptedEventIsDelivered`.
* A request target that `new URL` cannot parse rejects outside of the try block of
  `handleRequest` (`server.ts:37`) and is never answered: `HttpRequest` models it (`Begin`),
  and `http` gives `EveryRequestAnswered` for targets that parse only.
* `dynamodb-repositories.ts:21-23` says that recovery re-checks a delivery's status by a
  consistent read. `resumeDelivery` does; a reclaim does not, and with a lagging
  index it may take a row that has long been delivered for a stuck one. The
  safety properties of `race` hold all the same. `StuckMeansAbandoned` and the liveness
  runs are about lists that read the table.
* `ensureTables` accepts a table that exists whatever its keys and indexes are; in `Startup`
  every table was made from the same definitions.
* `ports.ts:60` promises the deliveries in the order of insertion, which a Scan does not
  keep; `DeliveryQueries` compares the lists as sets.
* The DynamoDB Scan is not a consistent read (`dynamodb-repositories.ts:85`), so with
  `LaggingScan` a subscription may be found after its DELETE was answered, and one
  may be missed that was created, or given the type, before the event was
  published (`matching.ts:34-37` admits it). `NoDeliveryAfterDelete` and
  `NoMatchMissed` are about a consistent Scan.
* The repository contradicts itself about wildcards. `README.md:212` and the head
  of `matching.ts` say that there are none; `matching.ts:49` compares with one, and
  `matching.test.ts:135-205` requires `order.*` to match `order.updated`, on rows saved
  straight into a repository; `validateEventType` (`validation.ts:84`) refuses `order.*`
  to every client. `Matches` is the comparison as coded, `validateEventType` the
  refusal, and `WildcardsAreOutOfReach` is what follows: through the API no
  subscription is matched by a wildcard. Which of the three is meant is not for a
  model to say, so no run checks one of them.
* A mapped IPv6 address has two writings. `ssrf-guard.ts:95` knows the dotted one
  (`::ffff:a.b.c.d`), which the resolver writes; `new URL` (line 30) writes a literal in
  hexadecimal, which is judged by its first hextet, 0. So a mapped literal is allowed
  whatever its IPv4 address is (`MappedLiteralIsNotUnmapped`), although the head of the
  file means to reject the internal ones. `AllowedIsOutside` holds of addresses as
  they are written, and says nothing of the IPv4 address behind a hexadecimal text,
  nor behind other ways to embed one (NAT64, `::a.b.c.d`), which the file calls out of
  scope or does not name.
* `provision.ts:43` retries three codes. An endpoint that is not there with any other
  (`ENOTFOUND`, `EHOSTUNREACH`, `ECONNRESET`: `other` in `Codes`) fails the run at once,
  and with it the stack; `ServiceComesUp` and `LateEndpointIsUsed` are about an
  endpoint that listens, at the start or while the provisioner sleeps.
* `Startup` calls every endpoint that is set local, as the code does: `provision.ts:22`
  asks no more than whether there is one.
* A row's stamp is taken before its save (`subscription-service.ts:76`), so of two PUTs
  the earlier stamp may stay.
* A retry timer armed during the drain (`dispatcher.ts:296`) fires if its backoff is
  shorter than the drain; `QuietDrainStartsNoRetry` assumes longer ones.
* A path parameter that is no valid percent-encoding (`router.ts:116`) throws a
  `URIError`, answered with a 500; `InputIsNoFault` assumes parameters that decode.

## Proofs

`WebhookServiceProofs` proves, for all values of the constants that satisfy the
assumptions (those of `loadConfig`, a finite set of slots, and a `Null` that is no
number and no record):

* `Soundness`: `Spec => []IInv`. The safety properties speak of rows, but a row is
  replaced by whatever copy is saved next, so they are not inductive. `IInv` says
  the same of every copy that may still be saved: the one each run holds, with
  the status its await requires (`CopyFits`), and those in the sweep's snapshot.
  What was heard is never unheard, so a copy that was sound stays sound however
  late it is saved. This is why stale copies can lose updates but cannot make a
  row lie.
  The index is one more place for older contents, and is sound in the same way.
* From it, `TypeCorrect`, `AttemptsAreCapped`, `TransitionsAreLegal`,
  `UnfinishedIsVisible`, `DeliveredIsTrue` and `FailedIsTrue`.

It also proves `StuckIsAbandoned`: if `StuckThreshold > WebhookTimeout + 2 *
StoreTimeout` and the lists read the table, the sweep never reclaims an attempt that
is under way. `TimeInv` (`AttemptsKeepTheirTime`) adds to `IInv` that the age of the row plus the time its
attempt may still take never exceeds `WebhookTimeout + 2 * StoreTimeout`; a tick
adds one to the age and takes one from the time.

`DispatcherProofs` is about the dispatcher alone (`~SweepEnabled`, the code's
`RECOVERY_INTERVAL_MS = 0`), under every interleaving of requests, retry timers,
faults, crashes and restarts, for any number of events, subscriptions and slots:

* `AloneInvariant`: `Spec => [](IInv /\ AloneInv)`. `OneRunnerNoStaleCopy` says nothing of
  a run that is asleep, waits for its first read or has a save under way, so it is
  not inductive. `AloneInv` says for each await of a run what the row is at that
  moment (`RowFits`: the copy is the row while the run reads, looks up or posts;
  before the save of a mark the row is pending and one attempt short of the copy;
  before the save of an answer it is delivering, with the copy's count), that no
  delivery has two runs that are not idle, and that nothing has happened to a
  delivery before its event is dispatched (`RowsComeFirst`). An answer of 2xx leaves only a
  save of `delivered` to come (`SuccessIsKept`). It is inductive relative to `IInv`; TLC
  agreed on the instance of `alone` before it was proved.
* From it, `OneRunner`, `EveryPostIsCounted`, `AcceptedIsNotFailed` and `RowsPrecedePosts`.
* `DispatcherImplementsLifecycle`: the refinement of `DeliveryLifecycle`. Each save of a
  run is one legal transition of the row (`LegalSave`), since `AloneInv` tells what the
  row is when the save is applied; everything else, a lost save and a crash included,
  is a stutter. `TerminalStays` follows: what `terminal_overwritten` finds takes the sweep.

`SubscriptionRegistryProofs` proves `RegistryInvariant` (`RInv`: what is true of rows
is true of every old version and of every row a request may still save), and from
it `RegistryTypes`, `CreationTimeIsKept`, `StoredRowsAreWhole`, `OnlyRacesResurrect` and
`WildcardsAreOutOfReach`, the last because no stored type contains the wildcard. Without
PUTs and with a consistent Scan, `DeletionIsFinal` and `DeletionAnsweredOnce`: an id is
written once, so a row that was deleted has no writer left. `ScanMissesNone`: with a
consistent Scan, and with any PUTs, a row that matches throughout is found, because
what is owed to a scan is stored, matches, and is found or yet to be read
(`OwedIsAhead`). `RegistryImplementsLifecycle` is the refinement of
`SubscriptionLifecycle`, without PUTs and with a consistent Scan: it also covers the
DELETE that answers 500 although it was applied, and the POST that answers 500 and
has opened the subscription. `RInv` is all it needs: a POST that has still to save finds
no row under its id. With PUTs it is false, as `put_revives` shows.

`ShutdownProofs` proves `DispatcherIsDrained` without further conditions: each attempt
of the dispatcher that began before the drain is one `whenIdle` awaits or has
ended. If the sweep is off and every backoff exceeds the drain,
`QuietDrainCutsNothing` and `QuietDrainStartsNoRetry`: no timer that is armed during
the drain has less time left than the drain itself. `CleanExits`: exit code 0 is never
the failsafe's. `ShutdownTypes`: no task has more time left than an
attempt or a backoff may take, and no timer or counter leaves its bounds.

`HttpRequestProofs` proves `BodyIsWhole` and `BufferIsCapped` for every chunking (as long
as the body is not too large, what is buffered is what arrived), `RoutesAreDisjoint`
(no path and method fit two routes, so `find` has no choice), and, if every segment
can be decoded, `InputIsNoFault`. `IdsComeFromThePath`: a handler that needs an id is
given the last segment of the path, because its routes end in the parameter.
`HttpTypes`: what is caught is one of the errors that are expected, and the error of
`requiredParam`, "a missing value here is a routing bug", is not one of them; its
invariant adds that a handler that needs an id has one.

`StartupProofs` proves `StartupInvariant`, for any set of environments and provisioners:
every table at the endpoint was made from the definitions of the configuration,
and every table before the one a provisioner is at is active. From it
`ServiceFindsItsTables`, `AwsIsLeftAlone`, `ConfigIsSound`, `ConfigIsAsGiven` and
`StartupTypes`.

`TargetGuard` proves, for all 2^32 addresses, that the comparisons of octets are the
blocks 127/8, 10/8, 172.16/12, 192.168/16, 169.254/16, 100.64/10 and 0.0.0.0
(`PublicIsOutsideTheBlocks`). An IPv6 address is its eight hextets and whether the
last two are written as an IPv4 address, since the code judges a text. `AllowedIsOutside`
says which hosts are allowed: there is an address to judge, and each is outside of
the blocks (IPv4, and mapped in dotted text) or of fe80::/10, fc00::/7, `::` and `::1`
(any other IPv6 text). `AcceptedTargetsAreOutside` says the same of the targets that are
stored. `MappedLiteralIsNotUnmapped` is its limit, see the conditions above.

`DeliveryQueries` proves, for every table and filter, that the index-backed lists and
the in-memory lists are equal (`ListsAgree`, `SweepFindsTheSameRows`), because the sort
key of every index is an attribute that no row lacks (`NothingIsHidden`).

Every invariant that a run checks, and every refinement, is a theorem. Only
model-checked: the liveness properties (`AcceptedEventIsDelivered`, `EveryRowSettles`, `SweepEnds`,
`ShutdownEnds`, `EveryRequestAnswered`, `ProvisionerEnds`, `ServiceComesUp`, `LateEndpointIsUsed`), which rest on
fairness and are outside the prover's reach, and that some delay is always in
`BackoffDelays` (that `2^n` is positive takes an induction), without which a failed
attempt would have no step and `EveryRowSettles` would fail. `NothingProvisionedOnAws`,
`DeletedOnce` and the inductive invariants (`IInv`, `TimeInv`, `AloneInv`, `RInv`) are proved and need
no run: TLC agreed with each of them before it was proved.

## Not modelled

Logging and its fields; the scripts for developers; ids, and the checks of single
input values other than event types and targets, which are tested by example; the
pages of the documentation; the parser of URLs, the AWS SDK and the resolver, which
are external; the order and the pages of the lists; the width of the retry timer (a
`RETRY_MAX_DELAY_MS` beyond 2^31 - 1 is accepted, and `setTimeout` fires at once); keep-alive connections, which may hold up `server.close` beyond the last request (in
`Shutdown` a client that keeps its request open stands for all that does).

## Plan

1. Done: the core (`Delivery`, `Dispatcher`, `Recovery`, `WebhookService`) and its proofs,
   the registry, the shutdown and the HTTP layer with theirs; then the lagging index,
   the batch limit, the configuration, the startup, the target guard and the lists.
2. Done: the dispatcher alone, with the refinement of `DeliveryLifecycle`; `NoMatchMissed`; the
   type invariants that were left; `SubscriptionLifecycle` and its refinement.
3. What the sweep adds to the POSTs: a bound on how many attempts can go uncounted
   when it does take a live attempt for an abandoned one, checked first on the
   instance of `race`.
4. An abstract shutdown (accept, drain, exit) that `Shutdown` implements when the sweep is off.
