# RDispatch: TLA+ verification

RDispatch takes notification requests over REST, orders them by priority in
memory, publishes them to a NATS JetStream stream and delivers them through a
set of channels. This directory holds TLA+ models of that code, the TLC
configurations that check them on small instances, and TLAPS proofs of the
properties that matter most, for every value of the constants.

Paths below are relative to the repository; `queue.go` is
`internal/gateway/priority/queue.go`.

## 1. The system

```
client --POST--> handleSend --Push--> Queue --Pop--> drainQueue --Publish--> stream HERALD
                 (many goroutines)            (one goroutine)    ^             |
                                     re-queue on a failed publish               | Fetch / Ack
                                                                               v
                      channels <--Send-- retry.Do <-- handleMessage (delivery-worker processes)
                                              \--error--> dead letter queue (in memory)

run of each service: config.Load -> Connect -> (gateway: EnsureStream) -> servers -> SetReady(true)
                     -> serve -> SIGTERM -> (gateway: SetReady(false), Shutdown) -> exit
```

| Component | State | Operations | Hard part | Modelled in |
|---|---|---|---|---|
| priority queue, `queue.go` | the slice `items`, ordered as a binary heap | `Push`, `pop`, `TryPop`, `Len`, `siftUp`, `siftDown` | long sequences of operations must keep the heap property | `PriorityOrder`, `PriorityHeap`, `PriorityQueue` |
| blocking `Pop`, `queue.go` | `mu`, `cond`, one goroutine and one channel per blocked `Pop` | `Push`'s `Signal`, `Pop`'s select, its goroutine, `Broadcast` | windows between `Unlock`, `Wait` and `Signal`; leftover goroutines | `BlockingPop` |
| gateway, `internal/gateway/rest.go`, `cmd/gateway-api/main.go` | requests in progress, the queue, the item in `drainQueue`'s hands | `handleSend`, `drainQueue`, SIGTERM, `Shutdown` | failed and ambiguous publishes, re-queueing, shutdown | `Gateway` |
| delivery worker, `internal/delivery/worker.go`, `cmd/delivery-worker/main.go` | the message being handled, its position among channels and attempts | `Run`, `handleMessage`, `retry.Do`, `Ack` | crashes and restarts, lost acks, redelivery to another worker, cancellation between attempts | `Delivery` |
| retry, `pkg/retry/retry.go` | attempt, delay, result | `Do`, the options, `addJitter` | cancellation racing the timer, caps, boundaries | `RetryDo`, `FailurePath` |
| dead letter queue, `pkg/dlq/dlq.go` | a slice and its backing array | `Push`, `Drain`, `Messages`, `Len` | shifting inside an array that a caller may hold | `DeadLetterQueue`, `BoundedQueue`, `FailurePath` |
| channels, `internal/delivery/channels/` | none | `Send` | an HTTP answer lost after the receiver acted; a status read the wrong way; half a configuration | `DeliveryChannels` |
| services, `run` of both `main.go` | how far `run` is, its context, its HTTP servers | start, SIGTERM, crash | a worker before its stream exists, SIGTERM during the start, a server that cannot listen | `Services`, `System` |
| NATS helpers, `pkg/natsutil/natsutil.go` | the stream's configuration | `Connect`, `EnsureStream` | a broker that is away or goes away in between; retention, redelivery (external) | `Services`; the stream in `Delivery` |
| health, `pkg/health/health.go` | the ready flag | `SetReady`, `ListenAndServe`, `/readyz` | readiness against the actual state of the service | `Services` |
| configuration, `pkg/config/config.go` | none | `Load`, `bindStructKeys` | keys of nested structs, priority of sources | `Configuration` |
| analytics, `internal/analytics/analytics.go` | counters under one RWMutex | `RecordSuccess`, `RecordFailure`, `Snapshot` | consistency of a snapshot; readers and writers that keep each other out | `Analytics`; no service records to it yet |
| observability, postgres, `gen/` | none that the services use | set-up of libraries, generated code | | not modelled (`Services` has the log levels that `NewLogger` accepts) |

Deduplication, rate limiting, circuit breaking, templates and e-mail are named
by `README.md` and the package comment of `internal/gateway`, but no code
implements them, so there is nothing to model. `README.md:112` also has the
worker "route to channel"; `handleMessage` sends every notification to every
configured channel, and `Delivery` models that.

What makes each component correct:

- *queue*: a removal returns an item no queued item is ahead of (higher level,
  then earlier `CreatedAt`), and takes exactly that item away;
- *blocking Pop*: a wake-up that reached somebody is not wasted, a `Pop` told to
  stop returns, and a `Pop` does not sleep on a queue that has items;
- *gateway*: what was answered with 202 stays somewhere until the stream has it,
  nothing but an ambiguous publish is duplicated, earlier items of a level are
  stored before later ones, and everything is stored in the end;
- *delivery*: a message is acked only when every channel got it or has a dead
  letter for it, duplicates are explained by faults, every message is settled in
  the end, and dead letters are true and kept;
- *retry*: the number of calls, the truth of the result, the bounds of the
  delays, the end of a cancelled call;
- *dead letter queue*: a bounded sequence that drops its oldest element, and
  drained slices that no later `Push` changes;
- *services*: they come up in any order and after any fault, end when told to from
  any step, take nothing before the stream exists, and never say ready for a
  server that was shut down;
- *configuration*: a variable decides its own field and no other, nested ones
  too, else the file does, else the struct's default stays;
- *analytics*: a snapshot is of one moment, no increment is lost, every call
  returns;
- *the whole*: what was answered with 202 is in memory, in the stream, delivered,
  or was lost with the gateway that held it, and is delivered in the end.

## 2. Modules

| Module | Role |
|---|---|
| `PriorityOrder` | levels, `ParseLevel`, `Less`, and `Best(S)`, what a removal from `S` may return |
| `PriorityQueue` | abstract: a set of pending items, removal of a best one |
| `PriorityHeap` | the slice and the loops; `Abstract` maps it to `PriorityQueue` |
| `BlockingPop` | mutex, condition variable, `Pop`'s goroutine, `done` |
| `Gateway` | extends `BlockingPop` with handlers, `drainQueue` and the life of the process |
| `DeliveryChannels` | the channels a configuration registers, and what a `Send` may return |
| `Delivery` | extends it with workers, retry loop, dead letters, and the stream (external) |
| `RetryDo` | `retry.Do` with real delays, one call after the other |
| `DeadLetterQueue`, `BoundedQueue` | the slice arithmetic, and the bounded sequence it implements |
| `FailurePath` | joins `RetryDo` and `DeadLetterQueue` as the loop of `handleMessage` does |
| `Outbox` | abstract: what the gateway promises of an item; `Gateway` implements it |
| `AtLeastOnce` | abstract: what stream and workers promise of a message; `Delivery` implements it |
| `Configuration` | `Load` and `bindStructKeys` over the structs of both services |
| `Services` | extends it with `run` of both services, the health checker, the HTTP servers and the broker |
| `System` | extends `Services` and joins `Outbox` and `AtLeastOnce` by the stream: from the client's request to the ack |
| `Analytics` | the statistics and their RWMutex |
| `MC...` | instances for TLC: finite constants, nothing else |
| `...Proofs` | theorems about the module of that name |

Operators whose names end in a suffix such as `_Requeues` are variants of the
definition that follows them, each with one plausible mistake. They are used
only to confirm that every checked property notices such a mistake.

### PriorityHeap
`items` is the slice, shifted to start at 1. A step is the straight-line part of
`Push` or `pop`, or one iteration of `siftUp` or `siftDown`; `mu` names the loop
that holds the lock. The queue a caller sees, `Queued`, does not change in the
loops, so they are stuttering steps of `PriorityQueue`. An item is never pushed
while it is queued: ids are fresh UUIDs, and a re-queued item has been popped.

### BlockingPop
A critical section of `q.mu` is a step. `Push` is `Insert` then `Signal`, with
anything in between. `Pop` finds an item (`PopItem`), or starts its goroutine
and blocks in the select (`PopBlocks`); the goroutine enters `cond.Wait` in a
step of its own (`WaiterWaits`), is woken by a `Signal` or a `Broadcast`, and
closes `waiting` (`WaiterEnds`). A select with both branches ready takes either.
The heap is the set `queue`, from which `PopItem` takes a member of `Best`:
what `PriorityHeap` is proved to implement.

### Gateway
Handlers run `Receive` (decode, validate, stamp), `HandlerPushes`, `Answer`; an
invalid request leaves nothing behind. `drainQueue` publishes the item it holds:
`PublishSucceeds`, or `PublishFails`, which pushes the item back with the
`CreatedAt` it had and sleeps (`Backoff`). A failed publish may have stored the
message. After SIGTERM (`Cancel`) every publish fails at once, as its context is
done. `Exit` is the return of `run`, which waits for the HTTP server and not for
`drainQueue`. A crash is the end of a behaviour and needs no action.

`PlaceOf` maps this to `Outbox`, where an item is held in memory until the stream
has confirmed it. Queue, drainer, re-queues and `Pop` are hidden; `Exit` is the
`Stop` that loses what is held.

### DeliveryChannels
`Config` says which settings of `workerConfig` are nonempty, `Channels` is what
`run` registers for it. `Outcomes` is what one `Send` may come to: the log always
succeeds, a channel without its settings returns nil and sends nothing, and the
others fail at once when the context is done, or else make their own of the
receiver's status: below 300 for the webhook, exactly 200 for Telegram and Slack.
A receiver that answers 2xx has got the notification; one that answers anything
else, or whose answer is lost, may have got it. `run` registers Telegram when the
token is set and `Send` also wants the chat: with the token alone the worker acks
notifications that Telegram is never sent. `Settled` counts such a channel as
dealt with, since for the code it is.

### Delivery
A worker is at a channel `ch` and an attempt of `retry.Do`. `SendFails` may have
reached the receiver; the last failure, or a cancellation in the backoff, makes
a dead letter and goes on to the next channel; `Ack` follows the last channel.
`Crash` and `Terminate` empty the worker's memory, dead letters included. The
stream hands a message to one fetch, again after AckWait, and deletes it at
`MaxAge`. Fetch timeouts that bring nothing change no state. `handleMessage`
writes the constant 3 into every dead letter's `Attempts`, after a retry that was
cancelled at its first attempt too, although the field is "how many times
processing was attempted" (`dlq.go:50`). Nothing in the code reads it, and the
models have no such field.

`StateOf` and `Settled` map this to `AtLeastOnce`, where a message may be acked
only when every target has been dealt with. Workers, attempts and redeliveries are
hidden.

### RetryDo
Durations are integers and the multiplier is `growth / 100`, truncated as Go's
conversion does. `Do` caps the delay after it has grown, so the base delay itself
is never capped: `DelayIsBounded` says what the code keeps, and the finding
`max_delay` what the comment at `retry.go:73` says and the code does not. The conversion of a float that exceeds `int64` (a multiplier of
many orders of magnitude before the cap) is left out.

### DeadLetterQueue
Every `make` is a new backing array. `Push` shifts inside the array and appends
in place; `Drain` returns the slice and starts a new array. `drained` remembers
which slices callers hold and what was in them.

### FailurePath
The loop of `handleMessage` over its channels: a call of `Do`, and, if it returns
an error, a `Push` to the dead letter queue before the next call (`Record`). The
context is that of the process, so once it is done every later call ends in its
first wait. The queue may be drained at any time (`Replay`). `Delivery` has the same
loop with messages, channels and crashes, and without durations and arrays.

### Configuration
A key is the sequence of its words and a path the keys that lead to a field, so
that `EnvName` shows what viper's replacer does: "." and "_" become the same.
`BindStructKeys` registers a default for every leaf of the struct; `Load` looks a
known key up in the environment (a variable set to nothing is not set), the file
and the defaults, and decodes it. `v.Unmarshal` lets mapstructure decode weakly:
integers, Booleans and strings are converted to each other, as `Decodes` and
`Decoded` have it, and only a string may fail to be. `Literals` stands for the
strings that Go's `ParseInt` with base 0 takes. Floats, nulls and lists in a file
are left out. An unknown key of the file is ignored. Of the strings of a struct
that no property tells apart only some are listed.

A file is "none" (no `configPath`), "missing", "malformed" or "read". The comment at
`config.go:62` and the title of `TestLoad_MissingFileIsNotError` say that a missing
file is no error; viper reports one that was named by its path with another error
than the one `Load` tests for, so `Load` fails, as that test's own comment admits.
The model does what the code does, and no property claims either side: the
properties speak of files that can be read or that are not asked for. Both services
pass no path.

`LoadFollowsPriority` does not compute what `Load` should return. It relates two
loads that differ in one source: one more variable changes its field and no other
(`VariableDecides`); one more line of the file changes its field, unless a variable
decides it, in which case it is not even decoded (`FileYields`); and with
neither the defaults stay (`DefaultsStay`).

### Services
`phase[s]` is how far `run` is; every step between two calls that others can
observe is an action. A step that fails ends the process (`End`), and `Start`
starts it again, as a supervisor would. The HTTP servers are goroutines of their
own: `Listen` comes any time after the `go` statement, and fails, which is only
logged, when another server of the process has the port. `SetReady(true)`
(`Announce`) does not wait for them, so a service may say ready before it listens;
that is the code's order (`main.go:92`), and `ServicesComeUp` says that it listens
in the end. The broker is external: it goes away and comes back, and keeps its
streams.

### System
The gateway's part of a notification is an `Outbox` item and the worker's part an
`AtLeastOnce` message: `Publish` is a joint step, a `Store` of both. `Gateway` and
`Delivery` implement those two, so what `System` shows of them holds of their
detailed behaviours. Each step has the process and connection it needs as a guard,
and the end of the gateway (`Living`) ends its requests and its memory. Each copy
of a notification is a message of its own, as it is for JetStream: the gateway
sends no message id.

### Analytics
`sync.RWMutex` as documented: a `Lock` that waits keeps new readers out, and the
readers that came meanwhile go before the next writer. `cs.Sent++` is a read and a
write. Averages and rates are kept as pairs, numerator and denominator. `tally` and
`asOf` remember what the calls should have left, and when a reader got the lock.

## 3. What the runs check

Runs that pass:

| Run | Instance | Properties |
|---|---|---|
| `heap` | seven items over all levels, with ties: three heap levels, two swaps in each loop | `TypeOK`, `NoDuplicates`, `HeapShape`, `RootIsBest`, `ImplementsQueue` |
| `blocking_pop` | two pushers, two poppers, two items, `TryPop`, `done` closed at any time | `TypeOK`, `GoroutineOfPop`, `AlertIsServed`, `AlertLeadsToEmpty`, `BlockedPopReturns` |
| `gateway` | two handlers, one rejected and two accepted requests of one level, two failed publishes | `TypeOKGateway`, `Conservation`, `DuplicatesExplained`, `NoOvertaking`, `AcceptedIsStored`, `ImplementsOutbox` |
| `delivery` | two workers, the log and a webhook, a notification and a message that is not JSON, two faults of any kind, dead letter queues of capacity one | `TypeOK`, `ProgressIsSettled`, `AckedIsSettled`, `NoSpuriousDuplicates`, `StoredIsSettled`, `ImplementsAtLeastOnce` |
| `failure_path` | five option sets: none, one attempt, capped growth, shrinking growth, base above the maximum; three letters, capacity three, one drain | `TypeOK`, `TypeOKMemory`, `ResultIsTrue`, `DelayIsBounded`, `DrainedIsStable`, `CancelledReturns`, `ImplementsBoundedQueue` |
| `system` | both services, one notification and two messages of it, two channels, two faults (SIGTERM, crash, outage), three environments, six files (none, missing, malformed, empty, good, bad), eight texts and nine scalars | `TypeOK`, `StreamIsThere`, `AcceptedIsSomewhere`, `NotReadyOnceClosed`, `LoadFollowsPriority`, `ServicesComeUp`, `StopsWhenTold`, `TakenIsDelivered` |
| `analytics` | two recorders, two readers, four calls on two channels | `TypeOK`, `SnapshotIsPointInTime`, `CallsReturn` |

Runs in which TLC finds what a comment promises violated by the code:

| Run | What it shows |
|---|---|
| `lost_wakeup` | `Pop` blocks with an item in the queue: it was pushed after `Pop`'s `Unlock` and before its goroutine was in `cond.Wait`, so the `Signal` woke nobody (`queue.go:110`). The next `Push` mends it; a last notification waits until then. |
| `oversized` | an item NATS always refuses returns to the head of the queue for ever, and a NORMAL item is never dequeued (`queue.go:9`) |
| `max_delay` | with a base delay above the maximum the first wait of a call is the base delay, beyond the maximum and its jitter (`retry.go:73`) |
| `failures_kept` | the only record of a failed delivery goes with the worker's memory after the message was acked (`dlq.go:6`) |
| `independent` | a slow failing channel outlasts AckWait, and the redelivery sends to the healthy channel again (`channel.go:6`) |

A related leak has no run of its own: the `Broadcast` of `Pop`'s `done` branch
(`queue.go:132`) also reaches only goroutines that are in `cond.Wait`. One that
gets there later is never woken, and may swallow a later `Signal`. The model has
both, and no property forbids them: `GoroutineOfPop` says that a live goroutine
belongs to a `Pop` in its select or to one that was told to stop. They come only
once `done` is closed, which in the gateway is when the process stops.

Other hazards that no property forbids, since the code has them and no text
says otherwise: what is in the gateway's memory when it exits is lost after its 202
(`Exit`, bounded by `Conservation` and `AcceptedIsSomewhere` to what that process
held); and a gateway whose two ports are the same lives, may be ready, and never serves
(`WellConfigured` leaves such environments out of `ServicesComeUp`, and the run
has one). Items with the same level and creation time leave in any order, although
`queue.go:75` speaks of a stable ordering: `ImplementsQueue` leaves ties open.

`gateway` has requests of one level, so its `NoOvertaking` is checked within a level;
the theorem `NothingOvertakes` has it for all levels.

`independent` sets `SlowAttempts` to four: one attempt at the log and three at a
webhook that uses up its 10 s client timeout, which with the two backoffs exceed
the consumer's default AckWait of 30 s. In `delivery` it is 0, for a worker that
is stalled for any other reason.

### Bounds
Items are pushed once in `blocking_pop` (a queue that is refilled for ever need
not be empty ever). `MaxClock` bounds the stamped requests, `MaxFailures` the
failed publishes of items NATS can take, `MaxFaults` the faults, `MaxArrays` the
drains by one. Two failures let an item fail, wait behind a later one and fail again;
two faults let a worker crash after a lost ack, or two workers hold one message.
Two arrays of three cells let a full queue shift before a drain and again while
the drained slice is held. In `system` two messages let the answer of a publish be lost and the retry
succeed, and two faults let the gateway crash while the broker is away, or be told
to stop while it restarts. The environments give the API a port of its own, the
port of the health server, and a broker that is elsewhere; a worker's setting of
the wrong kind, and a log level that does not exist. In `analytics` a reader can
come while a recorder waits for another reader. The bounds cut off repetitions of what already happens within them.

### Deadlock and fairness
Deadlock is checked for the heap, the failure path and the analytics, which
always have a next operation. It is off elsewhere because the system really stops: a process
that has exited, all poppers stopped, all messages settled.

- `BlockingPop`, `Gateway`: weak fairness of each goroutine that can run (Go's
  scheduler runs every runnable goroutine, and `sync.Mutex` does not starve).
  Nobody is obliged to send requests, to push, or to stop the process.
- `Gateway`: publishes end one way or the other; failures of items NATS can
  take are bounded, those of items it refuses are not.
- `Delivery`: workers are restarted and run, and the server redelivers after
  AckWait. Sends need never succeed, and faults are bounded.
- `System`: services are restarted, their goroutines run, the broker comes back.
  `Publish` and `Deliver` are fair because the detailed models show that their
  goroutines get there (`AcceptedIsStored`, with its exceptions of a lost wake-up
  and of an item NATS refuses, which `System` has not; `StoredIsSettled`). Faults
  are bounded; requests need not come.
- `Analytics`: weak fairness of each goroutine. Calls need not come.
- `FailurePath`: `fn` returns, and a select that can take the context branch goes on.
  Timers need not fire.

## 4. What is proved

TLAPS proves, for every value of the constants:

| Theorem | Statement |
|---|---|
| `PriorityHeapProofs!HeapInvariant`, `NothingIsQueuedTwice`, `RootIsAlwaysBest` | types and the heap property in every state, no item twice, and the best item at the root whenever the lock is free |
| `PriorityHeapProofs!HeapImplementsQueue` | `PriorityHeap` implements `PriorityQueue` |
| `PriorityHeapProofs!LoopsAlwaysAdvance`, `HeadIsAlwaysDetermined` | the loops halve or double their index, so they end within the heap's rows; what the next `Pop` returns depends on what is queued, not on the history, ties excepted |
| `BlockingPopProofs!OneGoroutinePerPop`, `NoAlertIsWasted` | types and the life of `Pop`'s goroutine; a `Signal` that reached a goroutine is served |
| `BlockingPopProofs!SignalsMend` | however many wake-ups were lost, the next `Signal` to a waiting goroutine brings a popper to the queue |
| `GatewayProofs!GatewayTypeOK`, `ItemsAreConserved`, `DuplicatesAreExplained`, `NothingOvertakes` | every item that was taken is in one place, has a message for each publish that stored it, and reaches the stream in its order |
| `GatewayProofs!GatewayIsAnOutbox` | `Gateway` implements `Outbox` |
| `GatewayProofs!GatewayUsesTheQueue`, `DrainerIsServed` | every behaviour of `Gateway` is one of `BlockingPop`, whose theorems therefore hold of its queue |
| `GatewayProofs!ConfirmedStays`, `OversizedAlwaysBlocks` | what was confirmed is final; nothing behind an item NATS refuses ever reaches the drainer |
| `DeliveryProofs!DeliveryTypeOK`, `AckedIsAlwaysSettled`, `ProgressIsAlwaysSettled` | types and bounds; nothing is acked, and no channel passed, unsettled |
| `DeliveryProofs!DuplicatesNeedFaults` | without a failed `Send` a channel gets a message once, and once more per fault at most |
| `DeliveryProofs!GracefulStopsSendOnce` | with SIGTERM as the only fault a channel without a failed `Send` gets a message at most once |
| `DeliveryProofs!DoneStaysDone`, `DeadLettersAreAlwaysTrue`, `FailuresStayUnlessFull` | acks and settled channels are never taken back; a dead letter has a failure behind it; without SIGTERM and crash it is lost only from a full queue |
| `DeliveryProofs!DeliveryIsAtLeastOnce` | `Delivery` implements `AtLeastOnce` |
| `RetryDoProofs!ResultIsAlwaysTrue`, `DelayIsAlwaysBounded` | types, calls, result and delays of `retry.Do` for all options |
| `RetryDoProofs!OnlyTheBaseDelayExceeds` | a wait above the maximum and its jitter is the first of its call, and the base delay was above the maximum |
| `RetryDoProofs!DoComesToAnEnd`, `BackoffNeverShrinks` | a call takes at most `2 * maxAttempts + 1` steps; delays do not shrink if the multiplier is at least 1 and the base within the maximum |
| `FailurePathProofs!MemoryTypeOK`, `DrainedStaysStable`, `MemoryIsABoundedQueue` | drained slices never change; the slice arithmetic implements `BoundedQueue` |
| `FailurePathProofs!PathComposes`, `PathIsSound` | a behaviour of the failure path is one of `RetryDo` and one of `DeadLetterQueue`, so what is proved of them holds on it |
| `SystemProofs!SystemTypeOK`, `StreamIsAlwaysThere`, `AcceptedIsAlwaysSomewhere`, `NeverReadyOnceClosed` | the composed system: no work before the stream exists, nothing that was answered with 202 disappears, readiness ends before the API does |
| `SystemProofs!PriorityForEveryStruct`, `LoadAlwaysFollowsPriority` | `VariableDecides`, `FileYields` and `DefaultsStay` for every struct whose fields have variables of different names; for both services' structs |
| `SystemProofs!SystemComposes` | a behaviour of `System` is one of `Outbox` and of `AtLeastOnce` |
| `AnalyticsProofs!StatsTypeOK`, `SnapshotIsOfOneMoment` | every snapshot is of one moment |
| `AnalyticsProofs!IncrementsAreKept`, `CountsAlwaysGrow` | no increment is lost; no counter, and no reader's view of it, goes back |

Arguments.

- *Heap.* The plain heap property is not inductive: it fails in the middle of a
  loop. `HeapShape` weakens it by the one element being sifted, and adds
  `GrandchildrenOrdered`, that its children are in order with its parent, without
  which a swap would not restore the order one level further on. `Less` is a
  strict weak order, so the root beats everything below it; this goes by
  least counterexample among the indexes, as the library's induction theorems
  cannot be used here. The same lemma gives `BestExists`: whatever is queued, a
  removal is possible. `BestAreTied` says what the heap leaves open, the order of
  items with one level and one `CreatedAt`.
- *Pop.* `AlertIsServed` needs that the history variable is reset when the queue
  is emptied (`AlertMeansQueued`) and that a waiting goroutine belongs to a `Pop`
  in its select (`GoroutineOfPop`). `SignalsMend` needs no more: it says that the
  wake-up that `lost_wakeup` loses is made good by the next one.
- *Gateway.* The inductive part is freshness: an item that a handler is about to
  push was stamped before `clock`, is nowhere else yet (`Fresh`), and no two
  handlers have the same one. So a push cannot double an item, and `Apart` and
  `Kept` follow. For the order (`InOrder`), an item that is behind another one is
  taken only when the other has been settled: while the other is in the queue,
  `Best` prefers it, and while it is in the drainer's hands nothing is taken. Every
  step of handlers, `Pop`, goroutines and drainer has one of a few effects on the
  items (`Effect`), and the invariant and the refinement go by these effects. A
  handler is a pusher and the drainer the only popper of `BlockingPop`: each of their
  steps is a step of the queue or leaves it alone (`QueueMoves`). `OversizedBlocks`
  follows from the order: an item behind another is not taken before it, and an
  oversized one never goes.
- *Delivery.* `AckedIsSettled` follows from `ProgressIsSettled`, what a worker has
  already done for the channels before the one it is at, which every step
  preserves because `received` only grows and `dead` is never reduced. It rests on
  `SuccessIsReached`: for any configuration and any set of status codes, a `Send`
  that returns nil has reached its receiver, unless it had none. The refinement
  needs `HandledIsStored`, that what a worker handles was stored once. Duplicates
  are counted (`Within`): what a channel has got, the workers that may still send
  it (`Ahead`) and a fetch that needs no fault (`Due`) are together at most one
  more than the faults. A send moves one from `Ahead` to what was got, a fetch one
  from `Due` to `Ahead`, and only a fault adds one. `Allowed` is what they may come to:
  a SIGTERM adds nothing, as a worker finishes and acks what it holds, so with
  SIGTERMs alone it stays one. For the dead letters, `dead` is followed into the
  queues: a letter leaves its queue only by the shift of a full one or with the worker.
- *Retry.* `ResultIsTrue` needs `AttemptsLeft`: there is a wait only if an attempt
  is left. `StepsLeft`, two for each attempt that is left and one for the
  cancellation, goes down with every step of a call.
- *Dead letters.* The current array is the last one and drained arrays are before
  it (`DrainedArrays`); the contents are followed element by element through the
  shift.

- *System.* The stream exists from `EnsureStream` on and is never removed
  (`StreamMade`); a listener exists only after it. The stream has the first
  `copies[x]` messages of `x` and no other (`StoredAsSent`), so a confirmed item
  has one; an acked message has every channel settled (`AckedByAll`).
- *Configuration.* A field is found because `bindStructKeys` has bound it, nested ones
  too (`LoadUnmarshals`). Changing what is got for one path changes what is
  unmarshalled at that path alone (`UnmarshalOneMore`), and one more variable changes
  what is got for one path alone because no two fields share a variable
  (`NamesDiffer`, an assumption: a field `nats_url` beside the struct `nats` with a
  field `url` would break it; `NamesAssumption` has it for both services, and TLC
  evaluates it).
- *Analytics.* The recorder that has the lock is alone (`Exclusion`), and where it
  is in its call says by how much `counters` are ahead of `tally` (`Progress`).
  While somebody reads, the two are equal, so what has been copied is a part of
  the report of that moment (`Copies`). Counters grow because the value a recorder has
  read is still there when it writes, and every snapshot's moment is part of the
  present `tally` (`PastInv`).

Assumptions are those of the modules: items have a level and a creation time,
`NoItem` is not an item, `Nobody` is not a recorder, capacities and attempts are
positive, bounds are natural numbers, options are integers, an error of `Do` has a
letter, a variable's text is not empty. TLC evaluates them in
the runs.

Only model-checked: the liveness properties, as fairness and ENABLED are out of the
prover's reach. `AlertLeadsToEmpty` and `BlockedPopReturns` have their safety part in
`NoAlertIsWasted`, `CancelledReturns` in `DoComesToAnEnd`. Every invariant and every
refinement of the passing runs is a theorem.

The proofs also say how far the violations of section 3 go: a lost wake-up lasts until
the next `Signal` (`SignalsMend`); an oversized item keeps back all that is behind
it (`OversizedAlwaysBlocks`); a wait exceeds the maximum only as the first of a call
whose base delay does (`OnlyTheBaseDelayExceeds`); a healthy channel gets a message again only after a fault
other than SIGTERM (`GracefulStopsSendOnce`); and without the end of a worker a failure
is lost only from a full queue (`FailuresStayUnlessFull`).

Together: `PriorityHeap` implements `PriorityQueue`, whose removals (`Best`) are those
of `BlockingPop`'s set. `Gateway` uses `BlockingPop` as it is meant and implements
`Outbox`; `Delivery` implements `AtLeastOnce`; and `System`, where these two are joined
by the stream and run by the services, is a behaviour of both. Apart from the set that
stands for the heap, each link is a theorem for every value of the constants.

## 5. Not modelled

- Time: SLA deadlines, the 10 s of `Shutdown` and AckWait are orders of events
  only. Middleware (`Recoverer`, `Timeout`) changes no state of the queue.
- What is inside JetStream: replication, reconnection, `MaxAckPending`, and a
  broker that loses its streams (file storage is their default).
- Payloads, HMAC signatures, texts, logs, metrics.
- Read-only endpoints.
- Of viper: a configuration file found on a search path (no service names a file,
  and `Load` searches none), and an environment variable that names a whole
  struct.
- Go's memory model below the mutexes: every shared access of the code is under
  the lock the models give it.
- `pkg/observability`: set-up of the logging, metrics and tracing libraries; its
  only effect on the services is the log level, which `Services` has.
- `pkg/postgres`: wrappers of a connection pool and of a migration library that no
  service uses.
- `gen/`: generated code; the gateway serves REST only.

## 6. Plan

What a next version would add:

1. `System` with the detailed `Gateway` and `Delivery` in place of the abstract
   ones, for a simulation run: the state space is out of reach of a complete one.
2. A supervisor that gives up, and a broker that restarts without its streams: the
   gateway calls `EnsureStream` once, so both services would have to restart.
