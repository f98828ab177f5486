# A TLA+ model of the DingTalk channel SDK

This directory holds TLA+ modules for the SDK: the stream connection
(`stream.go`), the safety pipeline (`internal/safety`) through which every
message, card action and light event passes, the channel that wires and closes
them (`channel.go`), and what goes back to the platform: streaming cards
(`card.go`), replies and proactive sends (`reply.go`, `send.go`), the rate
limiter, the access token and the bot identity. TLC checks the modules on small
instances; TLAPS proves the central invariants of the seen cache, the processing
lock, the chat queue, the safety pipeline, the media buckets, the stream
connection, the channel, the card and the outbound side for every instance.

## The system

| Component | State | Operations | Talks to |
|---|---|---|---|
| stream connection, `stream.go` | `conn`, `closed`, `stopCh`, per connection `readCh`/`errCh`/`pongCh`, back-off count | `Run`, `runOnce`, `readLoop`, `handleFrame`, `Close` | gateway; starts one goroutine per business frame |
| channel, `channel.go` | handlers, wiring | `Start`, `Close`, `dispatchFrame`, `handleCardAction` | stream, pipeline |
| safety pipeline, `pipeline.go` | bot identity, mode | `PushMessage`, `PushAction`, `PushLight`, `batchFlush`, `messageFlush`, `UpdatePolicy`, `SetBotIdentity`, `Dispose` | all components below |
| seen cache, `seen_cache.go` | map, LRU list, optional Redis | `Has`, `Add`, `CheckAndMark`, `sweep`, `Dispose` | Redis |
| processing lock, `processing_lock.go` | id to expiry | `Acquire`, `Release`, `sweep`, `Dispose` | clock |
| stale detector, policy gate | configuration | `IsStale`, `Evaluate`, `UpdateConfig` | - |
| chat queue and manager, `chat_queue.go` | buffer, timer, task channel, worker | `Push`, `Run`, `FlushNow`, `FlushAll`, `Dispose` | timers, pipeline callbacks |
| media pipeline, `media_pipeline.go` | buckets with timers | `Push`, `FlushIncompatibleFor`, `Dispose` | timers, pipeline callback |
| streaming card, `card.go` | accumulated text, pending flush, watchdog, `closed` | `Stream`, `Append`, `Finish`, `Abort`, `Fail`, flush and watchdog timers | card API, webhook fallback |
| rate limiter, `ratelimit.go` | tokens, last refill, end of back-off | `waitFor`, `triggerBackoff` | every API call |
| token, identity, `token.go`, `bot_identity.go` | cached value and its age | `Get` | platform; mutex held across the fetch |
| replies and sends, `reply.go`, `send.go`, `internal/outbound` | none between calls | `Text`, `Markdown`, `SendText`, `Retry`, `SplitWithCodeFences` | webhook, API |
| normalisation, SSRF guard, HTTP mode, emotions, uploads | none (uploads: a token cache like the one above) | pure functions and single requests | DingTalk API |

`handleFrame` acknowledges a frame and starts a goroutine for it, so any number
of frames are in the pipeline at once. They meet in the seen cache, the lock,
the queue of their conversation and the media buckets, each with a mutex of its
own. Timer callbacks and sweepers are further goroutines, and `Close` tears all
of it down while they run. On the way out a card is shared by its handler, its
flushes, its watchdog and whoever aborts it, and all goroutines share one token
bucket and one access token.

What is hard in this code, and so what the properties are about: decisions that
span two critical sections (check then mark, release then mark, flush then
close); callbacks of timers that were already replaced; a lock that expires
while its holder still waits or works; a bounded channel that is filled under a
mutex; redeliveries at any moment; a connection that dies while another
goroutine closes it; arithmetic of the back-off; HTTP calls made between two
critical sections of a card; answers that are lost and requests that are
repeated; caches that age while their user sleeps. `PROJECT.json` lists these
hazards by source line.

## The modules

* `SeenCacheOps` - the critical sections of the cache as operators on a record
  of the map's keys and the list. `SeenCache` - goroutines that call them, the
  sweeper, a clock and an external Redis that may lose writes, expire keys and
  be shared with another process. `CheckAndMark` is two steps (`CheckAndMark`,
  `MarkFirst`), because the code releases `sc.mu` between `Has` and `Add`. Its
  specification is `CacheSpec`, so that the proofs can speak of the cache and of
  the pipeline that uses it side by side.
* `ProcessingLockOps` - the critical sections of the lock as operators on the
  map. `ProcessingLock` - goroutines that acquire, work and release over a
  clock, with sweeps and `Dispose`.
* `ChatQueue` - one queue. A step is a critical section of `cq.mu` or one
  channel operation. The owner of `cq.mu` keeps it while its sends block
  (`outbox`). A timer is named after the message that armed it; once `fired`,
  its callback cannot be stopped. The closer is `SafetyPipeline.Dispose`:
  `FlushAll`, then the manager's `Dispose`, which flushes again and closes the
  queue; `closepc` numbers its steps. A send on the closed channel sets
  `panicked`. `SerialDispatch` is the abstract specification: a log of accepted
  messages, served in order, one handler call or task at a time, in which a task
  of `Run` begins only after what was accepted before it was called is served.
* `MediaPipeline` - the buckets, stale callbacks, the flush by a text message,
  and the goroutines that call the handler.
* `PolicyGate` - `Evaluate` as a function of configuration and message.
* `SafetyPipeline` - deliveries on their way through stale check, cache, self
  filter, gate, lock, dispatch, handler, release and marking. It is built from
  the operators of the three modules above; one step is one critical section of
  one component, so that other goroutines run between any two. The queue appears
  as what `SerialDispatch` promises; the dispatch modes are `direct`, `media`,
  `serial` (queue with `OnMessage`) and `batch` (queue with `OnBatch`). What goes
  through no queue and no bucket (`Ordered`) is handled by its own goroutine, in
  no order. The locks of a merged batch are released one by one, in the order of
  its sources.
* `StreamConn` - `Run`, the reader of every connection, `Close`, the context
  and an external gateway that refuses, drops, disconnects, or says nothing.
  Durations are sets of bits, since the overflow of the back-off is beyond
  TLC's integers.
* `CardStream` - one streaming card: `Append`, `Finish`, `Fail`, `Abort`,
  trailing flushes (each a goroutine, `Slots`) and the watchdog. A step is a
  critical section of `s.mu` or one HTTP call. `update` is four steps (`gap`,
  `inputing`, `mark`, `stream`), since it holds no mutex across its calls.
  `server` is the card as the platform shows it; a call takes effect or not, and
  may take effect and fail. Nobody can `Abort` before `Stream` has handed the
  streamer out. The cooldown of error texts (`hot`) is shared with
  other replies of the conversation.
* `TokenBucket` - the bucket as operators over time relative to now.
  `ApiClient` - `callRaw` behind it (wait, token, request, back-off, second
  attempt) and `tokenProvider.Get`. `TextChunks` - `chunkText` and
  `SplitWithCodeFences` as functions. `Outbound` composes the three: replies with
  their chunks, `Retry`, the proactive fallback, single calls, and
  `botIdentityProvider.Get`.
* `Channel` - handlers registered at run time, the closures `New` builds for the
  pipeline, the `ChatQueueManager` with the two looks of `getOrCreate`, and
  `Close` with both `FlushAll`s and every `Dispose`, called once or twice, from
  outside or from a handler. Its queues are those of `ChatQueue` at the level of
  whole operations.
* `ProcessingLockProofs`, `ChatQueueProofs`, `SafetyPipelineProofs`,
  `MediaPipelineProofs`, `StreamConnProofs`, `ChannelProofs`, `CardStreamProofs`
  and `OutboundProofs` - the theorems about the module each is named after;
  those about `SeenCache` are in `SafetyPipelineProofs`, where the lemmas about
  the operators of the cache serve both.
* `MC...` modules and `.cfg` files give the constants values.

Definitions marked "Faulty variant" are plausible mistakes in the definition
after them. No specification uses them; they exist to show that each property
notices one.

## The runs

| Run | What it shows |
|---|---|
| `seen` | The map and the list of the cache hold the same keys within `MaxEntries`; a key is forgotten before its expiry only if `MaxEntries` other keys were used since. |
| `lock` | Two handlers of an id overlap only after one outlived its lock, or after `Dispose`. |
| `queue` | The queue refines `SerialDispatch`, strands nothing, respects both batch limits, and when its callers have stopped before the close it neither panics nor loses anything; accepted messages are handled and `Run` returns. |
| `queue_close` (violated) | "First flush, then close" (pipeline.go:300): a message pushed between the two is never handled. |
| `pipeline` | No two handler calls for one id at a time unless a lock expired; two copies of a message or action, under whatever ids, both get past the cache only if each was looked up before the other was marked; no lock left behind; with `MarkAfterHandler` only success is remembered; a redelivery after a completed handling is rejected; cache and lock never turn away every copy. What depends on the cache's memory is claimed as long as it has room and the clock stays within the TTL. |
| `media` | Within a conversation and type nothing is lost, doubled or reordered; no bucket is stranded or over the limit; a text flushes every bucket of its conversation; every media message reaches the handler. |
| `stream` | No connection stays open beside the current one or after `Run` returned; the back-off count is the number of failures since the last connection; `Close` ends `Run`; a dead connection is noticed; a reader ends unless its channel is full. |
| `stream_backoff` (violated) | "1s to 30s" (stream.go:288, SPEC.md:93): after the 35th failure in a row the delay is negative. |
| `card` | At most one terminal status per card; a delta that no update has picked up has a flush armed; a card closed while no update was in flight keeps the closer's text and status; `Finish` returns nil only if the platform accepted the whole text, on a finished card that only an update in flight can have changed since, or by webhook where there is no card, and an error only after the text was offered to the webhook, unless the cooldown muted it; a delivered card is closed in the end and shows a terminal status, unless the closing call failed or an update in flight overtook it. |
| `card_late` (violated) | "Flush and finish are safe to run concurrently" (SPEC.md:214): an update in flight sets INPUTING after `Finish` set FINISHED. |
| `outbound` | No stretch of time up to a second sees more grants than a bucket and its refill; no burst after a back-off; no expired token is sent; pieces of a text arrive in order, all of them if nil was returned, and twice only after a lost answer; cutting loses nothing and balances fences; two fetches of the identity begin an interval apart; every operation returns. |
| `channel` | One live queue per scope; a message vanishes in a closure without a handler only as bucketed media with `OnBatchMessage` alone; a quiet `Close` returns with everything handled; no delivery is left waiting in a queue whose worker has gone, unless `Close` met it on its way; a panic needs a race with `Close` or a second one. |

The type invariant of a module is checked in its run: as `TypeOK` in `lock`, else
as a conjunct of the property about the same state (`MapAndListAgree`,
`BatchWithinLimits`, `NoLockLeftBehind`, `BucketsWellKept`,
`BackoffCountsFailures`, `EveryDeltaScheduled`, `ChunksFaithful`,
`QuietCloseIsClean` in `channel`).

### Bounds

* `seen`: three keys over two entries, so that eviction happens, two goroutines,
  three ticks with a TTL of two. The goroutines are symmetric.
* `lock`: three goroutines, so that a late `Release` can let a third in beside
  the second, and a clock that passes the lifetime more than once.
* `queue`: three messages, two of which reach the character limit together
  while any other two wait in the buffer, and a limit of three messages; a task channel of capacity one instead of 100, so
  that senders block; one `Run`.
* `pipeline`: two deliveries of one message under two protocol ids, two
  messages of one chat (so that batches have two sources), one of them sent by
  the bot, two deliveries of one card action under two event ids, and a light
  event. These arrive as separate scenarios (`MCArrivals`). One policy refuses
  the sender of the first message, the other does not, and each replaces the
  other at any moment. The clock takes two steps and a lock lives for one; the
  cache outlives the clock and has ten entries, room for every key (expiry and
  eviction are the matter of `seen`). Redis is left to `seen`. `DropSelfSent`
  switched off is the behaviour in which the bot's identity never becomes known.
* `media`: three pictures with a limit of three, a file and a text: a bucket
  waits with one and two pictures, is filled, or is flushed and created again
  while an old callback still waits.
* `stream`: two connections, two frames over a channel of capacity one, two
  back-off rounds. `stream_backoff` accepts no connection and allows 40 rounds.
* `card`: two appends, two flushes in flight, frames of two runes and final texts
  that are empty or longer than a frame.
* `outbound`: two goroutines in four casts (`MCJobs`: two that call, one that
  replies, one that sends beside one that calls, two that ask for the identity),
  a bucket of three tokens that refills by fractions, a back-off longer than a
  second, tokens that live for two or three ticks, two attempts, and texts around
  a limit of six with newlines in every place, or with fences and headings.
* `channel`: a text and a picture in one conversation (with queues they stand for
  two texts), an action on a card, three queues, two calls of `Close`.

`CHECK_DEADLOCK FALSE` is set where the clock or the supply of messages ends;
`queue` has an explicit action for rest, and there deadlock is checked.

### Fairness

* `ChatQueue`: goroutines are scheduled, the mutex is starvation free (strong
  fairness for callbacks and for `Run`'s send, which compete for the mutex and
  the channel), timers fire and handlers return. Nobody has to push or close.
* `MediaPipeline`: timers fire, goroutines run.
* `StreamConn`: goroutines run, timers fire; a `select` chooses at random among
  ready cases, so a case that is ready again and again is taken (strong fairness
  for the stop and error cases). The gateway need not do anything.
* `CardStream`: goroutines go on, HTTP calls end (the client has a timeout),
  timers fire. The watchdog is on (`CardWatchdog > 0`, the default); nobody has
  to append, finish or abort.
* `Outbound`: time passes and requests end; a goroutine that waits for a mutex or
  a token again and again gets it in the end (strong fairness: Go's mutexes turn
  to first-in-first-out under starvation, and a sleeper that finds no token
  sleeps again).
* `Channel`: goroutines and timers run and handlers return, unless a handler is
  itself in `Close`.

## What is proved

Every listed theorem is of the form `Spec => []P`, where `P` is an invariant that
a run checks, `Spec => FetchesSpaced`, an action property, or
`Spec => SerialInOrder`, the refinement of `SerialDispatch`, and holds for every value of the constants that the `ASSUME`s of the modules allow.
Those only say what the code guarantees: bounds and lifetimes are naturals, limits
that the configuration fills in are positive, the names that stand for "nobody"
are nobody's, and "no task" is no task (`NoneIsNoTask`), the sets of messages and
deliveries are finite or not empty where the code takes that for granted
(`MsgsFinite`, `DeliveriesAssumption`), texts are sequences of runes or of at
least one line (`TextsAssumption`), "no fence" is not the empty language
(`FenceAssumption`), the conversation of a delivery is a scope (`MsgAssumption`),
the clock starts before it ends (`ClockAssumption`), and the scope of a card
action is no conversation, since `handleCardAction` puts "card:" before it
(`ScopeAssumption`). TLC evaluates them in the runs. Almost none of the properties
is inductive; what follows says what each needs beside it, and why.

**Processing lock** (`TypeCorrect`, `MutualExclusion`, `EntryKept`).
`ExclusiveUnlessOverrun` does not say that a holder's entry is still in the map.
The invariant adds `HolderHasEntry`: as long as no handler of an id has outlived
its lock, the holder's entry is in the map with the expiry the holder was given,
and that expiry lies ahead. `Acquire` is then refused for a held id, `Release` by
another goroutine concerns another id, and `Sweep` leaves the entry alone. Any
lifetime will do, zero too.

**Chat queue** (`NothingStranded`, `LimitsRespected`, `ImplementsDispatch`,
`QuietClose`), for any messages, limits and capacity of the channel.

* `NeverStranded` speaks of states in which the mutex is free; `Waiting` claims the
  timer whoever owns the mutex. Each action leaves buffer and timers alone, empties
  the buffer, or arms the timer of the message it adds; a callback, stale or not,
  empties the buffer in the step in which its timer goes off.
* `LimitInv` adds to `BatchWithinLimits` that the buffer has room left (`RoomLeft`):
  it had passed no limit before the message that makes the batch. That the
  closer's step counter keeps its type needs `OneBarrier`: a barrier exists only
  while the closer waits for one, and only one does.
* `LogInv` is the invariant of the refinement. What was accepted is, in this order,
  handled, with the worker, in the channel, in the hands of the owner of the mutex,
  and in the buffer, and `Chain` says of a sequence of tasks from which offset of
  the log to which its messages reach. A task of `Run` lies behind the offset that
  its call has to wait for (`Offsets`), or its caller has not sent it yet and does
  not own the mutex any more, or still flushes what it waits for (`Split`);
  `OneTask` says that the task is in one place. From it each step of the worker is
  the step of `SerialDispatch` that begins or ends a batch or a `Run`, `Push` is its
  `Accept`, the first section of `Run` its `Call`, and every other step leaves the
  abstract state alone, a panic included.
* `QuietClose` rests on `LogInv` and on `Emptied` and `ClosedLast`: when the callers
  have returned, each step of the closer leaves one more place empty, and the
  barrier is the last task in the channel (`BarrierLast`). When the channel is
  closed there is nothing between the log and the handled messages. A late timer
  callback finds an empty buffer, so nothing is sent on the closed channel.

**Safety pipeline** (`LocksComeBack`), for any policies, arrivals, clock and
lifetime and whatever the cache answers. `JobInv` says which deliveries a handler
call owns: each belongs to at most one call, is in it once, and is busy or
released as the phase of the call tells. `LockInv` is the argument of the lock
with deliveries as holders: an entry belongs to a delivery that is queued or
busy, and two of one id are so only after an overrun. Without `JobInv` a release
could give back the lock of a delivery that another call still works on.

**Seen cache** (`MapMatchesList`, `PromiseKept`), for any keys, argument lists,
capacity, TTL and number of callers, with and without Redis. `Has` and `Add` are
loops over the keys they are given, in the model functions defined by recursion
over the turns. Induction is replaced by the well-ordering of the numbers: if a
claim about the turns failed, it would fail first at some turn, and the turn
before it held (`Least`, `UpTo`, `LoopHasRun`). `Sound` is a cache whose map and
list agree; `addToMemory`, `Forget`, `ToFront` and `sweep` keep it sound, keep the
order and the expiry of the entries they do not touch (`Keeps`, `Dropped`), and
evict one entry at most. `RememberedUntilExpiry` is not inductive: it says
nothing of a key that is still in the cache and will be evicted. `Remembers` adds
that its entry expires no sooner than was promised, and that the keys in front of
it in the list are among those used since (`newer`). An entry that is evicted has
`MaxEntries` others in front of it, so that many keys were used.

**Cache and pipeline** (`FailedMayReturn`, `HandledOnce`). `DedupInv` ties the cache
to the stages of the deliveries and to the handler calls: with `MarkAfterHandler`
a call that goes on to mark has succeeded, and its sources are in `handledOK`;
without it, what has passed the check is in the cache before the lock is taken.
`HandledOnce` has the hypotheses of the property itself (`Roomy`): the clock stays
within the TTL, and the cache has room for the keys of all deliveries. Then
nothing is evicted, nothing expires, the cache only grows (`GrowSeenInv`), and a
key that is settled is met by every later check. Without these hypotheses the
property is false, by design of an LRU cache with expiry; `PromiseKept` says what
holds then.

**Copies** (`HandledByOne`, `SomeCopyPasses`). That calls of one id do not overlap
follows from `JobInv` and `LockInv` (`CallsHoldLocks`). For the rest `CopyInv` adds
whose keys are in the cache (those of deliveries whose look is over), that a
duplicate resembles one of these and a contended delivery shares its id with one
that has or had the lock, and that whatever the cache let through was looked up
before any copy of it was marked: the miss says that none of its keys was in the
cache, and `DedupInv` that the keys of what was marked are. Its first three parts
need neither room nor time, so `SomeCopyPasses` holds through evictions and expiry;
the last has the hypotheses `Roomy` and no `MarkAfterHandler`, as the property does.

**Media buckets** (`OrderKept`, `BucketsKept`). The books (`Books`) relate the
buckets, the calls and the log of arrivals: buckets and calls hold messages of
one key in the order of arrival, every message is in one place, and calls of one
key come before what is in its bucket. They are stated of any map, so that a
`Push` that fills its bucket is an append and then a flush.

**Stream connection** (`NothingLeftOpen`, `BackoffCorrect`). `OpenIsHeld` says
where `Run` may be while a connection is open, from the dial to the end of the
cleanup; `CountAhead` says what the back-off count is in the moments before it is
reset.

**Channel** (`OneQueue`, `NothingDropped`, `QuietClose`). For the
first, an open queue is the one that the map holds for its scope; `Create` makes a
queue only where the map has none, and `Dispose` closes what it removes from the
map. For the second, `HandlerInv` ties what waits on its way, in a buffer or in
a task to the handlers that were registered when it was dispatched; handlers are
only ever added. `QuietClose` rests on `Quiet`, the state of a `Close` that no
delivery races: a queue still waits to be flushed, or its barrier is its last
task or its running one, or it has come to rest; and a delivery that has left is
handled or in a queue. That the barrier is last is what lets `Close` conclude
from its return that nothing is left.

**Streaming card** (`OneTerminal`, `NoDeltaForgotten`, `QuietCloseStays`,
`FinishDelivers`). The first ties the program counters to `sealer`: only the one
who set `closed` is on a path to a terminal status, that path is walked once, and
as long as it lies ahead none was sent. `WholeInv` adds where a goroutine may
stand and what it carries (`Control`, `Payload`), who will pick up a delta
(`Deltas`), what the platform and the user have at each step of `Finish`
(`Delivery`), and that a card sealed with no update in flight is written by its
sealer only (`QuietInv`).

**Outbound** (`TokensFresh`, `IdentitySpaced`, `PiecesArriveInOrder`,
`RepeatsOnlyWhatWasLost`, `RateLimited`). Whoever is about to send holds a live token, which no
tick takes away before the request. For `IdentitySpaced` the ages of the cached
identity and of the last failure are tied to the age of the last fetch: while
nobody holds the mutex, a fetch that began less than an interval ago has left a
fresh cache or a failure that still throttles, and the second look under the mutex
meets one of the two. `SendInv` says where a sender stands while the platform has acted and the
answer is on its way: the pieces before the current one have been served, none
beyond it, and the current one only if the sender knows, or if the answer was
lost. `RateBound` says nothing of the tokens that are left, so `RateInv` bounds
what was granted together with what is available (`Available`: the tokens and
the refill not yet credited), for every stretch of time up to a second
(`grants[i]` counts the last `i` ticks and the current one) and since the last
pause; during a pause the refill clock lies ahead of now by the pause, which is
why none is left when it ends.

**Chunks** (`CutFaithfully`), for any text and any positive limit. The loops of
`chunkText` and `SplitWithCodeFences` are functions defined by recursion over
their turns, and claims about the turns are proved as those about the cache's
loops are. `CutGood` is the invariant of the first: the chunks that are out and
the runes that are left join to the text, the chunks are not empty and fit, and a
rune at least has gone with every turn, so that as many turns as there are runes
leave none (`CutFacts`: the cut lies within the runes and passes the limit only
behind a newline). `SplitGood` is the invariant of the second: chunks and buffer
hold the lines so far, with nothing added but fences (`Holds`), and the buffer is
inside a fence exactly when one is open (`Balanced`); `flush` closes and reopens
it. `ChunksFaithful` also claims `TypeOK`. `TypeInv` proves it together with
`RateInv`: a sender that pauses has an attempt left, one that has cut a text holds
its chunks, and a pause is never longer than the back-off.

Only model-checked: liveness, which is outside the prover (`EveryMessageHandled`,
`EveryRunReturns`, `EveryMediaHandled`, `RunNeverStuck`, `ReaderEndsUnlessFull`,
`EveryCardClosed`, `EveryOperationReturns`, `CloseReturns`, `EveryDeliveryReturns`). Every invariant and
every action property that a passing run checks is stated by a theorem.

## What is not modelled

* Footer, `BeforeSend`, `markdown.go` and the payloads of message types rewrite a
  text before it is sent and keep no state.
* Normalisation, the SSRF guard, the signature check of HTTP mode, emotions and
  uploads are pure functions or single requests. The token cache of `oapi.go`
  repeats the one of `token.go`.
* `batching.go` and `dedup.go` are predecessors that the pipeline does not use.
* Lifecycle hooks are never attached to the connection (`newStreamConn` sets
  none), so nothing of them runs.
* Merged texts, mentions and resources are abstracted to the list of source
  messages; of a rejection the pipeline keeps which step made it, not the reason
  that the policy gate gives.
* The rate of the bucket is at least one per second (`BucketAssumption`): with a
  `CardQPS` between 0 and 1 the capacity is below one token and `waitFor` does
  not return.

## What the code does that a reader may not expect

The models have these behaviours, and the properties allow for them.

* `CheckAndMark` (seen_cache.go:212) is two critical sections although its
  comment (line 210) says atomic: two callers may both be told "first". Two copies
  of one message then meet at the processing lock, which keeps their handlers from
  overlapping, but the second passes once the first has released, and the message
  is handled twice. A card action replayed under a new event id locks on that id,
  so without queues both of its handlers run side by side: the fingerprint that is
  to prevent this (pipeline.go:186-187, channel.go:282) does so only for a replay
  that is looked up after the first copy was marked, which is what the second half
  of `ExclusiveHandling` says.
* A message is marked before the policy, the self filter and the lock decide.
  Without `MarkAfterHandler` one that was refused under an old policy stays a
  duplicate after `UpdatePolicy`; `DuplicateHasTwin` therefore counts a refused
  copy as one that was dealt with. The decision of the policy gate is a pure
  function, translated and used by `Gate`; no property restates it.
* With `MarkAfterHandler` the lock is released before the mark (pipeline.go:262),
  and a redelivery in between is handled again.
* The queue of a conversation is of the kind that the first message asked for: one
  message before `OnBatchMessage` is registered, and the conversation is served one
  message at a time for good, although channel.go:140-141 says that messages are
  merged from the registration on.
* `Release` (processing_lock.go:43) has no owner: a handler that outlived its
  lock deletes the entry of the next holder.
* The handler of flushed media runs in a goroutine (media_pipeline.go:148) and may
  begin after the text that flushed it; media in a bucket are handled after
  `Close` has returned; `stream.go` starts a goroutine per frame, so that frames
  of one conversation may overtake each other.
* A delivery that races `Close` may panic (send on a closed channel) or create a
  queue nobody disposes of, and a `Run` that races it may wait for ever for a worker
  that has gone; a second `Close` panics; `Close` called by a handler that runs in a
  queue waits for itself for ever.
* The delay of the back-off (stream.go:290) overflows: after the 35th failure in a
  row it is negative, after some of the next it is the maximum again, and from
  attempt 55 on it is zero, so that only the jitter is left.
* The watchdog tries once: when its stream call fails or the context has been
  cancelled, `updateDirect` returns before the FINISHED status, nobody repeats it,
  and the card spins for good, although card.go:394-395 and SPEC.md:222-223 say
  that it does not. `EveryCardClosed` exempts a closing call that failed (`broken`).
* `Finish` that returns an error has offered the text to the webhook, with whatever
  outcome; the tail beyond a frame is offered once, and nil is returned also if
  that fails.
* A card whose delivery was not answered stays on the platform with no streamer;
  `Finish` after the watchdog returns nil and delivers nothing; within the
  cooldown the fallback of a failed `Finish` is suppressed; the limit of a frame
  is not applied by `setStatus`, `Abort` and the watchdog; the context of a card
  is not cancelled by `Abort`, by the watchdog or by a `Finish` that failed.
* A plain chunk may exceed the limit by its newline, and a chunk with fences by
  its fence lines or by one long line. A reply whose webhook has expired is not
  cut at all. A QpsLimit on a webhook is not retried as one, and a 401 does not
  discard the cached token. The throttle of a failed identity fetch is counted
  from before the fetch (bot_identity.go:103): after one that lasted
  `MinRefreshInterval` the next may follow at once, although the interval is
  documented as the one "after a failed refresh" (line 17).
* `HTTPCallbackHandler` answers 401 also to an invalid payload, for which
  http_mode.go:76 says 400.

## Plan

1. Done: cache, lock, queue with its abstract specification, media buckets,
   policy gate, pipeline, stream connection.
2. Done: streaming card, rate limiter, token, identity, replies and sends, the
   queue manager, and `Close` over the composed channel.
3. Done: the proofs above, which state every safety property of the passing runs.
4. Left: a declarative reference for `PolicyGate`, and `oapi.go`, whose token cache
   repeats that of `token.go`.
