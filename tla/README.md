# A TLA+ model of mqttx

mqttx keeps many MQTT sessions over the paho client in one process: it connects
and reconnects them, remembers their subscriptions, forwards messages from one
session to another and keeps a table of recent errors. Almost everything it
does is shared by goroutines it does not own: those of the application, and the
callbacks the client spawns. This directory models that part of it.

## The system

| Component | State | Operations | Hard because |
|---|---|---|---|
| Session connection (`session.go`) | `status`, `reconnectCount`, `nextReconnect`, the client | `connect`, `handleConnect`, `handleConnectionLost`, `handleReconnecting`, `Disconnect` | five writers of one status, each on a goroutine of its own, none looks before it writes |
| Session subscriptions (`session.go`, `store*.go`) | handler registry, routes of the client, the broker's list, the stored `SessionState` | `Subscribe`, `Unsubscribe`, `saveState`, `restoreState`, `Disconnect` | four copies of one list and no lock over two of them; lost answers, crashes, files half written |
| Error recovery (`error_recovery.go`) | `errors`, `errorCount`, `maxRetries`, one goroutine per new error | `RegisterError`, `MarkErrorRecovered`, `ClearRecoveredErrors`, `SetMaxRetries` | a check without the lock and three critical sections in one call; goroutines that outlive their entry |
| Forwarder (`forwarder.go`, the message pool) | `running`, `stopped`, `messageCh`, metrics, `mu` | `Start`, `Stop`, `handleMessage`, `processMessages` | a lock held while waiting for the broker; a bounded channel; pooled objects that change hands |
| Manager and events (`manager.go`, `event.go`) | `sessions` under `m.mu`, handlers under `em.mu` | `AddSession`, `RemoveSession`, `SubscribeAll`, `OnEvent`, `WaitForSession` | both locks are held while handlers, connections and the broker are waited for |
| Forwarder registry (`forwarder.go`) | `forwarders` under `sfr.mu` | `Register`, `Unregister`, `StopAll` | whoever holds a forwarder starts and stops it behind the registry's back |
| Routes (`route*.go`) | `done`, `messages`, filters, transformers | `Handle`, `Listen`, `Stop`, `processMessage` | a channel closed while a handler sends; two routes on one topic |
| Filters and transformers (`filter.go`, `transformer.go`) | the filters and transformers of a route, the message between them | `TopicMatch`, `Match`, `Transform`, `processMessage` | wildcards at the ends of a topic; JSON that is nested, missing, scalar or null |
| Certificate watcher, TLS configuration (`security.go`) | `tlsConfig`, `watcher`, `stopCh`, a goroutine | `BuildTLSConfig`, `StartCertWatcher`, `StopCertWatcher`, reload | no lock over `watcher`; two files replaced one at a time; the reload disconnects, which waits for the reload |
| Options and builders (`options.go`, `builder.go`) | options, forwarder configurations, the parts they point to | setters, `Validate`, `Build`, `Clone`, `Reset` | parts are shared by pointer; setters skip values or note an error for `Build` to report |
| MQTT 5 authentication, errors, metrics, logging | | | see *What is not modelled* |

How they meet: the manager creates sessions and holds `m.mu` until their first
connect has returned. A session reports losses to error recovery and events to
the manager's handlers. A forwarder subscribes on one session, is called by that
session's dispatcher and publishes through the manager to another; a failed
publication goes to error recovery. The registry of forwarders calls `Start` and `Stop`
as a holder of the forwarder does, and one dispatcher reads the routes all of them set.
A route hands each message to its filters and transformers. Sessions whose options share
a TLS configuration share its certificate watcher. The client delivers messages one by one, and
reads the next packet, an acknowledgement included, only after the handler of
the message before has returned or taken it over.

What makes each correct: a session's status is its connection's, once the
callbacks have run; its registry, routes, broker and store agree, once the calls
have returned; the error table counts itself and stays near its limit; a forwarder
is a bounded queue that counts what it loses, shares no buffer and ends when it is
stopped; a topic leads to no forwarder that the registry cannot end; a filter lets
through what its rule says and a JSON transformer sets the path it names and, but for
the rounding of numbers, nothing else; a replaced certificate is loaded; a call on one
object changes no other. Where the code keeps less than that, the property says exactly how
much it keeps, and two runs show the rest violated (see *Disagreements*).

## The modules

**`ErrorRecovery`** is `RecoveryManager`. `RegisterError` is four steps, since it
reads `errorCount` without the lock (`RegisterCheck`) and then takes the lock up to
three times: `RegisterClear`, `RegisterEvict`, and `RegisterAgain` or `RegisterNew`.
`info` is the sequence of all `ErrorInfo` objects in the order of their `Time`;
`errors` holds the numbers of those in the map, so that an object that left the map
is still there for the goroutine of `executeRecovery` that points to it
(`ExecuteRecovery`, `RetryCounted`). The key, a string of session, category and
error, is a model value with a category. Not in the model: the text of errors, the
events `notify` emits, the length of the backoff.

**`Session`** is the status and the backoff of one session beside the client.
`connect` is `ConnectStart` and `ConnectReturn` around the client's answer; the
callbacks are counters of goroutines that have been spawned and have not run
(`connectCalls`, `lostCalls`), so each may be as late as the scheduler likes, while
`OnReconnecting` runs in the client's own loop (`HandleReconnecting`,
`CountAttempt`). `handleConnect` is two steps, since it writes the status before it
takes `reconnectMu`. What else the callbacks do is in `Subscriptions` and
`ErrorRecovery`. The actions of the client are external, modelled from how
`session.go` uses it. `overtaken` is an auxiliary variable: the connection changed
while a report of its last change was still to come.

**`Subscriptions`** is the rest of the session: who holds which topic. Every
goroutine in a call is a record in `thread`; a call is the request, the broker's
answer (which may be lost with the connection), the update of the registry, the
collecting and the writing of `saveState`. `handleConnect` is a thread that restores
the stored topics with the stub handler of `restoreState` and then subscribes
`opts.Topics`; `handleConnectionLost` is one that loads the state and writes it
back. `Restart` ends the process at any step: a file being written is then `Torn`, a
memory store is gone, Redis keeps what it had. An expired state is one that
`restoreState` may find expired at any time. Connection and status change together
here: what happens when they do not is `Session`'s subject. `doubtful` is auxiliary:
topics with two calls at once or with a call that failed, of which no agreement can
be asked.

**`Forwarder`** is one forwarder with its worker goroutines and the client's
dispatcher. `op` is the holder of `sf.mu`, which `Start` and `Stop` keep while they
wait; `MutexFree` is the guard of every other critical section. A message is an
object of the pool, and what is told apart is who holds it. `backlog` and `ahead`
are the client's stream: messages not yet dispatched, and how many of them are in
front of the acknowledgement the holder of the lock waits for. `failed` and `refused`
are auxiliary: what the code's metrics do not tell apart.

**`LossyQueue`** is what a forwarder promises to its users, without locks, goroutines or
pool: `Accept`, then `Join` or, when the queue is full, `Lose`; `Take` and `Finish`. In
`Forwarder` the operator `Queue` is an instance of it: the channel is the queue, a
dispatcher that holds a message is `entering`, workers that hold one are `leaving`, and
the metrics are its three counters. `ActsAsQueue` is that every step of `Forwarder` is a
step of `LossyQueue` or a stutter; `Start`, `Stop`, the lock and the subscriptions are
stutters.

**`Registry`** is `ForwarderRegistry`. A call of it is a record: what it does, the
forwarders it has still to stop, and the one whose `Start` or `Stop` it is in (`call`); it
has `sfr.mu` from its first line to its last. What one forwarder does between `Start` and
`Stop` is `Forwarder`'s subject; here a forwarder is its flags, its lock (`busy`), and a
subscription at a time on the client all of them use (`routes`). `HolderStart` and
`HolderStop` are whoever `Register` or `Get` gave the forwarder to. `astray` and `late`
are auxiliary: the failures and the late calls after which no order can be asked.

**`Manager`** is the map of sessions under `m.mu` and the handlers under `em.mu`. Every
goroutine in a call is a record in `thread`: where it is (`pc`), and which events it has
to emit before it goes on (`emits`). The two locks are Go's: `mWriter`, `mReaders` and
`mPending`, a writer that waits and keeps new readers out; `emPending` and `emReaders`
likewise, without a writer since those only append. A handler that calls back into the
manager needs `m.mu` to read while its event holds `em.mu` (`EmitBegins`, `EmitEnds`); for
which events handlers do so is `asking`, chosen once. `AddSession` and `RemoveSession`
keep `m.mu` over the connection and all their events. `AllLocks` to `AllUnlocks` are the
operations on all sessions, under the read lock: `all` is `SubscribeAll` and
`UnsubscribeAll` (`UnsubscribeTo` is the same on one session), `publishAll` and
`disconnectAll` the others. The client fails a subscription when its connection is lost;
a publication stays with it, is sent again after a reconnection, and is waited for
without a timeout (`AllAnswered`), which only a client that is closed may end
(`AllAbandoned`). With QoS 0 the wait is shorter, and of the three tries of `Publish` the
one that decides is modelled. `PublishTo` and `SubscribeTo` are their `GetSession` (`Get`);
what they do after it they do without a lock. A session here is a status, a client and the callbacks
spawned for it; `state_changed` is emitted with the event next to it. `seen`, what an
observer of the events was told last, and `gap`, callers whose event came before they had
registered, are auxiliary.

**`Route`** is the routes of one topic, the case where they meet. `config` is which of the
eight ways to open a route was taken, as far as they differ. `Open` to `OpenEnds` subscribe
its sessions one by one, `Stop` to `CloseMessages` are the body of `once.Do`. `callback` is
whose function the client of each session calls, and `dispatcher` the message it is in the
middle of: the check of `done`, the filters and transformers, and the handler or the
channel are steps of their own. The filters of a `RouteConfig` are a Go slice: `onSpare`
and `spareFilter` are the element past its end, which all routes of the configuration
share, `added` what was appended to an array of the route's own. `given` and `fate` are
auxiliary. Transformers make of a message what they like, so that adding one changes
nothing in the model.

**`Topics`** is `TopicMatch`, next to the rule its comments promise (`Covers`: one level
for a `+`, any levels for a `#` at the end). A topic is the sequence of its levels. It is a
module of its own, without recursion, so that theorems can be proved about it.

**`Filters`** is what an `AdvancedRoute` does to one message: `FilterMessage` one filter at
a time, `TransformMessage` one transformer at a time, `HandOver`. `Match` and `Transform`
are recursive, as in the code, over the compositions. A JSON object is the function from
the paths it has to the scalar or the object there; `SetJsonValue` is the loop over the
parts of a path. `TransformJson` decodes the whole object into Go's `interface{}` and
encodes it again, so that a number no `float64` is equal to (`Odd`) becomes another
(`Decoded`), in fields nobody named too, and a value JSON has no form for (`Chan`) is an
error; the values set are scalars. A payload may also be nil, empty, text that cannot be
decoded into an object, or JSON's `null`, on which
the assignment to a nil map panics (stage `panic`; the session recovers and goes on). User
functions, regular expressions and the patterns of a rewrite (`becomes`) are arbitrary maps.

**`CertWatch`** is a TLS configuration with `AutoReload` that sessions share. A file is its
version, and certificate and key fit when their versions agree; `ReadCert` and `ReadKey`
are the two reads of `BuildTLSConfig` under `certMutex`, `WatchTicks` to `ReadKey` one turn
of the watcher. `Disconnect` is three steps (`StopCertWatcher`, `Stop`, `Waited` and
`Clear`) for three kinds of callers: the manager, whose `AddSession` and `RemoveSession`
exclude each other; a user of the session, which is also the manager's `DisconnectAll`, since
that takes `m.mu` only to read and so may overlap with another of its kind; and the watcher
itself when its reload reconnects. `panicked` ends the program. What is loaded is
`c.tlsConfig`: the options of the client were made from it once and do not see a reload.

**`Builders`** is a heap of options and forwarder configurations: an object is the addresses
of its parts, so that `Clone`, `Build`, `Reset` and the setters that write through a pointer
show what they share. Numbers and strings are good, default or bad, which is what the
conditions of the setters and of `Validate` tell apart. `AddSession` is `Validate` and what
the manager takes over. The `EnhancedTLS` that options point to is shared by `Clone` too;
it stays out of the heap and of `Shared` (a field `tls` says whether there is one), since
what it holds is `CertWatch`'s subject. `SharedOptions` is `Builders` under a name (`Options`), by which its
run and its theorems speak of it.

**`MC...`** modules name the model values, **`..._proofs`** modules hold the
theorems. In each module the definitions marked *Variant* are not part of the
specification: each is one action as a plausible mistake would have it, and shows
that a property notices.

## The runs

| Run | Asks | Instance |
|---|---|---|
| `ErrorTable` | count, limit, evictions and retries under races | 2 callers, 3 keys, limit 1, 3 errors created |
| `SessionReconnect` | status, backoff, and that Reconnecting ends | 3 losses, 4 failed attempts in a row, interval 2, 3, 4, 5 capped at 5 |
| `ForwarderLife` | accounting, ownership, workers; that workers end and `Stop` returns; that it is a queue | 2 topics, buffer 1, 4 messages, 2 successful Starts |
| `SubsLife` | agreement of registry, client and broker; preset handlers | 2 topics (one preset), 1 caller and 2 callbacks, 2 calls, 2 connections, 1 crash, 2 tries; a file store, and the default options |
| `ManagerLife` | count, events, reach and waits under the two locks; that nobody waits in a circle and that calls return | 1 name, 2 session objects, 2 callers, 1 callback at a time, 3 calls, 1 loss, 1 message; handlers that call back and handlers that do not |
| `Registry` | what topics lead to; what `StopAll` leaves | 2 names, 2 forwarders, 2 topics |
| `RouteLife` | accounting, silence after `Stop`, sharing, filters | 2 routes of 3 forms, 2 sessions, 2 callers, channel of 1, 2 tries; and either 2 messages, or 1 message with 1 loss, with 2 refusals or with 2 filters added |
| `FiltersAll` | filters against their rule, transformers against the paths they name | all filters and topics of up to 3 levels over 2 names; compositions 2 deep; chains of 2 JSON paths of up to 3 parts; chains of up to 3 of 8 transformers |
| `CertLife` | panics, that `Disconnect` returns, that a change is loaded | 2 sessions, 2 watchers, 2 replacements of each file; a reload that reconnects and one that does not |
| `Builders` | what a call changes; that accepted options are usable | any 4 calls, 1 good value beside the default and a bad one |
| `SubsSaved` | the store is up to date once nobody is in a call; violated | 2 topics, 2 callers, a memory store |
| `ManagerHangs` | every call returns, with handlers that call back; violated | as `ManagerLife`, 2 calls, no loss |

Bounds and why they are enough. `ErrorTable`: two callers are the smallest race, and the
excess over the limit is theirs minus one; three objects let an error be evicted and its
key registered anew while its goroutine sleeps; `RetryCap` only stops a count nobody reads
in that run above one. `SessionReconnect`: a change overtakes a report with one loss, a
status goes wrong and is put right with two, the third lets it go wrong again; four
attempts reach the cap. `ForwarderLife`: four objects serve a full buffer, the dispatcher
and two workers; a backlog of two has a message in front of an acknowledgement and another
one being handled. `SubsLife`: the caller, a restoring `handleConnect` and a late
`handleConnectionLost` can all be under way; two tries make the retry and the giving up
both happen. `ManagerLife`: two callers contend for each lock with a callback as the
third; two objects let a name be removed and added anew, and with three calls somebody
waits, adds and removes at once; one loss makes a session that is in the map disconnect
and come back. `RouteLife`: the three forms are one on all sessions and one on each, with
and without filters, handler and error; two messages fill a channel of one or are in both
sessions at once; two refusals exhaust the tries; two filters make a route copy its array,
or two routes write the same element. What may happen besides is split into four kinds of
histories, since what loss, refusal and filters have to do with each other is nothing a
property is about. `Registry`: two forwarders on two topics overwrite each other's routes
and remove them; a third would only be another of these. `FiltersAll`: a filter of three
levels has a wildcard first, in the middle and last, and a topic that is shorter, equal
and longer. `CertLife`: one more change after a half-seen one, and a second watcher after
the first. `Builders`: two calls make two objects that share a part, two more change it
through one and use it through the other.

`CHECK_DEADLOCK` is off where a bounded history ends or an application may stop calling;
in `Registry` and `FiltersAll` there is always something to do, and it is on.

Fairness. In `Session`, goroutines that can run do, and an attempt that is made again
and again succeeds at last (strong fairness of `ReconnectSucceeds`); the network need
not break nor anybody disconnect. In `Forwarder`, goroutines that can run do, the
broker answers what it was asked, and a `Stop` under way goes on; nobody need start,
stop or send. In `Manager`, goroutines that can run do, connecting ends with success or an
error, a request is answered while its connection is up, and a message's handler returns;
nobody need call, no connection need succeed, and no client need give up a publication it
cannot send. In `CertWatch`, a call that can go on does, and a watcher that can
go on again and again does (strong fairness: `sync.RWMutex` starves nobody, and `select`
takes a closed `stopCh` though ticks keep coming); files need not be replaced. This is Go's
scheduling and a broker that is up; no property relies on more.

## Disagreements

Two runs end in a violation of what the repository says of itself.

- `SubsSaved`: two calls of `saveState` at once; the one that collected first writes
  last. The store misses a subscription that succeeded.
- `ManagerHangs`: three goroutines stop each other. `AddSession` holds `m.mu` and waits
  to emit; the `connected` handler of another goroutine holds `em.mu` to read and waits
  to call `GetSession`; a call of `OnEvent` waits to write-lock `em.mu`, which keeps
  `AddSession` out of it. `ManagerLife` shows that it takes a handler that calls back:
  with none, nobody waits in a circle (`NoCircularWait`), and every call returns but
  behind a `PublishToAll` that is stranded (`CallsReturn`).

Elsewhere the property that holds names the exception. What is left out of it happens:

- `StatusAgrees`: a callback delayed past the next change of its connection leaves the
  wrong status, `Connected` over a client that is down, or the reverse
  (`session.go:631`).
- `StopReturnsUnlessBehind`: `Stop` waits for ever for an UNSUBACK that is behind a
  message, behind another whose handler waits for the lock `Stop` holds.
- `OneWorkerUntilStopped`, `StopAllStops`: a `Start` after `Stop` succeeds, forwards nothing,
  and no `Stop` undoes it.
- `RoutedIsKnown`: after a `Start` that failed half-way, after an `Unsubscribe` whose error
  nobody looks at, and after a holder's `Start` of a forwarder the registry has let go, a
  topic leads to a forwarder that `Unregister` and `StopAll` do not end.
- `PresetKeepsHandler`: only topics in `opts.Topics` keep the application's handler over a
  connection of a persistent session; the others get the stub of `restoreState`.
- `DisconnectReturns`: a reload calls `Disconnect` on the watcher's goroutine, which waits
  for itself (`session.go:164`): the session is never reconnected with the new
  certificate, and whoever stops the watcher later panics or waits too.
- `PanicNeedsOverlap`: of two calls of `StopCertWatcher` at once one may panic.
  `ChangeIsLoaded`: a change between `BuildTLSConfig` and the watcher's first look is not
  loaded until the next one.
- `CallsReturn`: `PublishToAll` holds `m.mu` while it waits, without a timeout, for the
  acknowledgement of each session (`session.go:466`). If the connection is lost meanwhile
  and never comes back, it never returns; nor do `AddSession`, `RemoveSession` and, behind
  them, all the others.
- `JsonPathsSet`: integers above 2^53 in fields nobody named are rounded by every JSON
  transformer (`transformer.go:145`).
- `OthersKept`: the options a session builder makes and their clones share one storage, and
  forwarder configurations one topic map (`Shared`).

Met while modelling and without a property: with the default options, a clean session,
`IsSubscribed` says yes after a reconnection for topics the broker has dropped; an error
marked recovered absorbs its next occurrence, which is neither active nor recovered again;
`WaitForSession` times out on a session that is connected if the event comes between its
look and its registration (`WaitMissesOnlyTheGap` says that nothing else is missed), and
leaves its handler registered either way; a route whose opening failed keeps the topic's
callback, taken from the route that had it; two routes opened from one `RouteConfig` whose
`Filters` slice has spare capacity overwrite each other's added filter (the exception in
`FiltersHold`); `errorLimit` can be exceeded by the callers that pass the unlocked check
together (`LimitWithConcurrency` is the exact bound), and such an excess does not shrink
again; a repeated error at the limit evicts though it adds nothing; `RetryCount` counts
repeated registrations as well as retries, and `executeRetry` retries nothing; the first
interval of a reconnection is not capped, and `nextReconnect` never reaches the client;
`session_ready` is documented and emitted nowhere; a first connect that fails is never
tried again; the second session that shares a TLS configuration finds the watcher started
and only logs it; `Validate` writes defaults into options it then refuses; the builder's
`Persistent` turns the clean session off, `WithPersistence` does not; a JSON path on a
payload of `null` panics, and the message is in no count; `#` and `+` match topics that
begin with `$`.

## The proofs

All theorems hold for every value of the constants that satisfies the named
assumptions; none of the assumptions is more than what `Validate`, the constructors
or finiteness give.

- `ErrorRecovery_proofs`: `TypeCorrect`, `TableConsistent` (`CountMatches`),
  `BoundedExcess` (`LimitWithConcurrency`). The limit is not inductive
  as it stands: a caller at `evict` is about to insert and has not been counted. The
  invariant `IInv` adds that every caller past the check counts towards the excess and
  that the table is finite, so that cardinalities move by one; each action then has a
  step in `NextIInv` and the counting is in the lemmas `InsertingFinite`,
  `EnterInsert`, `LeaveInsert` and `ClearCounts`. Two theorems are about steps,
  `ActiveLeavesByEviction` (`ActiveLossOnlyWhenFull`) and `RetriesAreOwned`
  (`RetriesCreditedToOwner`): from the same invariant, only one action can lose an active
  error (`LossIsEviction`), and only two can raise a count (`RaisedByOwner`).
- `Session_proofs`: `TypeCorrect`, `StatusAgreement` (`StatusAgrees`),
  `ReconnectingAnswered`, `Backoff` (`BackoffForgotten`), `BackoffBounded`
  (`IntervalBounded`). The invariant says for each state of the client which reports may be
  under way and, when nothing was overtaken, which status stands meanwhile.
- `Subscriptions_proofs`: `TypeCorrect`, `RegistryFollowsClient` (`RegistryAgrees`),
  `StubsAreReplaced` (`PresetKeepsHandler`). Agreement of registry, client and broker is
  broken in the middle of every call, so the invariant says, for a topic that is not
  doubtful, that at most one goroutine has it in hand, and for each point of that call
  which of the three it has brought up to date (`CallFits`); where nobody has it, they
  agree (`TopicFits`). A step is one of a call on the topic (`ActsOnTopic`), or it is
  elsewhere and may at most make the call's request fail (`Elsewhere`). That a stub does
  not stay rests on the order of `handleConnect`'s list: whoever has a stub of a preset
  topic to subscribe, or is subscribing it, still has the topic itself on its list
  (`StubFits`), and where the stub is registered somebody is still to replace it
  (`PresetFits`). Crashes, lost connections and callbacks side by side are all in `Next`.
- `Forwarder_proofs`: `TypeCorrect`, `Ownership` (`OneOwner`), `Accounting`
  (`Conservation`), `OneWorkerAtMost` (`OneWorkerUntilStopped`), `ForwarderIsQueue`
  (`ActsAsQueue`). The invariant adds `HoldsWhenBusy`: a goroutine holds an object
  exactly while its place in the code says so. Four steps move an object or count a
  message (`AcceptMoves`, `SendMoves`, `TakeMoves`, `RecordMoves`); `NothingMoves`
  does for all the others. The same four are the steps of the queue: `ForwarderIsQueue`
  maps each of them to one and, with the invariant, the rest to stutters. That one worker
  is alive rests on when one is spawned: by a `Start`, which finds `running` false.
- `Registry_proofs`: `RoutesAreKnown` (`RoutedIsKnown`), `StopAllIsThorough`
  (`StopAllStops`). A route outlives the call that set it, so the invariant says what is
  true before it is one: a forwarder being started is known, astray, or the registry's own
  (`StartsAreKnown`); a route that is not astray is of a forwarder that runs, or is in a call
  with the topic in its `todo` (`RoutesAreOwned`); and what a `StopAll` is past does not
  run unless it was late or stopped (`PastIsStopped`).
- `Manager_proofs`: `TypeCorrect`, `ActiveIsMapSize` (`CountIsMapSize`), `LastEventIsTrue`
  (`EventsTellTheMap`), `NobodyLost` (`NoOrphan`), `NobodyMissed` (`AllReached`),
  `GapIsTheOnlyMiss` (`WaitMissesOnlyTheGap`). The ground is `Structure`: who is where the
  code has `m.mu` is its holder (`LocksFit`), and what a goroutine knows at each place is
  still so (`ThreadsFit`: a session being added is not in the map, one being deleted is,
  the event in hand is the truth). The rest says what each property needs in between: the
  observer knows the map or the event is in somebody's hand (`AllTold`); a client that
  lives is in the map or being added (`AllReachable`); and for a caller inside
  `WaitForSession`, from its look at the map on, a session of its name is not connected,
  has its event still under way, or came in the gap, one that an `AddSession` has not yet
  put in the map included (`WaitsFit`). Most actions touch few of these: a lemma for each
  part names the steps that do (`InsertIs`, `DeleteIs`, `ClientSteps`, `StatusSteps`,
  `GapSteps`). `NobodyWaitsInCircle` (`NoCircularWait`) is the safety behind `CallsReturn`: with
  handlers that keep to themselves, whoever waits for `m.mu` or `em.mu` waits for
  goroutines at work whose `Rank` is lower (3 for a reader of `m.mu` or a writer that has
  yet to announce itself, 2 for one that has, 1 for whoever needs `em.mu`, 0 for whoever
  waits for no lock), so that no circle can close. It adds the converse of `LocksFit`: a
  holder is where the code holds the lock (`Holders`). The hypothesis is needed:
  `ManagerHangs` is such a circle. That the waits then end is fairness, and stays with TLC.
- `Route_proofs`: `TypeCorrect`, `ReceivedIsAccounted` (`EveryMessageAccounted`),
  `StopIsCheap` (`StopCostsOneEach`), `StopSilences` (`StoppedIsSilent`),
  `SubscribedUnlessShared` (`DeafOnlyIfShared`), `HandledHasPassed` (`FiltersHold`). A
  message in a dispatcher's hand is of a route that has begun and, if it came late, is
  still at its check (`MessagesFit`); `done` is closed before the channel (`DoneFirst`),
  so that panics and messages past the check are together at most the sessions of the
  route (`PanicsBounded`). What a strict route's opener is past is subscribed
  (`StrictAreSubscribed`), and a route has the filters it was given or they were
  overwritten (`FiltersKept`). The messages in hand can be counted since the sessions are
  finitely many (`SessionsAssumption`: they are the entries of a Go map).
- `CertWatch_proofs`: `PanicOnlyInOverlap` (`PanicNeedsOverlap`). As long as no two calls
  overlapped, at most one caller is past its check, and what it is about to close is open.
  The module has the theorems of `Builders` too (as `Options`): `CallsKeepOthers`
  (`OthersKept`) and `TakenIsUsable` (`AddedIsUsable`), for any number of calls. The
  invariant is about aliasing: every part of an object is on the heap with its fields
  (`Formed`), and what should be one object's own is nobody else's, as its own part or as
  one of the shared (`Apart`). What `Validate` writes is told once (`ValidatedIs`).
- In `Route_proofs` too, about `Topics`: `MatchIsCovers`, for filters and topics of any
  number of levels, and `PlainMatchesItself`. The loop is a conjunction over the levels,
  so that no induction is needed: the cases are where the filter ends.

With these, every safety property of the passing runs is a theorem but the two of `Filters`.

Only model-checked: all liveness (`ReconnectingEnds`, `WorkersEnd`,
`StopReturnsUnlessBehind`, `CallsReturn`, `DisconnectReturns`, `ChangeIsLoaded`), which is
out of the prover's reach; and `FiltersRespected` and `JsonPathsSet`, about what `Match`,
`Transform` and `SetJsonValue` compute (recursive operators over compositions and paths,
which the prover cannot expand).

## What is not modelled, and the plan

Not yet, in this order:

1. `Session.Publish`: up to three tries, of which a lost acknowledgement makes a duplicate.
2. `Manager` on two names, where an operation on all sessions visits more than one;
   `AddTransformer` on the routes.
3. Abstractions: a session as its application sees it (`Connected`, `Disconnected`,
   `Closed`), implemented by `Session` as long as nothing is overtaken; `LossyQueue`,
   implemented by `Route`.

Left out for good: MQTT 5 authentication (nothing in the library sends or receives the
AUTH packets it is about, so its steps have no order to get wrong), how TLS files are
parsed, Redis and file formats (a state is read back as it was written or not at all),
metrics and their export (atomic counters on which nothing depends), error values and
logging, the pools other than the message pool (nothing in the library uses them),
examples and test doubles.
