# pgoutbox: a verification project

TLA+ models of [pgoutbox](../src/README.md), a transactional outbox on
PostgreSQL, with TLC configurations that model-check them and TLAPS proofs of
every safety property that the passing runs check. Every definition is translated
from the Go source and the SQL it runs; `PROJECT.json` gives the source lines of
each of them.

    tlc -config LeaseSafety.cfg MCExclusiveLease.tla     # one run
    tlapm ExclusiveLeaseProofs.tla                       # the proofs

## 1. The system

Producers insert messages in their own transactions. Consumers lock a batch,
hand it to a flusher, delete it and commit, in one transaction per batch. All
coordination between processes goes through five tables; what is shared inside a
process is small.

| Part | State | Operations | Talks to |
|---|---|---|---|
| Message delivery (`outbox.go`, `queries.sql`) | `messages`, row locks | `AddMessages`, `ProcessMessages` | flusher, topics row lock, expiry sweep |
| Insert trigger (`schema.sql`) | `topics` rows, `last_inserted_at` | after every insert: register new topics, bump activity | row lock of the topic |
| Exclusive lease (`outbox.go`) | `topics.exclusive_consumer_id`, `_expires_at` | `AcquireTopic`, `ReleaseTopic`, `checkExclusiveAccessForUpdate`, grace-period expiry | sessions, watcher, `ProcessMessages` |
| Consumer sessions (`outbox.go`) | `consumer_sessions` | heartbeat, refresh in an acquire, retention sweep | both kinds of lease defer to it |
| Lease watcher (`exclusive_lease_watcher.go`) | `running` map, a goroutine per hold | `Start`, `Stop`, `onCancel` | `AcquireTopic`, `ReleaseTopic` |
| Subscribe (`subscribe.go`) | a loop per call | drain, pass, re-acquire, select | PubSub, lease, `ProcessMessages` |
| PubSub (`pubsub.go`, `pgpubsub.go`) | LISTEN connection, subscriber channels | `Pub`, `PubInTx`, `Sub`, `unsubscribe`, `dispatch` | `AddMessages`, `Notifier`, `Subscribe` |
| Maintenance (`outbox.go`) | `maintenance_leases`, `last_inserted_at`, managed loops | scanner, claims, loops, `runMaintenance`, dormancy exit | sessions, messages, topics, insert trigger |
| Expiration (`outbox.go`) | `topics.expiration_nanos` | `WithTopicExpiration`, `WithDefaultExpiration` | scanner |
| Migrations, `dbwrap`, generated queries, options | - | - | - |

What is hard about it, part by part, and what makes the part correct:

- **Exclusive lease.** Liveness of a lease is a *join* of two rows, and only one
  of them is locked by those who read it. A heartbeat that never looks at the
  topic keeps a lease alive, so a hold must be *ended* by somebody, on every
  failure path. The check of `ProcessMessages` reads its snapshot before it waits
  for the row lock. Correct means: no flush under the lease of somebody else; a
  fresh hold is never expired by a leftover of an earlier one; no lease without
  somebody to end it; a running hold is not stolen; the errors tell the truth; a
  crashed or abandoned holder is replaced.
- **Lease watcher.** A goroutine that may be firing while it is stopped. Correct
  means: a caller that has stopped it has the last word, one watcher per topic,
  the report of `Stop` says whose duty the expiry is, `Stop` returns.
- **Delivery.** Concurrent batches, an expiry sweep that waits for row locks,
  crashes between flush and commit, ids that commit out of order. Correct means:
  every message leaves the table by one committed flush or by expiry, at least
  one successful flush comes before a deletion, running batches are disjoint,
  every committed message is drained.
- **Subscribe and PubSub.** Wake-ups that coalesce, get lost or race with the
  read of an empty topic; a channel that is closed while a dispatch is running; a
  lease that is lost under the loop. Correct means: no lost wake-up unless a
  notification was lost, no send on a closed channel, the backlog is drained
  whatever is lost, a cancelled call returns.
- **Maintenance.** Leases that defer to sessions, loops that outlive a scan and
  the lease they were started for, an activity stamp that producers and flushes
  may leave behind, a dormancy exit that races with a late message. Correct means:
  one loop per topic and instance, expired messages go away although instances
  crash, unexpired ones stay, a lease of an instance that is alive is neither
  taken nor deleted, and no loop is left on a quiet topic. That a quiet topic
  keeps no lease row either, as the comments say, does not hold (`MaintenanceDormant`).
- **Expiration.** Several outboxes with different options register the TTL of a
  topic at different times; loops run with the TTL of their start. Correct means:
  the topic's own TTL wins over a default.

`PROJECT.json` lists the hazards line by line with the properties that cover them.

## 2. Modules

| Module | Models | Proved about |
|---|---|---|
| `ExclusiveLease` | lease, sessions, watcher, check, trigger lock of one topic, many instances | `ExclusiveLeaseProofs` |
| `LeaseWatcher` | the watcher of one topic at the grain of its goroutines, and its callers | `LeaseWatcherProofs` |
| `HoldPromise` | abstract: holds follow one another, each ends once | implemented: `LeaseWatcherProofs` |
| `Delivery` | producers, `ProcessMessages`, the expiry sweep and their row locks | `DeliveryProofs` |
| `OutboxPromise` | abstract: messages are queued, then delivered or expired | implemented: `DeliveryProofs` |
| `Subscription` | `Subscribe` loops, `pgPubSub`, `Notifier` | `SubscriptionProofs` |
| `Maintenance` | scanner, claims, maintenance leases, loops, dormancy exit, sessions, expirations, activity stamp | `MaintenanceProofs` |
| `MC*` | constants and symmetry for TLC; `Delivery` needs none | |

The modules share a reading of the code at different grains. `ExclusiveLease`
takes a watcher for one flag and one pending write; `LeaseWatcher` shows that the
map, the contexts and the goroutines give that. `Delivery` runs without a lease;
`ExclusiveLease` reduces the batch to "flushing". `Subscription` takes a batch for
one step under a row lock and the lease for one holder. `Maintenance` reduces
producers and flushes to what they do to messages and stamps; the row locks
between its sweep and a batch are in `Delivery`, whose sweeper is its loop.

Operators with the comment `Mutant:` are plausible bugs of the definition that
follows them. No specification uses them; `PROJECT.json` names the property that
fails when the definition is replaced by one.

### ExclusiveLease

| State | Code |
|---|---|
| `seen`, `holder`, `override` | the `topics` row, `exclusive_consumer_id`, `exclusive_consumer_expires_at` |
| `session` | `consumer_sessions.expires_at` of every instance, `None` without a row |
| `beat` | the expiry of a heartbeat that has been computed and not yet written |
| `rowLock` | the transaction that has locked, or inserted, the `topics` row |
| `mgr`, `stopped`, `expiry` | where an `AcquireTopic`/`ReleaseTopic` call is, what `Stop` reported, the timestamp computed before its write |
| `watching`, `firing` | a watcher that waits; the timestamp a fired one is about to write |
| `proc`, `snapHolder`, `snapSession` | a `ProcessMessages` call or its last lease error, and the snapshot of its locking read |
| `prod` | a transaction that calls `AddMessages` |

A timestamp is the lifetime it has left, counted down by `Tick`, so that time is
unbounded and the state space finite. Timestamps are computed in one step and
written in a later one, with ticks between. `ReadAfterWait` is PostgreSQL's
re-evaluation of `FOR UPDATE OF t` after a wait: the new `topics` row is joined
with the session row of the *old* snapshot. `Legacy` is a holder of a version
that wrote its own expiry and has no session. `CommitAckLost` is a commit whose
reply is lost, `Crash` the end of a process with its transactions and watchers,
`RenewTimesOut` the 10-second bound of the best-effort writes. `AckLoss`,
`WriteTimeouts`, `Timely` and `Delayed` choose the environment of a run. `Delayed`
are the instances whose heartbeat may wait, for a connection of the pool or behind
an acquire, between computing its expiry and writing it: it then overwrites a later
expiry that an `AcquireTopic` has put into the session, because the `UPSERT` takes
the value as it comes.

### LeaseWatcher

One variable per shared object: the `running` entry, the cause of every
`watchCtx`, the state of every goroutine, the program counter of every call.
`Stop` is two steps (`LoadAndDelete` with the cancellation, the wait for `done`),
`Start` another two after it. `Serial` says whether calls for one topic overlap.

### Delivery

Ids are handed out in insertion order and become visible in commit order. A
`ProcessMessages` call is five steps: the locking read of the topic, the batch
under `FOR UPDATE SKIP LOCKED`, the outcome of the flusher, and the commit or the
rollback. A crash is a rollback. `relayed` counts commits of what the flusher
wrote through `ctx.Tx()`, `sent` what it handed to the outside. The sweep is the
`DELETE` of `runMaintenance` with its row-by-row wait for locks.

### Subscription

`pc` is the place of a `Subscribe` call; a pass reads the topic under the row
lock and either flushes or finds it empty (`ReadsEmpty`), and ends in a step of
its own, so that commits and notifications fall between the read and the select.
`remaining` is a `dispatch` that holds `subscribersMu`. `lossy` and `failed` are
history variables of `NoLostWakeup`: a notification was lost, or the pass
failed. `Publish` says how the outboxes that add messages publish: `"tx"` (with
the commit), `"generic"` (by a `Notifier` afterwards) or `"none"` (they have no
PubSub); `Listener` are the subscribers that have one, the others only poll. The
generic PubSub, which users supply, is given the delivery of `pgPubSub`.

### Maintenance

| State | Code |
|---|---|
| `up` | the ctx of `NewOutbox`; a restarted process is another instance |
| `session` | the instance's `consumer_sessions` row: none, live, lapsed |
| `ttl`, `stamp` | `topics.expiration_nanos`; the age of `topics.last_inserted_at` |
| `row`, `age` | a message and its age |
| `holder`, `fresh` | the `maintenance_leases` row; `acquired_at` within `maintenanceLeaseTimeout` |
| `scan` | where `scanTopics` is and what it has read, which it uses later: topics with messages, candidates, classes, leases |
| `managed` | the map of the same name |
| `loop` | a `runMaintenanceLoop` goroutine: its place, its TTL, its cancelled ctx, `mt.dormant`, whether this is the final pass |

A scan is four steps (reap and catch-up, candidates, claims, reconciliation), each
with its failure; a pass is the lock of the lease row, and the deletion with its
commit; the dormancy exit adds a check for messages and the release. Everything
else may come between. Time is the age of things: `Tick` ages stamps and messages
up to the bound beyond which no TTL can tell ages apart. A message commits with
any age, that of its transaction, and with or without its bump of the stamp
(`SKIP LOCKED`); a flush bumps the stamp to the start of *its* transaction. `Gone`
is the `COALESCE` shared by the three lease queries: the session of the holder
decides, and `acquired_at` if it has none. `Share` is the arithmetic of the
fair-share budget; `MCMaintenance` checks that the shares of a class cover it, and
`SharesCoverCandidates` proves it.

## 3. Runs

| Run | Instance | Shows |
|---|---|---|
| `LeaseSafety` | 2 instances, 1 worker, legacy holder, lease of 2 ticks; sessions that run out, crashes, lost commit replies, abandoned writes | `TypeOK`, `ExclusiveFlush`, `HoldDeferred`, `HeldIsTrue` |
| `LeaseLiveness` | 2 instances, one with delayed heartbeats, 1 producer, an unregistered topic, timely sessions, no lost replies, fairness | `NoStrandedLease`, `HoldNeverStolen`, `CrashedHolderReplaced`, `AbandonedLeaseLapses` |
| `WatcherSerial` | 4 holds, 2 callers, one call at a time, fairness | `TypeOK`, `LastWord`, `HeldIffWatched`, `HoldsFollowEachOther`, `StopEnds` |
| `Delivery` | 3 messages, 2 producers, 2 workers, batches of 2, fairness | `TypeOK`, `RelayedOnce`, `SentBeforeDeleted`, `BatchesDisjoint`, `Drained`, and `KeepsPromise`: `Delivery` implements `OutboxPromise` |
| `SubscribeSafety` | 2 exclusive subscribers with a PubSub, 2 messages, channels of 1, all ways to publish | `TypeOK`, `NoLostWakeup`, `NoSendOnClosed` |
| `SubscribeProgress` | 2 exclusive subscribers, one that only polls, 2 messages, a channel of 1, transactional or no publishing, fairness | `BacklogDrained`, `SubscribeReturns` |
| `Maintenance` | a default maintainer that crashes, stops, loses its session and has failing statements, an instance with a topic expiration, a lease of an old version, fairness | `TypeOK`, `NoSecondLoop`, `ReleasedByHolder`, `LeaseKept`, `AllExpire`, `QuietLoopsEnd` |

These runs find a counterexample, and each is a disagreement of the code with
what its comments say (the `findings` of `PROJECT.json` quote them):

| Run | Property | What happens |
|---|---|---|
| `LeaseUnseen` | `ExclusiveFlush` | A `ProcessMessages` call that finds no `topics` row takes no lock. If another instance then acquires the topic, the call flushes under that lease. |
| `LeaseAbandonedWrite` | `AbandonedLeaseLapses` | A flush longer than the 10-second write bound makes the grace-period write give up, but the heartbeat needs no row lock and keeps the abandoned lease alive for the life of the process. |
| `WatcherConcurrent` | `OneWatcher` | Two `Start`s for one topic can both stop nothing and store one after the other; the overwritten watcher can no longer be stopped. |
| `MaintenanceTtl` | `ExpirationHonoured` | A loop started with the default expiration keeps it after another instance has registered a longer one for the topic, and deletes messages of the topic before their time. |
| `MaintenanceDormant` | `DormantCostsNothing` | A catch-up scan has listed a topic when the loop of an earlier scan empties it, releases the lease and exits. The scan claims the lease again, but `reconcileLoops` finds the exited loop still in `managed` and starts none; the next scan reaps it and no longer sees the topic. The lease row of the dormant topic stays, although nothing has failed. |

`LeaseLiveness` excludes lost commit replies, and has to: when the commit of a
first `AcquireTopic` lands and its reply does not, the call returns an error, no
watcher exists and none was stopped, and nobody ends the lease. Setting
`AckLoss = TRUE` shows it as a violation of `NoStrandedLease`.

`LeaseSafety` excludes delayed heartbeats, and `HeldIsTrue` has to: with
`Delayed = {i2}` TLC finds a `ProcessMessages` that took its snapshot after an
acquire had refreshed the holder's session, waited while a heartbeat computed
before that acquire shortened the session again, and reports
`ErrExclusiveLeaseHeld` for a lease that has lapsed. The other properties of the
run are proved without that restriction.

### Bounds

- `LeaseDur = 2`: a timestamp can be fresh, half spent or over, so a value
  computed before a tick and written after it is older than one computed later.
  Two instances are a holder and a rival; a third would only repeat the rival.
  One worker is enough against the row lock because an instance's flush competes
  with acquires, not with its other flushes (`Delivery` has those).
- 4 holds allow a chain of a re-acquire, a release and another re-acquire, each
  with a firing predecessor.
- 3 messages with batches of 2 leave one behind; 2 producers commit ids out of
  order; 2 workers overlap when both began before the topic was registered.
- `BufferSize = 1` with 2 messages fills a channel and drops a notification.
  Pending counters (`hooks`, `inflight`) are bounded by `MaxAdded`.
- `Maintenance`: one tick is a TTL and one the slack, so a message is young or
  expired, and a stamp inside the TTL, inside the slack or beyond (`MaxAge`). One
  message of any age is enough: what matters of others is whether the topic is
  empty and how old its stamp is, and those two vary freely. Faults fall on one
  instance (`Faulty`), the one whose TTL is a default; the other takes its topic
  over and keeps its promises to it (`LeaseKept`). With one topic the budget of a
  scan never runs out; `SharesCover` checks the arithmetic for more.
- `MaintenanceTtl` doubles the explicit TTL and needs no fault. `MaintenanceDormant`
  has two default maintainers and excludes faults (`Faulty = {}`), because a
  crash or a failed statement leaves a lease row in a more obvious way. Without a TTL of its own the
  topic is registered by its one message, so no stamp is older than a message
  either: what is left is the order of the steps of one scan and one loop.

Deadlock is checked except in the `Subscribe*` and `Maintenance*` runs, where the
system may stop: every call has returned and every message is added, or every
instance is down and nothing can grow older.

### Fairness

Only what the scheduler, the database or a timer does is fair; nothing makes a
user call, cancel or crash. `ExclusiveLease`: time passes, transactions that hold
the row lock end, and statements waiting for it get it (strong fairness, because
PostgreSQL queues waiters in order and others may overtake only finitely often).
`LeaseWatcher`: goroutines run and `onCancel` is bounded by a timeout.
`Delivery`: callers call again, as `Subscribe` does; of the callers that compete
for the row lock *some* one gets on, and a flush tried again and again succeeds in
the end; maintenance does not fail for ever. `Subscription`: `EndsFairly` is the
part a cancelled call needs, `WorksFairly` adds that statements stop failing for
subscribers that stay and that their lease does not lapse for ever: without that
TLC shows a lease that lapses between every acquisition and the next pass.
Nothing is assumed of notifications. `Maintenance`: time passes, the goroutines
of every instance run, the catch-up cadence comes round, and in the end
statements do not fail and the heartbeat of an instance that stays is on time.
Nothing makes a user add, an instance start or a fault happen; `AllExpire` asks
nothing of a topic no instance that is up has a TTL for.

## 4. Proofs

One module of proofs per component, for any sets of instances, workers, messages,
topics, subscribers and holds, and any durations and buffer sizes. A theorem that
names a property proves the very definition that a run checks.

| Module | Theorem | Statement | Assumes |
|---|---|---|---|
| `ExclusiveLeaseProofs` | `TypeCorrect` | `Spec => []TypeOK` | |
| | `FlushUnderLease` | `Spec => []ExclusiveFlush` | `TopicSeen` |
| | `LockedFlush` | on any topic, a flush that owns the row lock is under its own lease or none | |
| | `AcquireHasTheLastWord` | `Spec => []HoldDeferred` | |
| | `HoldsAreEnded` | `Spec => []NoStrandedLease` | no lost replies, no abandoned writes |
| | `HeldErrorIsTrue` | `Spec => HeldIsTrue` | no delayed heartbeat |
| | `HoldIsKept` | `Spec => HoldNeverStolen` | `Timely` |
| `LeaseWatcherProofs` | `TypeCorrect` | `Spec => []TypeOK` | |
| | `CallerHasTheLastWord` | `Spec => []LastWord` | `Serial` |
| | `WatchedWhileHeld` | `Spec => []HeldIffWatched` | `Serial` |
| | `OneWatcherWhenSerial` | `Spec => []OneWatcher` | `Serial` |
| | `PromiseKept` | `Spec => HoldsFollowEachOther`, the implementation of `HoldPromise` | `Serial` |
| `DeliveryProofs` | `TypeCorrect` | `Spec => []TypeOK` | |
| | `RelayedExactlyOnce` | `Spec => []RelayedOnce` | |
| | `AtLeastOnce` | `Spec => []SentBeforeDeleted` | |
| | `NoSharedMessage` | `Spec => []BatchesDisjoint` | |
| | `PromiseKept` | `Spec => KeepsPromise`, the implementation of `OutboxPromise` | |
| `SubscriptionProofs` | `TypeCorrect` | `Spec => []TypeOK` | |
| | `WakeupNotLost` | `Spec => []NoLostWakeup` | |
| | `DispatchIsSafe` | `Spec => []NoSendOnClosed` | |
| `MaintenanceProofs` | `TypeCorrect` | `Spec => []TypeOK` | |
| | `OneLoopPerTopic` | `Spec => NoSecondLoop` | |
| | `ReleaseIsTheHolders` | `Spec => ReleasedByHolder` | |
| | `PunctualKeepsLease` | `Spec => LeaseKept` | |
| | `LongerDefaultsHonour` | `Spec => ExpirationHonoured` | no default is shorter than a topic's own TTL |
| | `SharesCoverCandidates` | the shares of a class leave none of its candidates over | |

All rest on the named assumptions about the constants, which the modules declare
and TLC evaluates in every run (that ids differ, that durations are numbers, that
`Faulty` are instances, that `MaxAge` exceeds every TTL and its slack). The
assumptions in the last column are where the code needs them, and the run that
violates a property shows it: `LeaseUnseen` without a registered topic,
`LeaseAbandonedWrite` with abandoned writes, `WatcherConcurrent` when calls for a
topic overlap, `MaintenanceTtl` with a default that is shorter. So
`LockedFlush`, `OneWatcherWhenSerial` and `LongerDefaultsHonour` are the other half
of three findings: the conditions under which the code does what its comments say.

### The arguments

Each property needs an inductive invariant; TLC checked every one of them on the
instances of the runs before its proof. Those of `ExclusiveLease` are in that
module, the others are `IInv` (and `TtlInv`) of the module of proofs.

- `ExclusiveFlush`: that a flush sees its own holder does not say why nobody else
  can write the row. `LockInv` adds that a call past its check *owns the row
  lock*, that an acquire about to commit owns it as well, and that the topic stays
  registered. Two owners of one lock are impossible, which excludes the only step
  that changes `holder`.
  `OwnerInv` says the same from the side of the lock, for topics that may not be
  registered: whoever owns it is past its check, and the lease has not moved since.
- `HoldDeferred` would be broken by a watcher that fires after the acquire, so
  `WatcherInv` says when one can exist: a watcher waits only between calls, and a
  fired one is gone once a call is past its `Stop` (`OneWriter`).
- `NoStrandedLease` needs the path of the duty: `DutyInv` follows it from the
  watcher to the call that stops it (`stopped`) to the write of the call, and ties
  every holder to an instance that has started.
- `HeldIsTrue`: the session in the snapshot of a locking read is old when the read
  returns. `SnapshotInv` says that it errs to one side only: a session row is
  replaced by a later expiry. An acquire keeps to it because the heartbeat cannot
  write between the refresh of the session in its transaction and the commit; a
  heartbeat only if it has not waited since it computed its expiry. That is what
  the proof asked for, and how the delayed heartbeat came into the model.
- `HoldNeverStolen`: the session under a running hold is live when its writes land
  in time, so no acquire decides for the lease; and none that decided before is
  left, because decision and commit are under one row lock (`HoldInv`). A delayed
  heartbeat of a timely instance still writes a live expiry (`BeatInv`). It needs
  neither a registered topic nor complete replies.
- `LastWord`, `HeldIffWatched`, `OneWatcher`: every goroutine that has not exited
  is either the entry of `running` or the one a `Stop` waits for, and the map is
  empty while a call runs (`Accounted`); calls come one at a time (`OneCall`); and
  what `Stop` has reported fits the lease: no watcher, no hold left to end
  (`LeaseKnown`). The refinement maps the goroutine of each hold to the state of
  that hold in `HoldPromise`.
- `RelayedOnce`, `SentBeforeDeleted`, `BatchesDisjoint`: a call holds the locks of
  exactly the messages of its batch, from the read to the end of the transaction,
  and a flushed batch has been sent (`BatchLocked`); messages that are not
  committed belong to one producer each, and ids not handed out have no row
  (`StagedByOne`). The first attempt was not inductive: nothing said that the
  sweep holds locks only *while it deletes*, without which a lock of a sweep that
  had ended would have counted as one that is honoured. `SweepLocked` says it.
- `NoLostWakeup`: a subscriber with a PubSub that is past `Sub` has a registered
  channel (`Registered`), and a call re-acquires only after a pass that has failed
  (`ReacquiresAfterFailure`), so a message committed after the empty read has a
  token in the channel, a notification under way, or was lost, which `lossy`
  records. `Counted` bounds the pending counters by the messages added, which the
  types need. The property is about subscribers with a PubSub; one that only
  polls has no wake-up to lose. `NoSendOnClosed` carries itself: a channel is
  closed only when no `dispatch` has it left.
- `NoSecondLoop`: a goroutine that has not exited is in `managed` (`LoopsManaged`):
  the reap takes exited ones out, `reconcileLoops` starts one only for a topic
  outside, and the scan between them belongs to the instance itself.
- `ReleasedByHolder` and `LeaseKept` come from one lemma, `LeaseMoves`: a lease
  changes hands by a claim, by the commit of a sweep or by its holder's release.
  A sweep commits long after it looked at the lease, so `SweepsLocked` carries
  what it saw on to the commit: it holds the row lock, alone, and the lease was not
  that of another instance whose heartbeat is on time, whose session is live
  (`SessionsLive`). Oldness of a lease is judged by sessions, so the proof needs
  that an instance that has started has one.
- `ExpirationHonoured`: a loop keeps the TTL of its start (`LoopKeepsTtl`), a
  topic's TTL is registered once (`TtlMoves`), and the time a scan has read stays
  right (`Honours`) if it is the topic's own or exceeds every one that may still be
  registered. A shorter default has neither.

Each is proved by one lemma for the steps of each kind of actor, with one case per
action, and the type invariant where the domains of functions matter. The lemmas
on operators (`OlderFacts`, `OlderMonotone`, `AgeFacts`, `LoopMoves`,
`LoopStates`, `CeilingCovers`) are stated once.

The proof of the types of `Maintenance` fails if `Slack` may exceed `MaxAge`: the
bound on the age of messages would be negative. `DurationsType` now excludes it,
which any instance with a topic did already.

### Model-checked only

Every liveness property, because fairness and `ENABLED` are out of reach of the
prover: `CrashedHolderReplaced`, `AbandonedLeaseLapses`, `StopEnds`, `Drained`,
`BacklogDrained`, `SubscribeReturns`, `AllExpire`, `QuietLoopsEnd`. What the
five violating runs show is a counterexample and needs no proof.

## 5. Limits

- One topic per model. Deadlocks between transactions that register several new
  topics, or scanners that insert several leases, are not in any module, nor is a
  class with more topics than a budget (only the arithmetic of the budget is).
- `finishDormantTopic` says every message of a dormant topic is expired "by
  construction". It is not: a long transaction, a bump skipped under a row lock or
  a flush that bumps to its own start leave a stamp older than a message. The
  model has all three; such a topic waits for the next catch-up (`AllExpire`),
  an hour by default, not for its TTL.
- An expiration that `NewOutbox` fails to register is not registered later, and
  the first TTL registered for a topic stays, whatever later outboxes ask for.
  Both are in `Maintenance` and no property forbids them.
- The lease row of a dormant topic may stay for ever; "dormant topics carry no
  lease row at all" (`queries.sql`) is not so. Only the dormancy exit of a loop
  deletes a row, it runs once, and a topic without messages whose activity window
  is over is a candidate of no scan. Besides the order that `MaintenanceDormant`
  shows, a row stays when its holder stops (it exits with zero writes), when the
  final pass, its check or its release fails, when the final pass meets a message
  that is flushed afterwards without a new activity stamp, and when a loop that is
  stopped because the lease is somebody else's commits its sweep first and the topic
  is dormant at the next scan. The model has all of them: with `Faulty = {i1}` TLC
  violates `DormantCostsNothing` by a crash as well. Such a row costs its place in the table, no goroutine and no
  query (`QuietLoopsEnd`), and a topic that comes back is maintained again, by the
  same holder or by one that takes the row over (`AllExpire`).
- After a wait for the lease row, `runMaintenance` judges its holder by the session
  of before the wait, and a holder that has changed, for which that snapshot has no
  session, by `acquired_at`. The model takes holder and session as they are after
  the wait. The two differ on a new holder only if its session has lapsed by then,
  or if its `acquired_at` is older than the timeout, that is, if a leftover loop has
  taken the lease over in a sweep as long. Only an instance whose session lapses
  (`Faulty`) is such a holder, and `LeaseKept` promises nothing to those.
- The row lock of the exclusivity check serialises the flushes of a registered
  topic, although `outbox.go:90-91` lets "any number of callers" drain it
  concurrently. `Delivery` models the lock; calls overlap in it as they do in the
  code, when they began before the topic had a row.
- `AllExpire` is met late where a mistake of the dormancy exit is made good by the
  catch-up; the model does not tell an hour from a TTL.
- A watcher that removed its map entry without the identity check would harm only
  overlapping calls for one topic, and those break `OneWatcher` in any case.
- A catch-up whose list of topics fails but whose deletion of sessions succeeds is
  not told from one that begins as an ordinary scan.
- One clock. Expiries are compared with the clocks of the processes and of the
  database, which differ in reality.
- A cancelled statement has either taken effect when its caller goes on or never
  will; a statement that PostgreSQL executes after its client gave up is only
  modelled for commits (`CommitAckLost`).
- An acquire computes its session expiry, and locks the session row, in one step.
  A heartbeat that lands between the two is overwritten by an expiry that is
  earlier by their distance.
- The flusher's own use of the database, connection pools, payloads, the JSON
  envelope, batch-size options, schema names and migrations are left out.
- `Subscription` takes a failed `AcquireTopic` to leave no lease and a batch to
  commit or fail as its caller is told; `ExclusiveLease` and `Delivery` have the
  other outcomes.

## 6. Not modelled

Migrations (goose runs SQL files once, under its own lock), `dbwrap` (text
substitution), functional options and the flusher map, `atomicDuration` (for
tests), the harness and the example program: none has an order of events on which
anything depends.

## 7. Plan

Done: the lease first, because a mistake there breaks the promise of exclusivity
silently; the watcher it rests on; delivery; the loop on top; maintenance and
expiration.

Every safety property that a passing run checks is proved. Next:

1. A module with two new topics and the unique keys of `topics` and
   `maintenance_leases`, for the order in which transactions insert.
2. The budget over a whole class: that instances which scan in turn and fill their
   shares leave no candidate unclaimed, from `SharesCoverCandidates`.
