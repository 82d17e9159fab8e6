# Verification of doze-aws

doze-aws is a local emulator of some twenty AWS services in one Go process. Each
service keeps its state in a bbolt file of its own; services call each other in
process (`internal/peercall`). This directory holds TLA+ models of the parts with
the hardest behaviour, TLC configurations that check them on small instances, and
TLAPS proofs that hold for every instance. SQS is modelled and proved about in
full: it is the queue the other services deliver through, and it has the richest
mixture of transactions, background work, timers and goroutines that wait on each
other. Of the other services the part that changes state under concurrency,
failure or restart is modelled.

Run a check with `tlc -config <run>.cfg <module>`, a proof with `tlapm <module>.tla`.

## 1. Inventory

| Part | State | Operations | Hard behaviour | What makes it correct |
|---|---|---|---|---|
| SQS store (`sqs/store.go`, `receive.go`, `attrs.go`, `sweeper.go`) | queue definitions, one message bucket and one dedup bucket per queue, bucket sequences | create, configure, delete, purge, send, receive, peek, delete and retime by handle, move task, sweep | positions reused after a purge, redrive to a queue that may be gone, FIFO group locks, a janitor that works on an old list and an old clock reading | no message lost, doubled, overwritten, delivered out of group order, deleted on a foreign handle or expired early |
| SQS long poll (`sqs/receive.go`, `notify.go`) | the locals of each receiving goroutine, the notifier's map of channels | wait, signal, forget, sleep, wake | commit and signal are two steps, register and check are two steps, forget drops a channel by name | no lost wakeup, no leaked entry, every call returns |
| SQS request layer (`sqs/actions.go`, `codec.go`, ...) | none | parse, validate, render | two wire protocols | parity with the service model (tested) |
| SNS (`sns`) | topics, subscriptions | publish, fan out to SQS, Lambda, HTTP | one of several deliveries fails | each subscription independent |
| Kinesis (`kinesis`) | streams, shards, records | put, split, merge, iterate | reading across a reshard, iterator expiry | one open shard per key, ranges in order, no record passed over |
| Lambda (`lambda`, `internal/lambdaruntime`) | functions, mappings, runner pools | invoke, poll SQS/DynamoDB/Kinesis, restart, reap idle | pollers stopped and restarted, timer against acquire, a process that dies with work in hand | one poller per mapping, exact counters, no process out of reach, each invocation answered once |
| DynamoDB (`dynamodb`, `internal/ddb`) | tables, indexes, streams, request tokens | put, update, delete, query, transact | expired rows that are stored but invisible, replay of a token, pruning of the log | index complete, every visible change logged, numbers never reused, a token applied once |
| S3 (`s3`, `internal/s3store`) | buckets, versions, uploads in bbolt; blobs on disk | put, copy, delete, multipart | four separate steps in CompleteUpload, blobs outside the transaction, crashes | no version without its blob; to clients every operation is atomic; legal holds block deletes |
| Step Functions (`stepfunctions`, `internal/asl`) | executions, frames, task tokens, activities | start, drive, deliver, redeem, time out, redrive | results, timeouts and stops race for one frame; joins, redrives, restarts | a running execution can always go on, a parked frame is redeemable, branches end with their join |
| EventBridge (`eventbridge`) | buses, rules, archives, schedules | put events, match, deliver, replay, fire schedules | replays while rules and archives change; API destinations are called in the background, twice on a failure | one call per target and pass, the calls of the first pass before those of a replay |
| CloudFormation (`cloudformation`, `internal/cfn`, `internal/provision`) | stacks, change sets | create, update, delete, change sets, roll back | one resource of several fails, and so may the undoing; nothing is locked | rollback leaves the account as it was, as far as the report tells what was made |
| Secrets Manager (`secretsmanager`) | versions, staging labels | put, move labels, delete, rotate | a rotation is four calls with anything in between | a label names one version, a current value and the way back stay |
| Logs, CloudWatch (`logs`, `cloudwatch`, `internal/logship`, `internal/metricship`) | groups, samples, alarms | put, filter, fan out, evaluate | bounded queues whose worker may die | drops reported, alarm state follows the data |
| IAM, STS, KMS, SSM, API Gateway | definitions, versions, keys | single-transaction reads and writes | - | - |
| Gateway, peers, protocols, console, tracing, commands | none or derived | routing, encoding, presentation | - | - |
| lazybolt, bg, schemaver, migrate | open handles, schema stamps | open on first use, close, contain panics | use after close, two first users | one open file, no reopening after close |

Interaction: every write of a service is one bbolt read-write transaction, and
bbolt runs one at a time, so an API call that writes is atomic. What is not
atomic is what surrounds the transactions: notifier calls after a commit, the
janitors' several transactions, pollers that call two services in turn, and
anything kept in memory only.

`PROJECT.json` lists every component with its status, and under `hazards` each
place where a test would hardly reach, with the property that covers it or the
reason none does.

## 2. Modules

| Module | Models |
|---|---|
| `SqsStore` | the store: one action per operation, each a whole transaction; properties |
| `SqsLongPoll` | extends `SqsStore`: receivers in Receive's loop and the notifier |
| `SqsStoreProofs` | types and bucket keys, by induction over the operations |
| `SqsStoreSafety` | message accounting, deletion, retention, deduplication, FIFO groups and redrive, proved |
| `SqsLongPollProofs` | the receivers and the notifier, proved |
| `Kinesis`, `KinesisPoller` | a stream with its shards and records; Lambda's poller reading it |
| `LambdaPool` | a function's pool of runners, its updates, timers and shutdown |
| `LambdaRunner` | one runner: queue, process, runtime API, reaper |
| `LambdaMappings` | one event source mapping and its pollers |
| `StepFunctions` | one execution under its driver |
| `S3Api`, `S3Store` | what a bucket promises; a bucket as it is built, shown to implement it |
| `DynamoDB` | one table with index, TTL, change log and transactions |
| `SecretsManager` | one secret with its labels and rotations |
| `EventBridge` | one bus with a rule, an archive and replays |
| `CloudFormation` | stacks, change sets and rollback over resources others touch, too |
| `LazyBolt` | the lazily opened database behind every store |
| `Logs` | a log group, its stream and filters, and the worker behind PutLogEvents |
| `Shipper` | the batching shippers of log lines and of metrics |
| `KinesisProofs`, `LambdaProofs`, `ComputeProofs` | proofs about the stream and its poller; about mappings, runners and pools; about the lazily opened database, CloudFormation and executions of Step Functions |
| `StorageProofs`, `DataProofs` | proofs about S3 and DynamoDB; about secrets, the event bus, log groups and shippers |
| `MC_SqsStore`, `MC_SqsLongPoll`, `MC_Kinesis`, `MC_Compute`, `MC_Data` | instances for the TLC runs |

`SqsLongPoll` is composed with `SqsStore`, and `KinesisPoller` with `Kinesis`: the
receivers and the poller use the actions of the store and the stream. The other
services share no state, so their instances are put side by side in `MC_Compute` and
`MC_Data`: an initial state chooses the part that is `active`, and a behaviour is one
of that part. Interleaving them would multiply their states and show nothing more.

### SqsStore

Variables correspond to the buckets: `live`/`cfg` are the `queues` bucket, `msgs[q]`
with `lastSeq[q]` the bucket `q:<name>` and its NextSequence counter, `dedup[q]` the
bucket `dedup:<name>`. `handles` is what callers hold, `sweep` the locals of the
janitor between its transactions, `now` the clock. `fate` and `admitted` are
history: what became of each id, and which FIFO sends were enqueued.

| Action | Code |
|---|---|
| `CreateQueue`, `SetAttributes` with `AttrsAccepted`, `ApplyAttrs` | `store.CreateQueue`, `store.SetAttributes`, `applyAttrs`, `applyRedrive` |
| `DeleteQueue`, `Purge` | `store.DeleteQueue`, `store.Purge` |
| `SendBatch` with `Refused`, `IsDuplicate`, `Enqueued`, `Posted`, `Recorded`, `Pruned` | `store.Send`, `SendBatch`, `sendIn`, `lookupDedup`, `recordDedup`, `gcDedup` |
| `ReceiveOnce` with `LockedGroups`, `Ready`, `Heads`, `Deliver`, `ToExpire`, `ToMove`, `Arrivals` | `store.receiveOnce`, `moveToDLQ` |
| `Peek` | `store.Peek`, the console's inspector |
| `DeleteBatch`, `ChangeVisibilityBatch` with `Named`, `Retimed` | `store.Delete`, `deleteIn`, `changeVisibilityIn` |
| `StartMessageMoveTask` | `store.StartMessageMoveTask` |
| `SweepBegin`, `SweepQueue` | `store.Sweep`: the listing transaction, then one per queue |

`receiveOnce` is a walk over the bucket in key order with an early stop; the model
gives its outcome in closed form: which messages are delivered (`Deliver`), how far
the walk got (`Walked`), and which of the messages it met expire or are redriven.

Abstractions. A body is its length, which is also its MD5 (two bodies collide
exactly when they have the same length; a caller's key never equals an MD5). Time
is whole seconds; the dedup window is compared in whole seconds by the code as
well. `newID` draws fresh ids. A refused call, a read and a call that names nothing
change nothing and have no action. applyAttrs ranges over a Go map, so a call that
holds both FifoQueue and RedrivePolicy may be judged by either flag. Tags, the
queue policy and the log of move tasks are read by no store operation and left
out. bbolt is external: its transactions are atomic, durable and serialised, so a
crash loses only the notifier's map and the receivers, which no stored state
refers to.

### SqsLongPoll

Each receiver goes round register, check, decide, sleep; `call[r]` holds its locals.
A Go channel is known by who holds it: `onMap` are the receivers whose channel is
the one in the map, `woken` those whose channel has been closed, the rest hold one
that a forget has dropped. `signals` and `forgets` count the writers that have
committed but not yet called the notifier. The same store actions are used, so what
is proved about them holds here.

### Kinesis and KinesisPoller

`shards` and `recs` are the stream record and the record buckets; `era` counts
creations of the stream (history). `CreateStream`, `DeleteStream`, `SetRetention`, `Put`,
`SplitShard`, `MergeShards`, `UpdateShardCount` and `Sweep` are the transactions of
`kinesis/store.go` and `reshard.go`. The hash space is `0..MaxHash`. The poller's locals
are `pol`: `List`, `OpenIterator`, `Fetch`, `Answer` and the invocation are the calls of
`pollKinesis`; GetRecords is two steps, because the code fetches in one transaction
and looks at the shard in another. `OpenIterator` is one step where `hGetShardIterator`
has two transactions: one looks the shard up, the other finds its oldest record. What is
kept of the first, that the shard is there and where it starts, changes only if the stream
is deleted and created again in between, which is the case left out. `taken` is what was
handed over (history).

### LambdaPool, LambdaRunner, LambdaMappings

What a mutex covers is one action: `s.mu` over the map of pools and a whole stop,
`p.mu` over acquire, release and reapIdle, `r.mu` or one channel operation in a runner.
In `LambdaPool`, `pool` holds each pool's runners, counters and timer, `inMap` the pool in
the service's map, `reaping` and `stopping` the runners that a reap or a stop has taken
out and stops one by one. A timer that fires leaves a callback that may run at any
later time, after acquire has stopped or re-armed the timer as well. `phase` is how far
Close has come, and `made` of a pool the phase it was made in: Close stops the pools of the
map, waits for the pollers, and only then cancels the shutdown context that `runnerFor`
looks at, so a pool can still be made while it waits. In `LambdaRunner`
an invocation moves from the queue to the hand of a GET next handler, to pending, to
a result; the process may die at each point, and the reaper answers what is left. In
`LambdaMappings` each handler stores, stops and starts in separate steps; `Reboot` ends
the process between any two.

### StepFunctions

`frames` and `tokens` are what SaveTransition has stored, `nudged`, `busy`, `calls` and
`inbox` the driver's memory. A turn begins with a nudge, a delivery or a timer and
advances frames until none is runnable. A state is described by its type, successor,
catcher, retries, timeout, and for a map its items, limit and tolerance (`StateRecord`). The
limit is there twice: as the map spawns its items by it (`limit`), and as PromotePending finds
it later (`kept`). With a MaxConcurrencyPath the first is what the path selects and the
second the literal MaxConcurrency, or none: what was selected is not stored on the frame.
Results are ok or a failure. What paths, selectors, Assign and JSONata compute is left
out; that they may fail on the data is not: a `frail` state may fail on entry, when it
wakes, on its way out and inside its own Catch, and a frail map also at a later item,
with the branches of the earlier items spawned. These branches are marked `stray`, the
one field of a frame that is history and not stored. A timer fires one frame a turn where
fireDue may fire several.

### S3Api and S3Store

`S3Api` is what clients may rely on: a stack of versions per key, and operations that
happen at once. `S3Store` is the code: `vers`, `cur` and `uploads` are bbolt rows, `disk` the
blob files, `req` the requests between their steps. A put writes a blob, commits a row
and removes the replaced blob; a completion reads the parts, concatenates their
blobs, commits, and drops the upload; `S3Crash` ends all requests anywhere. The
refinement maps a key's rows, by their sequence numbers, with the bodies read from the
files, to the abstract stack. In `MC_Data` a bucket's behaviour has uploads or locks, not both.

### DynamoDB, SecretsManager, EventBridge

A DynamoDB row is its index key and its TTL; a write is decided on what `loadItem`
shows, which is nothing once the TTL has passed, and is made on what is stored. A
secret's version is its set of labels; the rotation function is external and does
what AWS prescribes for it, or fails. An event is its PutEvents entry; `putting` and
`replaying` are the requests between their transactions and calls, and `got` counts
what has reached a target, per target, event and pass (history). The targets among
`HttpTargets` are API destinations: a call to one starts a goroutine, and `sending` says how
many attempts each such goroutine may still make. A request that fails may have reached
its endpoint all the same.

### CloudFormation and LazyBolt

A resource is its physical name, and `world` the set of names that are there. A deploy probes
for taken names, applies one resource after the other, and on a failure destroys what it
made and, for an update, applies the previous template; each call may fail, also one that
comes after the call that made a resource. What it made is what the report of Apply calls
created (`made`), and `Report` gives the kind of a resource: one that is called created; a
bucket with notifications, called created and then, in the phase of the notifications,
updated (`AmendOne`); or one of which the last word may be either, such as a topic or an
API. `Early` are the names whose phase comes before the notifications. Users make
and delete resources between any two calls, and the process may die. `calm` is history:
nobody else has changed anything since the request began. Kinds that are only ever
upserted (rules, alarms, dashboards), exports and nested stacks are left out, and the
instance has one request at a time. `LazyBolt` has the two halves of `handle` under the
read and the write lock, transactions without a lock, and a Close that waits for them.

### Logs and Shipper

`Logs` follows a request through its transactions (`mustGroup`, then the write, then
`forget` or `enqueue`), and the worker through its select, its drain, the lookup of the
compiled filters and the delivery. The fan-out of subscription filters (`fanout.go`) and
the emitter of metric filters (`metricemit.go`) have the same shape, so an initial state
chooses which one the behaviour has (`consumer`); they differ in what DeleteLogGroup
removes, in whether a pattern is compiled before it is stored, and in whether the
lookup keeps the mutex while it reads (`KeepsLock`). A batch is a flag: whether it was
queued before quit. The worker may panic on any batch.

`Shipper` is `internal/logship` and `internal/metricship`: Put and its timer, Flush by the
timer or by callers, the worker and Close, with take and send as separate steps as in
the code. `handled` is history. A service that is not enabled turns the shipper off and
throws away what is pending.

## 3. Runs

| Run | Question | Bounds |
|---|---|---|
| `sqs_standard` | messages and handles across purges, deletions, redrives, batches, sweeps; reclamation while queues are purged, re-created, reconfigured | two queues, two ids, clock to 3 with retention 2 or 1 |
| `sqs_fifo` | group order and exclusion, receive limit, dedup window, move tasks also onto the source | two FIFO queues, two ids, one of them delayed, timeouts 0 and 1, window 0 (the second of the send), clock to 1 |
| `sqs_wakeup` | lost wakeups when sends, redrives and move tasks fill a queue | two queues, two receivers, one id, clock to 1 |
| `sqs_receivers` | leaks and return of every call when the queue comes and goes | one queue, two receivers, one id, clock to 2 |
| `kinesis_stream` | routing of keys over reshards, what iterators pass over, and whether what is opened is read | two hashes, two records, three shards, one creation, clock to 2, batches of one |
| `compute` | pool, runner, mapping, execution, stacks, database: see the table below | two pools, two runners and versions; three invocations, two processes; two requests, three pollers; a machine of six states with a map of three items two at a time and one of two items whose limit comes from a path; three resources, one of each kind of report, in two templates, one stack, one request and a user who makes and deletes one of the resources; three callers of a database |
| `data` | bucket, table, secret, bus, log group, shipper: see the table below | one key, two versions, three blobs, one upload of two parts, two requests; two items, a log of one record; three versions, two rotations; two events, two replays, two archives and a target that is called at once, or an API destination and one event; two requests, filter names and patterns, a channel of one batch; three log events, two flushes |
| `sqs_gone_target`, `sqs_lost_on_forget`, `sqs_lost_on_expiry`, `sfn_restart` | see section 4 | smallest instance that shows it |
| `ddb_log_pruned` | see section 4 | a log of three records and transactions of up to three writes: as in the code (1000 and 100), one transaction is no longer than the log |

| Property | What it says |
|---|---|
| `KeysRouted` | every key has one open shard, and the ranges of the shards it went through order its records |
| `NothingPassedOver`, `NullMeansRead` | an iterator is never beyond a stored record that was not taken; a null iterator means that all was taken |
| `OpenedIsRead` | liveness: a record in a shard the poller has opened is taken, unless it expires, the stream goes or the process restarts |
| `ScaleToZero` (`CountersExact`, `NeverReapsBusy`, `IdleIsTimed`), `PoolAccounted` | the pool's counters are exact; scale-to-zero takes no runner in use and forgets no idle pool; no process is out of reach of Stop, and once Close has begun no pool is open or opens, but for one made while it waits for the pollers |
| `HandedOverOnce` | an invocation is in one place, with one process, and answered once |
| `PollersTracked` | one poller per mapping, and the one the stored mapping asks for |
| `ExecutionMoves`, `BranchesGoverned` | a running execution has something that can move it, unless a redrive left it on a join that has nothing to wait for or a map holds items back by a limit it has not kept; tokens stay redeemable; until a redrive, branches end with their join (those below an abandoned frame, and strays, aside) and respect MaxConcurrency |
| `RollbackRestores` | a deploy recorded as rolled back has left the account as it was, but for what the report did not call created (`Unknown`) |
| `NoHandleLeaks` | one open handle, none after Close, every transaction on one that ensure has passed |
| `RowsAgree`, `ApiOK` | every version can be read back and the index shows the newest; the bucket implements `S3Api` |
| `IndexCovers`, `TableHistory` | the index misses no row; every visible change is logged under a fresh number (the changes of a transaction if the log was within its limit before it, see section 4); a token is applied once |
| `OneVersionPerLabel`, `LabelsHandedOver` | a label names one version; a current value, and the way back to the one before, stay |
| `SentInOrder` | a pass reaches a target once at most, an API destination as often as its two attempts do, and a replay calls only for what has had the calls of its first pass; the background deliveries of the two may overtake each other |
| `FanoutFresh` | once the requests that changed the subscriptions have returned, the fan-out's cache is what is stored |
| `TelemetryKept` | a close that returns has published, or tried to publish, what was queued before it, a worker that is gone is marked so, and every pending event has a flush coming |

Several of these are conjunctions of named parts (`PoolAccounted` of
`ProcessesAccounted`, `OneOpenPool` and `ClosedForGood`, `TableHistory` of three action properties, ...),
each stated in its module.

Every bound is a constant; in the SQS modules `MaxTime` stops the clock, `MaxSeq` the numbering by move
tasks, `MaxReceives` the deliveries of a message, `MaxBatch` the size of a receive,
`MaxWait` is maxWaitTimeSeconds scaled down, `MaxOwed` the writers of a queue between
commit and notifier. `Ops` selects the operations of an instance. They are enough
because the properties relate at most two messages, two queues and two receivers,
and each instance has a time beyond its retention, window or visibility timeout: in
every run each operation selected does happen, and each property is violated when
the definition behind it is weakened (the operators called "Weakened form of ...").
Ids and receivers are interchangeable, so safety runs use symmetry; runs with
liveness do not. `data` permutes the names of requests (which also serve as item
keys, rotations and replays) and of bodies (which also serve as version ids and
events); every module treats each of these sets uniformly, and all properties of the
run are safety properties.

In the other modules the bounds are the constants called `Max...` and `TxMax`,
`StreamMax` and `SecretTime`. They leave room for what the properties are about: a
second life (of a process, pool, poller, archive), a step of another actor between
any two steps of the first, and a clock beyond every window. `Retries` is 0 in
`compute`, so an Event invocation that fails is not tried again: a retry is another
invocation to the pool, and there are two callers. `MaxCreates = 1`: a bucket that is deleted and
made again under a running request is left out (section 4). With uploads, versioning
is chosen before the first blob is written and is not suspended; the instance with
locks changes it at any time. A Logs channel holds one batch and a group one filter,
so that both limits are met. The two largest runs, `compute` with 3.2 million distinct
states and `data` with 0.8 million, take two to three minutes on two cores. Runs with
`CHECK_DEADLOCK FALSE` stop at their bounds.

Fairness. `ExpiredReclaimed` assumes that the janitor keeps running: `bg.Tick` contains
its panics and the ticker fires for as long as the server does. `ReceiveReturns`
assumes that a goroutine that can go on does, that a timer that is due fires, and
that time passes; it assumes nothing of senders or other receivers. `OpenedIsRead`
assumes weak fairness of the poller's loop only: its goroutine goes on and its
sleeps end. Reads may fail, iterators expire and the stream change at any time.

What holds, in short: no accepted message is lost, doubled or overwritten; handles
of earlier incarnations are harmless; FIFO groups are delivered in order and one at
a time; a poison message is received at most as often as the policy says; the dedup
window is exact to the second; retention neither fires early nor forgets a queue
nobody reads; the notifier's map does not leak; every receive returns. The table
above says what holds of the other services.

The FIFO and poison properties are stated for queues that are configured before
they are used: `SetQueueAttributes` may flip FifoQueue on a queue with messages in it
or lower the receive count below counts already reached, and nothing is claimed for
that. Order also presumes that the dead-letter queue exists (section 4). The
long-poll instances leave out ChangeMessageVisibility, DeleteMessage and
SetQueueAttributes: these can make a message deliverable, and the code does not
signal for them.

## 4. Findings

* `sqs_gone_target`. `attrs.go:277-279` says that with a missing dead-letter queue "the
  queue redelivers forever". `receiveOnce` sets an exhausted message aside for redrive
  before it knows that `moveToDLQ` will decline, so the message is kept but never
  delivered again.
* `sqs_lost_on_forget`. `notify.go:8-9` says that taking the channel before re-checking
  "avoids lost wakeups". A receive that failed because the queue did not exist calls
  `forget` by name and drops the channel of a receiver that registered after the queue
  was created; the next send wakes nobody.
* `sqs_lost_on_expiry`. `receive.go:71-73` promises the time at which a message "becomes
  available". An in-flight message past its retention locks its FIFO group in the
  first pass and is dropped in the second: the group is deliverable, the pass reports
  nothing and the receiver sleeps to its deadline.

* `sfn_restart`. `engine.go:475` says of a frame that is stored CALLING that "a restart
  re-dispatches", and `scheduler.go:33` that "Restart is not a special case". After a
  restart `drive` looks for runnable frames, and CALLING is not one: the task is not
  called again, and without a timeout the execution stays RUNNING for good.
* `ddb_log_pruned`. `stream.go:149` says "pruneStream drops the oldest records beyond
  streamMaxRecords". The excess is computed from `b.Stats().KeyN`, which counts the committed
  pages, and the function is called by every captured write of a transaction. A
  transaction of 100 writes on a full log leaves 1100 records; the next one then removes
  100 records on each of its writes, hence the whole log and what it has just written.
  `ChangesRecorded` therefore speaks of a single write, or of a transaction on a log that was
  within its limit. It was found in proving `HistoryExact`: the lemma about one more
  write of a transaction does not hold without that condition. (bbolt leaves it open
  whether a cursor skips keys when its bucket changes under it; the model takes them in
  order, which spares the newest longest.)

Seen in the models, without a run of its own:

* CloudFormation. `adopt.go` says that a stack never takes over a resource it did not make,
  for "a later delete-stack would destroy something the stack never owned". A stack's
  record names such resources after a create whose template did not transpile
  (`recordFailure`), after a failure that is kept (DisableRollback) on a taken name, and
  by id after it is deleted; DeleteStack destroys them. An update, or an UPDATE change
  set, of a stack under review or rolled back takes the names of the template that
  was never applied as its own. ExecuteChangeSet does not ask `refuseUpdate`, and a
  CREATE change set on a live stack finds its own resources taken.
  Of a rollback `rollback.go` says that deploy tools "expect to find the account as it was".
  `made` keeps one operation for each resource, the last one reported (`rollback.go:101-106`):
  a bucket that gets notifications is "created" and then "updated" (`svc_s3.go:33`, `193`), so is
  an API that is deployed (`svc_apigateway.go:45`, `68`), and a topic without subscriptions is
  "skipped" (`svc_sns.go:77-78`); none of them is deleted. Nor is a resource of which a call
  fails after it was made and before the report (`svc_ddb.go:84-95`, `svc_kms.go:57-98`,
  `svc_sns.go:20-33`). They are there under ROLLBACK_COMPLETE; `RollbackRestores` excepts them
  as `Unknown`.
* Kinesis. A closed shard ends at the last number of the stream, so a reader of a shard
  whose own last record is older never gets the null iterator. An iterator of a
  deleted stream skips the first records of a new one of the same name.
* DynamoDB. `SweepTTL` deletes through `DeleteItem`, which loads an expired row as absent, so
  the row stays stored. A row that was written again after the listing is deleted. An
  expired row that is overwritten leaves its entry in the index.
* S3. Outside of versioning a put replaces a version under legal hold. A bucket that is
  deleted and made again under a running put can get a row whose blob went with the
  old bucket. The blobs of parts that a completion does not name stay on disk.
* Step Functions; `ExecutionMoves` and `BranchesGoverned` name these cases as their exceptions.
  A limit from MaxConcurrencyPath is a local of the spawn (`spawn.go:64-75`, `101-104`); only
  JSONata stores one on the frame (`jsonata_state.go:317`). PromotePending (`spawn.go:200-206`)
  then finds no limit and promotes nothing: once the items spawned first have settled, those
  held back stay PENDING and the execution RUNNING (`HeldBack`).
  `redrive.go:29-35` sets every failed map that has branches back to JOIN ("The state itself
  did not fail; a branch did. Wait for it again."), also one that failed after its branches
  had settled. Nothing looks at such a join again, and the execution is RUNNING for good.
  A redrive starts all failed children of a map, beyond MaxConcurrency, and those whose
  failure was caught, too (`redrive.go:25-28`). `AbandonSiblings` does not go below the
  children it fails, so the branches of a map inside an abandoned branch run on. An
  ItemSelector that fails at a later item (`spawn.go:95`) leaves the branches of the earlier
  ones running under a frame that has failed or moved on.
* Lambda. An invocation that read the function before an update may install a pool with
  the old code after it. `runnerFor` (`invoke.go:297-303`) says "Never start a process for a
  service that is shutting down", but it looks at a context that Close cancels only after it
  has waited for the pollers (`lambda.go:199-222`): an asynchronous invocation or a retry that
  comes in meanwhile makes a pool that Close has walked past. Its process outlives the
  service. `ClosedForGood` excepts such pools by the phase they were made in.
* EventBridge. To an API destination a call only starts a goroutine, which tries twice
  (`apidest_deliver.go:64-68`, `245-289`), as `docs/SUPPORT.md:981` says. A pass may so reach the
  endpoint twice, and a replay may reach it before the first pass does. `SentInOrder` is about
  the calls, and has the attempts in its bound.
* Logs. `filtersFor` (`metricemit.go:159-188`) lets go of the mutex between the miss and the
  fill of its cache, so a metric filter that is put or deleted while the worker reads is
  ignored until the next change of the group, although `forget` "drops a group's compiled
  filters after one changed": `FanoutFresh` holds for the fan-out only, which keeps the
  mutex. A retention or tag write that read the group before DeleteLogGroup brings it
  back, and a group's metric filters outlive it.
* SQS. ChangeMessageVisibility, a delete that unlocks a FIFO group and SetQueueAttributes
  make messages deliverable without a signal. SetQueueAttributes accepts FifoQueue on a
  live queue. AddPermission and RemovePermission read the policy in one transaction and
  write it in another, so one of two at the same time may be lost.


Of the documentation of SQS: `docs/SUPPORT.md:2532` says re-creating a queue merges
attributes, `CreateQueue` refuses different ones; `docs/SUPPORT.md:2553` puts redrive in a
janitor, `Sweep` does none.

## 5. Proofs

Every theorem holds for every value of the constants that the named assumptions of the
modules allow (`ConstantsAssumption`, `AttrCallsAssumption`, `BatchesAssumption`,
`PollAssumption`, `KinesisAssumption`, ...): any sets of queues, keys, requests, receivers
and messages, any windows and limits, any attribute maps with values of the right type,
any finite batches. TLC evaluates the assumptions on every run. None bounds a set from
above; that limits such as the size of a batch, of a log or of a pool are not zero is
what the code has as constants.

The argument is always an induction over the steps: an inductive invariant, a lemma that
the initial states have it, one step lemma with a case for each action, and what follows
from it. What the property lacks to be inductive is what the tables below list.

### SQS

| Theorem | Says | Needs, beyond the property |
|---|---|---|
| `TypeCorrect`, `KeysUnique` | `TypeOK`, `BucketKeys` | each other (`Keyed`): a sequence grows by the size of a set of messages, a number only if the bucket is finite; distinct keys up to `lastSeq` embed it into an interval (`BucketFinite`) |
| `NoLossNoCopy` | `OneHome` | `Homes`: ids are apart, the fate "stored" means being in some bucket, a missing queue has no messages, no queue is its own dead-letter queue. The last is what `applyRedrive` checks; without it a redrive would drop what it moves. All operations but a send are instances of one lemma, `Relocate` |
| `DeletionByHandle` | `DeletedWasIssued` | the types only |
| `RetentionKept` | `NoEarlyExpiry` | `Homes` and `SweepPast`: the janitor's clock reading is never ahead of the clock |
| `DedupWindowExact` | `DedupExact` | `Remembered`: every send within the window has a record of its key that is not older. It covers what `sqs_fifo` leaves out: any window, pruning by the janitor, purges |
| `FifoDeliversInOrder` | `FifoInOrder` | hypothesis `[][FifoFixed]_vars` |
| `FifoOneInFlight` | `FifoGroupExclusive` | `OneTried`: of a group at most one message was handed out at all; hypotheses `[][FifoFixed]_vars` and `[]TargetsLive` |
| `PoisonBounded` | `PoisonBound` | `PolicyCounts`: a stored policy allows one receive at least; hypothesis `[][PolicyFixed]_vars` |
| `PollTyped`, `ChannelsReclaimed`, `NoLossWhilePolling` | `PollTypeOK`, `NoStrandedChannel`, `OneHome` under long polls | `PollInv`: `Homes`, the queue a call names, and `Stranded`: a channel without a queue has a deletion or a receiver behind it that will remove it |
| `NoWakeupLost` | `NoLostWakeup` | `WatchInv`: what a registered receiver that found nothing may still get is not ready before its timer, unless a signal is on its way; hypothesis `StandardOnly` |

The hypotheses are about what callers do, and each excludes something that is legal and
after which the property fails:

* `FifoFixed`: SetQueueAttributes accepts FifoQueue on a live queue (section 4). The runs do
  not call it on FIFO queues.
* `TargetsLive`: the dead-letter queue may be deleted. An exhausted message then stays
  in its group without locking it (section 4).
* `PolicyFixed`: lowering maxReceiveCount makes messages exceed it that were within.
* `StandardOnly`: no FIFO queues, no ChangeMessageVisibility, no SetQueueAttributes. Each of
  these makes a message deliverable without a signal, by unlocking a group, retiming a
  message or shortening what keeps one back; a receiver then sleeps to its timer. It is a
  condition on the constants (`Ops`, `FifoName`, `AttrCalls`), and the runs `sqs_wakeup` and
  `sqs_receivers` are instances of it.

### Streams and functions

| Theorem | Says | Needs, beyond the property |
|---|---|---|
| `KeysStayRouted` | `KeysRouted` | `StreamInv`: open shards tile the hash space, a shard began and ended at numbers the stream had reached, a record lies within the numbers and the range of its shard, and two shards that share a hash follow each other (`Succession`). `TileFacts` shows that cutting any space into n ranges, also when n does not divide it, leaves none empty, no gap and no overlap |
| `PollerTyped`, `NoRecordPassedOver`, `NullIsTheTruth` | `PollerTypeOK`, `NothingPassedOver`, `NullMeansRead` | `PolInv`: with `StreamInv`, an iterator has not moved beyond the last record of the present stream (`IterFresh`), and what GetRecords has fetched is still, when its answer is made, everything up to the last record fetched (`GotFirst`): what is put meanwhile has higher numbers |
| `PollersFollowMappings` | `PollersTracked` | `MappingInv`: what a request carries between its steps is what it stored, and how far the one request under way has come |
| `OneAnswer` | `HandedOverOnce` | `RunnerInv`: the places an invocation can be in (queue, a handler's hand, pending, being posted, answered) are disjoint; two handlers never hold the same one; a runner that is not started has reaped its processes |
| `ScalesToZero`, `NoStrayProcess` | `ScaleToZero`, `PoolAccounted` | `PoolInv`: the counters are cardinalities of sets of holders (`Counted`), every runner made is with its pool, being stopped, being reaped or gone, a caller's runner is of the caller's pool, while an update holds the mutex the pool in the map is closed, and from the time Close has walked the map every pool is closed that was not made while it waits |
| `OneHandle` | `NoHandleLeaks` | `BoltInv`: handles are numbered without a gap, the open one is the current one, and a transaction runs on it |
| `RollbackKept` | `RollbackRestores` | `CfnInv`. `OwnRecord`: a stored record lists resources of its own template only. `Proper`: what a request made, it touched, and its template names; which phase it is in says what it has still to do. `Reversible`: while nobody interferes, what was there still is; what is there and was not was made by the request, is named by the previous template, is of a kind the report is vague about, or is what failed (`Honest`); and once it is undoing, of what it undoes only what is still to do, or could not be undone, is there |
| `JoinsGovern` | `BranchesGoverned` | `SfnInv`: frames are a tree in which a parent is older than its children and has opened their generation (`FramesFit`), the join the driver is at is one (`DriverFits`), a token is held by the frame it names (`Held`). That `PromotePending` stays within the limit is a counting argument: it promotes the least pending index, as often as there is room |
| `ExecutionNeverStuck` | `ExecutionMoves` | `SfnLive` on top of it: an idle driver has left nothing runnable; a call under way has its answer coming (`CallsAnswered`) and a parked frame its token (`ParkedHolds`); a join has a branch under way, is the one looked at, or waits for items held back by a limit that was not kept (`JoinsFed`). If nothing could move the execution, the greatest index among the frames under way of current generations, which the root is one of, would be a join without a branch |

### Stores

| Theorem | Says | Needs, beyond the property |
|---|---|---|
| `ListingsShowNewest` | `CurIsNewest`, over any number of lives of a bucket | `StoreInv`: rows, blobs and requests are numbered from what was handed out, and rows have numbers of their own |
| `VersionsReadable` | `RowsAgree` | `BlobInv`. `Own`: a blob that a row or a committing request counts on is counted on once, is no part of an upload and in nobody's list of blobs to remove. `Told`: what files there are hold what rows, parts and requests say of them. Hypothesis `[]MadeOnce` |
| `BucketAsPromised` | `ApiOK`, the refinement of `S3Api` | The invariants above and `S3Typed`. Once every blob is there a stack depends on the rows alone (`StacksAre`); `RowPushed`, `RowDropped` and `HoldSeen` say what a row that is written, removed or locked does to it, `StepSeen` takes every step to an operation of `S3Api` or to none. Hypothesis `[]MadeOnce` |
| `IndexMissesNothing`, `HistoryExact` | `IndexCovers`, `TableHistory` | `TableInv`: rows, a finite log numbered up to `lastSeq`, tokens remembered for `TokenTTL` from their use. A transaction is a sequence of writes on buckets nobody else sees: `WritesDone(bs, D)` says what the first writes, of the keys D, have done, and `TransactionWrites` carries it to the end by taking the first write that does not keep it |
| `LabelNamesOne`, `LabelsPassedOn` | `OneVersionPerLabel`, `LabelsHandedOver` | `SecretInv`: labels are apart, and the version a rotation works on was chosen |
| `PassesInOrder` | `SentInOrder` | `EventInv`: where the first pass of an event is, that a replay has read only events that had theirs, and that what a pass has sent to a target and may still send (`spent`) is nothing while the call is still to come, and within the target's share of attempts after it |
| `FanoutKeepsUp`, `LogsDrained` | `FanoutFresh`, two parts of `TelemetryKept` | `LogsInv`: where the worker is, and that its cache is what is stored unless a request that changed it has not come to its forget |
| `ShipperKeeps`, `TelemetrySurvives` | the rest of `TelemetryKept`; all of it, for the instances side by side | `ShipInv`: where the worker is, that the timer is set when something pends, and that Close carries what it took |

`MadeOnce` says that the bucket is created at most once: a put that has written its blob
when the bucket is deleted and made again commits a row whose blob went with the old
bucket (section 4). The run `data` has `MaxCreates = 1` for the same reason. `BlobInv` was
checked by TLC with two creations before it was proved.

Each module with theorems also proves the types of its components (`MappingsTyped`,
`RunnerTyped`, `PoolTyped`, `HandlesTyped`, `BucketTyped`, `TableTypes`, `SecretTyped`,
`EventsTyped`, `LogsTyped`, `ShipperTyped`, `StacksTyped`, `ExecutionTyped`); `DataTyped`
and `ComputeTyped` have `DataTypeOK` and `ComputeTypeOK` of the services side by side. That a body assembled from parts is one, and that the writes of
a transaction leave buckets of their types, are facts about recursive functions
(`Concat`, `Applied`); they are proved by taking the first index at which they fail
(`ConcatBody`, `TransactionTyped`).

### Only model-checked

* Liveness (`ExpiredReclaimed`, `ReceiveReturns`, `OpenedIsRead`): outside the prover's reach.
  `NoWakeupLost` and `ExecutionNeverStuck` are the safety part of what liveness rests on
  there: that something is always on its way.

## 6. Not modelled, and what is left

The models cover the concurrent and persistent core of the services; measured in
lines this is a small part of the repository (about 7%). Most of the rest is not a
state machine: request parsing and validation tables, response rendering, the web
console, the template and expression languages, policy evaluation, cryptography,
audit and test tooling. These are stateless conversions, pure functions of large
surface, or presentation, and a model of them would restate the code. Services that
do nothing but read and write a record in one transaction (IAM, KMS, SSM, API
Gateway, the metrics of CloudWatch) have operations that are atomic by bbolt; nothing
of theirs interleaves. The evaluator of alarms does: it reads the alarms, evaluates
them and writes them back, over what was put or deleted meanwhile. Its properties
are about the arithmetic of periods, and it is left for later.

Left to do, in this order:

1. The SQS poller of Lambda composed with `SqsStore`, and two overlapping CloudFormation
   requests.
2. SNS fan-out, the evaluator of alarms, EventBridge schedules.
