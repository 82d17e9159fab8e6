-------------------------------- MODULE Logs --------------------------------
(***************************************************************************)
(* CloudWatch Logs: a log group with its stream and filters, and what      *)
(* PutLogEvents hands its batches to: the fan-out of subscription filters  *)
(* ("fan") or the emitter of metric filters ("met").  Each is a bounded    *)
(* channel, one worker, a cache of the group's compiled filters and a      *)
(* close that drains.  A put enqueues to both, the fan-out first, and      *)
(* Close closes both in that order; neither touches the other, so a        *)
(* behaviour follows one of them, consumer, and the other only delays it.  *)
(* Every database transaction is a step, and so is every critical section  *)
(* of the consumer's mutex, which the fan-out alone keeps while it reads   *)
(* the database.  Stored events are left out: no consumer reads them.      *)
(***************************************************************************)
EXTENDS Naturals, Sequences, FiniteSets

CONSTANTS
  LogClients,   \* requests that can run at the same time
  FilterNames,
  Patterns,     \* what a filter may look for
  Unusable,     \* patterns that do not compile
  MaxFilters,   \* maxSubscriptionsPerGroup, maxMetricFiltersPerGroup
  FanBuffer     \* fanBuffer, metricBuffer

VARIABLES
  consumer,   \* "fan" or "met"
  group,      \* the group has a row
  stream,     \* its stream has a row
  filters,    \* the stored filters: their names, each with its pattern
  cached,     \* the compiled filters of the group, if the cache has them
  muHeld,     \* the worker is inside subs, between its steps
  batches,    \* the channel: for each batch, whether it came before quit
  fanFlags,   \* closed and dead
  closing,    \* how far close is
  fanWorker,  \* the worker: where it is, where it goes back to, what it read
  logClient   \* the requests under way

logsVars == <<consumer, group, stream, filters, cached, muHeld, batches,
              fanFlags, closing, fanWorker, logClient>>

groupVars == <<group, stream, filters>>

fanVars == <<cached, muHeld, batches, fanFlags, closing, fanWorker>>

ASSUME LogsAssumption ==
  /\ MaxFilters \in Nat \ {0} /\ FanBuffer \in Nat \ {0}
  /\ Unusable \subseteq Patterns

NoFilters == [n \in {} |-> {}]

NoCache == {}

FilterSets == UNION {[S -> Patterns] : S \in SUBSET FilterNames}

ClientSteps ==
  {"idle", "writeGroup", "dropGroup", "newStream", "writeStream", "oldStream",
   "dropStream", "putFilter", "dropFilter", "forget", "findStream", "putEvents",
   "check", "send"}

InBatch == {"lookup", "read", "fill", "deliver"}

LogsTypeOK ==
  /\ consumer \in {"fan", "met"}
  /\ group \in BOOLEAN /\ stream \in BOOLEAN /\ muHeld \in BOOLEAN
  /\ filters \in FilterSets
  /\ cached \in {NoCache} \cup {{F} : F \in FilterSets}
  /\ batches \in Seq(BOOLEAN) /\ Len(batches) <= FanBuffer
  /\ fanFlags \in [closed : BOOLEAN, dead : BOOLEAN]
  /\ closing \in {"open", "flagged", "quitting", "closed"}
  /\ fanWorker \in [pc : {"select", "drain", "dying", "dead", "gone"} \cup InBatch,
                    back : {"select", "drain"}, found : FilterSets]
  /\ logClient \in [LogClients -> ClientSteps]

LogsInit ==
  /\ consumer \in {"fan", "met"}
  /\ group = FALSE /\ stream = FALSE /\ filters = NoFilters
  /\ cached = NoCache /\ muHeld = FALSE /\ batches = <<>>
  /\ fanFlags = [closed |-> FALSE, dead |-> FALSE]
  /\ closing = "open"
  /\ fanWorker = [pc |-> "select", back |-> "select", found |-> NoFilters]
  /\ logClient = [c \in LogClients |-> "idle"]

Goes(c, from, to) ==
  logClient[c] = from /\ logClient' = [logClient EXCEPT ![c] = to]

-----------------------------------------------------------------------------
(* The group and its streams.  A request reads the group in a transaction  *)
(* of its own (mustGroup) before it goes on; inputs are chosen where they  *)
(* are first used.                                                         *)

\* createLogGroup finds no group.
CreateLogGroup(c) ==
  /\ ~group /\ Goes(c, "idle", "writeGroup")
  /\ UNCHANGED <<consumer, groupVars, fanVars>>

\* mustGroup, and where the request goes from there: retention and tags write
\* the row back that they read.  The metric filters' requests read no group.
MustGroup(c) ==
  /\ \E step \in {"writeGroup", "dropGroup", "newStream", "oldStream",
                  "findStream", "putFilter", "dropFilter"} :
       /\ group \/ (consumer = "met" /\ step \in {"putFilter", "dropFilter"})
       /\ Goes(c, "idle", step)
  /\ UNCHANGED <<consumer, groupVars, fanVars>>

\* PutGroup
WriteGroup(c) ==
  /\ Goes(c, "writeGroup", "idle")
  /\ group' = TRUE
  /\ UNCHANGED <<consumer, stream, filters, fanVars>>

\* DeleteGroup: the streams and the subscriptions go with the group, the
\* metric filters stay.
DropGroup(c) ==
  /\ Goes(c, "dropGroup", IF consumer = "fan" THEN "forget" ELSE "idle")
  /\ group' = FALSE /\ stream' = FALSE
  /\ filters' = IF consumer = "fan" THEN NoFilters ELSE filters
  /\ UNCHANGED <<consumer, fanVars>>

\* GetStream, for a request that wants it there or not there.
LooksForStream(c) ==
  /\ \/ Goes(c, "newStream", IF stream THEN "idle" ELSE "writeStream")
     \/ Goes(c, "oldStream", IF stream THEN "dropStream" ELSE "idle")
     \/ Goes(c, "findStream", IF stream THEN "putEvents" ELSE "idle")
  /\ UNCHANGED <<consumer, groupVars, fanVars>>

\* PutStream and DeleteStream
WriteStream(c) ==
  /\ \/ Goes(c, "writeStream", "idle") /\ stream' = TRUE
     \/ Goes(c, "dropStream", "idle") /\ stream' = FALSE
  /\ UNCHANGED <<consumer, group, filters, fanVars>>

-----------------------------------------------------------------------------
(* Filters: a transaction, and after it forget.                            *)

CanPutFilter(n) ==
  group /\ (n \in DOMAIN filters \/ Cardinality(DOMAIN filters) < MaxFilters)

\* PutSubscription and PutMetricFilter.  Only a subscription's pattern has
\* been compiled before.
PutFilter(c) ==
  /\ \/ \E n \in FilterNames, p \in Patterns :
          /\ CanPutFilter(n) /\ (consumer = "fan" => p \notin Unusable)
          /\ filters' = [m \in DOMAIN filters \cup {n} |->
                           IF m = n THEN p ELSE filters[m]]
          /\ Goes(c, "putFilter", "forget")
     \/ /\ \E n \in FilterNames : ~CanPutFilter(n)
        /\ Goes(c, "putFilter", "idle") /\ UNCHANGED filters
  /\ UNCHANGED <<consumer, group, stream, fanVars>>

\* DeleteSubscription and DeleteMetricFilter
DropFilter(c) ==
  /\ \E n \in FilterNames :
       /\ filters' = [m \in DOMAIN filters \ {n} |-> filters[m]]
       /\ Goes(c, "dropFilter", IF n \in DOMAIN filters THEN "forget" ELSE "idle")
  /\ UNCHANGED <<consumer, group, stream, fanVars>>

\* forget
Forget(c) ==
  /\ ~muHeld /\ Goes(c, "forget", "idle")
  /\ cached' = NoCache
  /\ UNCHANGED <<consumer, groupVars, muHeld, batches, fanFlags, closing, fanWorker>>

-----------------------------------------------------------------------------
(* PutLogEvents: the transaction, then enqueue, which looks at the flags   *)
(* and sends without the mutex.                                            *)

\* PutEvents checks the group again and makes the stream again.
StoreEvents(c) ==
  /\ Goes(c, "putEvents", IF group THEN "check" ELSE "idle")
  /\ stream' = (stream \/ group)
  /\ UNCHANGED <<consumer, group, filters, fanVars>>

EnqueueChecks(c) ==
  /\ ~muHeld
  /\ Goes(c, "check", IF fanFlags.closed THEN "idle" ELSE "send")
  /\ UNCHANGED <<consumer, groupVars, fanVars>>

QuitClosed == closing \in {"quitting", "closed"}

\* The select: room in the channel, quit, or neither; the batch is dropped in
\* the last two.
EnqueueSends(c) ==
  /\ Goes(c, "send", "idle")
  /\ \/ /\ Len(batches) < FanBuffer
        /\ batches' = Append(batches, ~QuitClosed)
     \/ /\ QuitClosed \/ Len(batches) = FanBuffer
        /\ UNCHANGED batches
  /\ UNCHANGED <<consumer, groupVars, cached, muHeld, fanFlags, closing, fanWorker>>

LogRequest(c) ==
  \/ CreateLogGroup(c) \/ MustGroup(c) \/ WriteGroup(c) \/ DropGroup(c)
  \/ LooksForStream(c) \/ WriteStream(c)
  \/ PutFilter(c) \/ DropFilter(c) \/ Forget(c)
  \/ StoreEvents(c) \/ EnqueueChecks(c) \/ EnqueueSends(c)

-----------------------------------------------------------------------------
(* The worker.                                                             *)

WorkerGoes(from, to) == fanWorker.pc = from /\ fanWorker' = [fanWorker EXCEPT !.pc = to]

\* run: a batch, in the loop or while draining.
TakeBatch ==
  /\ fanWorker.pc \in {"select", "drain"} /\ batches # <<>>
  /\ batches' = Tail(batches)
  /\ fanWorker' = [fanWorker EXCEPT !.pc = "lookup", !.back = fanWorker.pc]
  /\ UNCHANGED <<consumer, groupVars, cached, muHeld, fanFlags, closing, logClient>>

\* run: quit is drained, not obeyed.
SeesQuit ==
  /\ QuitClosed /\ WorkerGoes("select", "drain")
  /\ UNCHANGED <<consumer, groupVars, cached, muHeld, batches, fanFlags, closing,
                 logClient>>

\* Weakened form of SeesQuit: quit ends the worker at once.
SeesQuitUndrained ==
  /\ QuitClosed /\ WorkerGoes("select", "gone")
  /\ UNCHANGED <<consumer, groupVars, cached, muHeld, batches, fanFlags, closing,
                 logClient>>

Drained ==
  /\ batches = <<>> /\ WorkerGoes("drain", "gone")
  /\ UNCHANGED <<consumer, groupVars, cached, muHeld, batches, fanFlags, closing,
                 logClient>>

\* Weakened form of KeepsLock: the lookup lets go of the mutex before it reads.
NeverKeepsLock == FALSE

\* subs keeps the mutex while it reads the filters; filtersFor does not.
KeepsLock == consumer = "fan"

\* The cache answers, or the filters have to be read.
LookUp ==
  /\ WorkerGoes("lookup", IF cached # NoCache THEN "deliver" ELSE "read")
  /\ muHeld' = (cached = NoCache /\ KeepsLock)
  /\ UNCHANGED <<consumer, groupVars, cached, batches, fanFlags, closing, logClient>>

Compiled(F) == [n \in {m \in DOMAIN F : F[m] \notin Unusable} |-> F[n]]

\* The read of the filters, which compiles them; after an error the batch has
\* no filters and nothing is cached.
ReadFilters ==
  /\ fanWorker.pc = "read"
  /\ \/ /\ fanWorker' = [fanWorker EXCEPT !.pc = "fill", !.found = Compiled(filters)]
        /\ UNCHANGED muHeld
     \/ /\ fanWorker' = [fanWorker EXCEPT !.pc = fanWorker.back]
        /\ muHeld' = FALSE
  /\ UNCHANGED <<consumer, groupVars, cached, batches, fanFlags, closing, logClient>>

FillCache ==
  /\ fanWorker.pc = "fill"
  /\ fanWorker' = [fanWorker EXCEPT !.pc = "deliver", !.found = NoFilters]
  /\ cached' = {fanWorker.found}
  /\ muHeld' = FALSE
  /\ UNCHANGED <<consumer, groupVars, batches, fanFlags, closing, logClient>>

\* deliver and evaluate: the calls of the matching filters, whose errors are
\* logged and not retried.
Deliver ==
  /\ WorkerGoes("deliver", fanWorker.back)
  /\ UNCHANGED <<consumer, groupVars, cached, muHeld, batches, fanFlags, closing,
                 logClient>>

\* A panic on a batch: the mutex is let go, the deferred Recover calls die,
\* and only then done is closed.
Panics ==
  /\ fanWorker.pc \in InBatch
  /\ fanWorker' = [fanWorker EXCEPT !.pc = "dying", !.found = NoFilters]
  /\ muHeld' = FALSE
  /\ UNCHANGED <<consumer, groupVars, cached, batches, fanFlags, closing, logClient>>

Dies ==
  /\ \/ /\ WorkerGoes("dying", "dead")
        /\ fanFlags' = [closed |-> TRUE, dead |-> TRUE]
     \/ WorkerGoes("dead", "gone") /\ UNCHANGED fanFlags
  /\ UNCHANGED <<consumer, groupVars, cached, muHeld, batches, closing, logClient>>

FanWorks ==
  \/ TakeBatch \/ SeesQuit \/ Drained
  \/ LookUp \/ ReadFilters \/ FillCache \/ Deliver
  \/ Panics \/ Dies

\* close, once: the flag, quit, and the wait for the worker.
FanCloses ==
  /\ \/ /\ closing = "open" /\ ~muHeld /\ closing' = "flagged"
        /\ fanFlags' = [fanFlags EXCEPT !.closed = TRUE]
     \/ closing = "flagged" /\ closing' = "quitting" /\ UNCHANGED fanFlags
     \/ /\ closing = "quitting" /\ fanWorker.pc = "gone" /\ closing' = "closed"
        /\ UNCHANGED fanFlags
  /\ UNCHANGED <<consumer, groupVars, cached, muHeld, batches, fanWorker, logClient>>

LogsNext ==
  \/ \E c \in LogClients : LogRequest(c)
  \/ FanWorks
  \/ FanCloses

LogsSpec == LogsInit /\ [][LogsNext]_logsVars

-----------------------------------------------------------------------------
(* Properties.                                                             *)

\* "the fan-out must not keep shipping on their compiled copies"
\* (deleteLogGroup): once every request that changed the subscriptions has
\* returned, what the fan-out has cached is what is stored, whatever read of
\* the worker they raced.
FanoutFresh ==
  consumer = "fan" /\ (\A c \in LogClients : logClient[c] # "forget")
    => cached \subseteq {Compiled(filters)}

\* "stops the worker after it drains what is queued" (close): when close has
\* returned and the worker had not panicked, no batch that was in the channel
\* before quit is still there.
DrainedOnClose ==
  closing = "closed" /\ ~fanFlags.dead => \A i \in DOMAIN batches : ~batches[i]

\* A worker that is gone is one that was told to quit or is marked dead, so
\* enqueue never goes on filling a channel that nobody drains, in silence.
DeathReported == fanWorker.pc = "gone" => QuitClosed \/ fanFlags.dead

=============================================================================
