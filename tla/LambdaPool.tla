----------------------------- MODULE LambdaPool -----------------------------
(***************************************************************************)
(* The processes of one Lambda function: the pool of runners that serves   *)
(* its invocations (internal/lambdaruntime/pool.go), the map in which the  *)
(* service keeps the pool (runnerFor, restartRunner and stopPools in       *)
(* lambda/invoke.go), the code and configuration updates that replace it   *)
(* (lambda/functions.go) and the Close of the service (lambda/lambda.go).  *)
(*                                                                         *)
(* What is atomic is what a mutex makes so: s.mu over the map and over a   *)
(* whole pool stop, p.mu over each of acquire, release and reapIdle.  The  *)
(* runners a stop or a reap has taken out of the pool are stopped one by   *)
(* one after p.mu is released.                                             *)
(***************************************************************************)
EXTENDS Integers, FiniteSets

CONSTANTS
  Pollers,      \* invocation goroutines of event source mappings
  Asyncs,       \* goroutines of Event invocations
  PoolMax,      \* the pool's ceiling of runners
  Retries,      \* retries of a failed Event invocation
  MaxVersion,   \* bound: the function is updated up to this version
  MaxPools,     \* bound: no more pools are made
  MaxRunners,   \* bound: no more runners are made
  MaxLate       \* bound: timer callbacks of one pool running late at once

VARIABLES
  code,        \* the stored function: its version, Gone once deleted
  owed,        \* updates stored whose pool stop has not begun
  inMap,       \* s.runners: the function's pool
  pool,        \* every pool made
  nextRunner,  \* number of the next runner
  up,          \* runners with a process running
  halted,      \* runners stopped: they start nothing again
  stopping,    \* runners a Pool.Stop has taken out and not yet stopped
  reaping,     \* runners a reapIdle has taken out and not yet stopped
  mu,          \* who holds s.mu across steps
  call,        \* the invocations
  phase        \* how far Close has come

poolVars == <<code, owed, inMap, pool, nextRunner, up, halted, stopping,
              reaping, mu, call, phase>>

-----------------------------------------------------------------------------
Calls == Pollers \cup Asyncs

Gone == 0

NoPool == 0

\* The shared pool, already stopped, that runnerFor hands out in a shutdown.
ClosedPool == -1

NoRunner == 0

ASSUME PoolAssumption ==
  /\ Pollers \cap Asyncs = {} /\ IsFiniteSet(Calls)
  /\ PoolMax \in Nat \ {0} /\ Retries \in Nat /\ MaxVersion \in Nat \ {0}
  /\ MaxPools \in Nat /\ MaxRunners \in Nat /\ MaxLate \in Nat

Phases == {"open", "stopping", "waiting", "cancelled", "closed"}

\* timer is the field idleTimer; strays counts armed timers no field points at,
\* callbacks those that have fired and not yet entered reapIdle.  made is
\* history: how far Close was when the pool was made.
PoolRecord ==
  [spec : 1..MaxVersion, closed : BOOLEAN, runners : SUBSET (1..MaxRunners),
   busy : [1..MaxRunners -> Nat], inflight : Nat,
   timer : {"none", "armed", "fired"}, strays : Nat, callbacks : Nat,
   made : Phases]

\* seen is the version of the copy the invocation uses; again that it goes
\* through runnerFor a second time.
CallRecord ==
  [pc : {"idle", "resolved", "acquire", "start", "running", "release"},
   seen : 0..MaxVersion, pool : ClosedPool..MaxPools, runner : 0..MaxRunners,
   again : BOOLEAN, tries : Nat, end : {"ok", "failed", "closed"}]

PoolTypeOK ==
  /\ code \in 0..MaxVersion /\ owed \in Nat
  /\ inMap \in {NoPool} \cup DOMAIN pool
  /\ DOMAIN pool \subseteq 1..MaxPools
  /\ \A p \in DOMAIN pool : pool[p] \in PoolRecord
  /\ nextRunner \in 1..(MaxRunners + 1)
  /\ up \cup halted \cup stopping \cup reaping \subseteq 1..(nextRunner - 1)
  /\ mu \in {"free", "update", "close"}
  /\ call \in [Calls -> CallRecord]
  /\ phase \in Phases

Idle ==
  [pc |-> "idle", seen |-> 0, pool |-> NoPool, runner |-> NoRunner,
   again |-> FALSE, tries |-> 0, end |-> "ok"]

PoolInit ==
  /\ code = 1 /\ owed = 0
  /\ inMap = NoPool /\ pool = [p \in {} |-> Idle]
  /\ nextRunner = 1
  /\ up = {} /\ halted = {} /\ stopping = {} /\ reaping = {}
  /\ mu = "free"
  /\ call = [c \in Calls |-> Idle]
  /\ phase = "open"

NewPool(v) ==
  [spec |-> v, closed |-> FALSE, runners |-> {},
   busy |-> [r \in 1..MaxRunners |-> 0], inflight |-> 0,
   timer |-> "none", strays |-> 0, callbacks |-> 0, made |-> phase]

IsClosed(p) == p \in DOMAIN pool => pool[p].closed

Smaller(a, b) == IF a < b THEN a ELSE b

Least(S) == CHOOSE x \in S : \A y \in S : x <= y

-----------------------------------------------------------------------------
(* An invocation: read the function, find its pool, take a runner, run.    *)

\* invoke and the pollers read the function from the store, then use that
\* copy throughout, the retries of an Event invocation included.
Resolve(c) ==
  /\ call[c].pc = "idle" /\ phase = "open" /\ code # Gone
  /\ call' = [call EXCEPT ![c] =
       [Idle EXCEPT !.pc = "resolved", !.seen = code]]
  /\ UNCHANGED <<code, owed, inMap, pool, nextRunner, up, halted, stopping,
                 reaping, mu, phase>>

\* Weakened form of ShutDown: runnerFor does not look at the shutdown.
ShutDownUnseen == FALSE

\* runnerFor: endShutdown comes after the pollers, so while Close waits for
\* them it still makes a pool.
ShutDown == phase \in {"cancelled", "closed"}

RunnerFor(c) ==
  LET new == Cardinality(DOMAIN pool) + 1
      To(p) == call' = [call EXCEPT ![c].pc = "acquire", ![c].pool = p]
  IN  /\ call[c].pc = "resolved" /\ mu = "free"
      /\ \/ /\ inMap # NoPool
            /\ To(inMap)
            /\ UNCHANGED <<pool, inMap>>
         \/ /\ inMap = NoPool /\ ShutDown
            /\ To(ClosedPool)
            /\ UNCHANGED <<pool, inMap>>
         \/ /\ inMap = NoPool /\ ~ShutDown /\ new <= MaxPools
            /\ To(new)
            /\ pool' = [p \in DOMAIN pool \cup {new} |->
                          IF p = new THEN NewPool(call[c].seen) ELSE pool[p]]
            /\ inMap' = new
      /\ UNCHANGED <<code, owed, nextRunner, up, halted, stopping, reaping, mu,
                     phase>>

\* The invocation ends as e: a pool closed underneath is tried once more
\* through runnerFor, a failed Event invocation is retried.
Ended(c, e) ==
  LET k == call[c]
      from == [Idle EXCEPT !.pc = "resolved", !.seen = k.seen,
                           !.tries = k.tries]
  IN  IF e = "closed" /\ ~k.again THEN [from EXCEPT !.again = TRUE]
      ELSE IF e # "ok" /\ c \in Asyncs /\ k.tries < Retries
      THEN [from EXCEPT !.tries = @ + 1]
      ELSE Idle

\* acquire on a closed pool.
Refused(c) ==
  /\ call[c].pc = "acquire" /\ IsClosed(call[c].pool)
  /\ call' = [call EXCEPT ![c] = Ended(c, "closed")]
  /\ UNCHANGED <<code, owed, inMap, pool, nextRunner, up, halted, stopping,
                 reaping, mu, phase>>

\* The runners after growing toward the demand, and the one taken: the first
\* that is free, or else the first of the least busy.
Grown(p, n) ==
  LET want == Smaller(n, PoolMax)
      have == Cardinality(pool[p].runners)
  IN  pool[p].runners \cup
        (IF have < want THEN nextRunner..(nextRunner + want - have - 1) ELSE {})

Chosen(p, S) ==
  Least({r \in S : \A x \in S : pool[p].busy[r] <= pool[p].busy[x]})

\* Stopping the timer does nothing to one that has fired.
Acquire(c) ==
  LET p == call[c].pool
      n == pool[p].inflight + 1
      S == Grown(p, n)
      r == Chosen(p, S)
  IN  /\ call[c].pc = "acquire" /\ ~IsClosed(p)
      /\ \A x \in S : x <= MaxRunners
      /\ pool' = [pool EXCEPT ![p].timer = "none", ![p].inflight = n,
                              ![p].runners = S, ![p].busy[r] = @ + 1]
      /\ nextRunner' = nextRunner + Cardinality(S \ pool[p].runners)
      /\ call' = [call EXCEPT ![c].pc = "start", ![c].runner = r]
      /\ UNCHANGED <<code, owed, inMap, up, halted, stopping, reaping, mu, phase>>

\* Weakened form of Start: a stopped runner starts again.
StartAnyway(c) ==
  /\ call[c].pc = "start"
  /\ up' = up \cup {call[c].runner}
  /\ call' = [call EXCEPT ![c].pc = "running"]
  /\ UNCHANGED <<code, owed, inMap, pool, nextRunner, halted, stopping, reaping,
                 mu, phase>>

\* ensureStarted: a stopped runner refuses; a launch may fail, which is the
\* function's error.
Start(c) ==
  LET r == call[c].runner
      Leave(e) == call' = [call EXCEPT ![c].pc = "release", ![c].end = e]
  IN  /\ call[c].pc = "start"
      /\ \/ r \in halted /\ Leave("closed") /\ UNCHANGED up
         \/ r \notin halted /\ r \notin up /\ Leave("failed") /\ UNCHANGED up
         \/ /\ r \notin halted
            /\ up' = up \cup {r}
            /\ call' = [call EXCEPT ![c].pc = "running"]
      /\ UNCHANGED <<code, owed, inMap, pool, nextRunner, halted, stopping,
                     reaping, mu, phase>>

\* A result, an error, a timeout, an exited process or the cancelled context.
Finish(c, e) ==
  /\ call[c].pc = "running"
  /\ call' = [call EXCEPT ![c].pc = "release", ![c].end = e]
  /\ UNCHANGED <<code, owed, inMap, pool, nextRunner, up, halted, stopping,
                 reaping, mu, phase>>

\* Weakened forms of Released: a closed pool is left alone; no timer is armed.
ReleasedIfOpen(p, r) ==
  IF pool[p].closed THEN pool[p]
  ELSE [pool[p] EXCEPT !.inflight = @ - 1, !.busy[r] = IF @ > 0 THEN @ - 1 ELSE 0,
                       !.timer = IF pool[p].inflight = 1 THEN "armed" ELSE @]

ReleasedUntimed(p, r) ==
  [pool[p] EXCEPT !.inflight = @ - 1, !.busy[r] = IF @ > 0 THEN @ - 1 ELSE 0]

\* Draining to zero arms the timer anew, unless the pool is closed.
Released(p, r) ==
  LET q == pool[p]
      idle == q.inflight = 1 /\ ~q.closed
  IN  [q EXCEPT !.inflight = @ - 1,
                !.busy[r] = IF @ > 0 THEN @ - 1 ELSE 0,
                !.timer = IF idle THEN "armed" ELSE @]

Release(c) ==
  LET k == call[c]
  IN  /\ k.pc = "release"
      /\ pool' = [pool EXCEPT ![k.pool] = Released(k.pool, k.runner)]
      /\ call' = [call EXCEPT ![c] = Ended(c, k.end)]
      /\ UNCHANGED <<code, owed, inMap, nextRunner, up, halted, stopping,
                     reaping, mu, phase>>

\* A function's process ends by itself; reap lets the runner start another.
ProcessExit(r) ==
  /\ r \in up
  /\ up' = up \ {r}
  /\ UNCHANGED <<code, owed, inMap, pool, nextRunner, halted, stopping, reaping,
                 mu, call, phase>>

-----------------------------------------------------------------------------
(* Scale to zero.                                                          *)

TimerFires(p) ==
  /\ pool[p].callbacks < MaxLate
  /\ \/ /\ pool[p].timer = "armed"
        /\ pool' = [pool EXCEPT ![p].timer = "fired", ![p].callbacks = @ + 1]
     \/ /\ pool[p].strays > 0
        /\ pool' = [pool EXCEPT ![p].strays = @ - 1, ![p].callbacks = @ + 1]
  /\ UNCHANGED <<code, owed, inMap, nextRunner, up, halted, stopping, reaping,
                 mu, call, phase>>

\* Weakened form of MayReap: what is in flight is not looked at.
MayReapOpen(p) == ~pool[p].closed

\* reapIdle clears the field without stopping a newer timer it may hold.
MayReap(p) == ~pool[p].closed /\ pool[p].inflight = 0

ReapIdle(p) ==
  LET q == [pool[p] EXCEPT !.callbacks = @ - 1]
  IN  /\ pool[p].callbacks > 0
      /\ \/ ~MayReap(p) /\ pool' = [pool EXCEPT ![p] = q] /\ UNCHANGED reaping
         \/ /\ MayReap(p)
            /\ pool' = [pool EXCEPT ![p] =
                 [q EXCEPT !.runners = {}, !.busy = [r \in 1..MaxRunners |-> 0],
                           !.timer = "none",
                           !.strays = @ + (IF q.timer = "armed" THEN 1 ELSE 0)]]
            /\ reaping' = reaping \cup q.runners
      /\ UNCHANGED <<code, owed, inMap, nextRunner, up, halted, stopping, mu,
                     call, phase>>

\* Runner.Stop: kill the process and start no other.
StopRunner(r) ==
  /\ r \in stopping \cup reaping
  /\ halted' = halted \cup {r}
  /\ up' = up \ {r}
  /\ stopping' = stopping \ {r} /\ reaping' = reaping \ {r}
  /\ UNCHANGED <<code, owed, inMap, pool, nextRunner, mu, call, phase>>

-----------------------------------------------------------------------------
(* Updates of the function and the Close of the service.                   *)

\* UpdateFunctionCode, UpdateFunctionConfiguration and DeleteFunction store
\* the change first.
Update ==
  /\ code # Gone /\ phase = "open"
  /\ code' \in {v \in {code + 1} : v <= MaxVersion} \cup {Gone}
  /\ owed' = owed + 1
  /\ UNCHANGED <<inMap, pool, nextRunner, up, halted, stopping, reaping, mu,
                 call, phase>>

\* Pool.Stop up to its unlock; the runners follow one by one.
Stopped(p) ==
  [pool[p] EXCEPT !.closed = TRUE, !.timer = "none", !.runners = {},
                  !.busy = [r \in 1..MaxRunners |-> 0]]

StopPool(who) ==
  /\ mu' = who
  /\ pool' = [p \in DOMAIN pool |-> IF p = inMap THEN Stopped(p) ELSE pool[p]]
  /\ stopping' = stopping \cup (IF inMap = NoPool THEN {} ELSE pool[inMap].runners)

\* restartRunner, and stopPools for a deleted function: under s.mu from here
\* until the pool's runners are stopped and it has left the map.
RestartBegins ==
  /\ owed > 0 /\ mu = "free"
  /\ StopPool("update")
  /\ UNCHANGED <<code, owed, inMap, nextRunner, up, halted, reaping, call, phase>>

RestartEnds ==
  /\ mu = "update" /\ stopping = {}
  /\ mu' = "free" /\ inMap' = NoPool /\ owed' = owed - 1
  /\ UNCHANGED <<code, pool, nextRunner, up, halted, stopping, reaping, call,
                 phase>>

\* Close stops the pool under s.mu and leaves it in the map, ...
CloseBegins ==
  /\ phase = "open" /\ mu = "free"
  /\ phase' = "stopping"
  /\ StopPool("close")
  /\ UNCHANGED <<code, owed, inMap, nextRunner, up, halted, reaping, call>>

CloseStopped ==
  /\ mu = "close" /\ stopping = {}
  /\ mu' = "free" /\ phase' = "waiting"
  /\ UNCHANGED <<code, owed, inMap, pool, nextRunner, up, halted, stopping,
                 reaping, call>>

\* ... waits for the pollers, cancels the Event invocations and waits for them.
Close(from, to, waitFor) ==
  /\ phase = from
  /\ \A c \in waitFor : call[c].pc = "idle"
  /\ phase' = to
  /\ UNCHANGED <<code, owed, inMap, pool, nextRunner, up, halted, stopping,
                 reaping, mu, call>>

CloseSteps ==
  \/ CloseBegins
  \/ CloseStopped
  \/ Close("waiting", "cancelled", Pollers)
  \/ Close("cancelled", "closed", Asyncs)

Invocation(c) ==
  \/ RunnerFor(c)
  \/ Refused(c)
  \/ Acquire(c)
  \/ Start(c)
  \/ \E e \in {"ok", "failed"} : Finish(c, e)
  \/ Release(c)

PoolNext ==
  \/ \E c \in Calls : Resolve(c) \/ Invocation(c)
  \/ \E r \in up : ProcessExit(r)
  \/ \E p \in DOMAIN pool : TimerFires(p) \/ ReapIdle(p)
  \/ \E r \in stopping \cup reaping : StopRunner(r)
  \/ Update \/ RestartBegins \/ RestartEnds
  \/ CloseSteps

PoolSpec == PoolInit /\ [][PoolNext]_poolVars

-----------------------------------------------------------------------------
(* Properties.                                                             *)

Holds(c, p) ==
  call[c].pool = p /\ call[c].pc \in {"start", "running", "release"}

HoldsRunner(c, r) ==
  call[c].runner = r /\ call[c].pc \in {"start", "running", "release"}

\* The pool's counters are those of the callers: whatever was closed, refused
\* or retried in between, inflight counts the invocations between acquire and
\* release, and busy of an open pool counts them runner by runner.  reapIdle
\* and the choice of a runner rest on both.
CountersExact ==
  \A p \in DOMAIN pool :
    /\ pool[p].inflight = Cardinality({c \in Calls : Holds(c, p)})
    /\ ~pool[p].closed =>
         \A r \in pool[p].runners :
           pool[p].busy[r] = Cardinality({c \in Calls : HoldsRunner(c, r)})

\* Scale-to-zero never takes a runner an invocation is using, even when the
\* timer fired before the invocation began and its callback runs late: no
\* invocation holds a runner that a reap will stop or has stopped.
NeverReapsBusy ==
  \A c \in Calls :
    call[c].pc \in {"start", "running"} =>
      /\ call[c].runner \notin reaping
      /\ pool[call[c].pool].closed \/ call[c].runner \notin halted

\* A pool that is warm and idle has its scale-to-zero under way: a late
\* callback that cleared the field of a newer timer, or one that found the
\* pool busy, never leaves processes that nothing will reap.
IdleIsTimed ==
  \A p \in DOMAIN pool :
    ~pool[p].closed /\ pool[p].inflight = 0 /\ pool[p].runners # {}
      => pool[p].timer = "armed" \/ pool[p].callbacks > 0

\* Scale-to-zero is exact: it rests on counters that are right, takes no runner
\* that is in use and forgets no pool that is idle.
ScaleToZero == CountersExact /\ NeverReapsBusy /\ IdleIsTimed

\* "that runner would be invisible to Stop and leak" (acquire): a process
\* runs only in a runner that the pool in the map owns or that is about to be
\* stopped, whatever races the stop.
ProcessesAccounted ==
  \A r \in up : \/ r \in stopping \cup reaping
                \/ inMap # NoPool /\ r \in pool[inMap].runners

\* Two pools of the function are never open at once.
OneOpenPool == \A p \in DOMAIN pool : pool[p].closed \/ p = inMap

\* "Never start a process for a service that is shutting down" (runnerFor):
\* once Close has begun no pool is open and none opens, whichever invocation,
\* retry or update is under way, but for one that runnerFor makes while Close
\* waits for the pollers.  That one stays open, with its processes, and nobody
\* stops it.
ClosedForGood ==
  phase # "open" => \A p \in DOMAIN pool : pool[p].closed \/ pool[p].made = "waiting"

\* No process is beyond the reach of Stop: each is in a runner of the one open
\* pool, or about to be stopped, and Close leaves no pool open but a late one.
PoolAccounted == ProcessesAccounted /\ OneOpenPool /\ ClosedForGood

=============================================================================
