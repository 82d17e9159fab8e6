--------------------------- MODULE StepFunctions ---------------------------
(***************************************************************************)
(* One Step Functions execution: the interpreter of internal/asl (Advance, *)
(* Wake, Deliver, the Parallel/Map join, Redrive) and the driver of        *)
(* stepfunctions/engine.go and scheduler.go that owns it, with the task    *)
(* workers, the SendTask callers and the restarts of the process.          *)
(*                                                                         *)
(* The driver is one goroutine.  A turn begins with a nudge, a delivery or *)
(* a timer and goes on until no frame is runnable; each of its steps ends  *)
(* with one SaveTransition, so the frames and tokens below are what the    *)
(* store holds, and a crash may fall between any two steps.  Data is left  *)
(* out: a result is ok or a failure, and an expression of a frail state    *)
(* may fail wherever the interpreter evaluates it.  Time is left out: a    *)
(* timer that a frame has set may fire at any later moment, one frame a    *)
(* turn.                                                                   *)
(***************************************************************************)
EXTENDS Integers, Sequences, FiniteSets

CONSTANTS
  Def,          \* the states of the machine, see StateRecord
  First,        \* StartAt
  Workers,      \* callers of SendTaskSuccess and SendTaskFailure
  MaxCalls,     \* bound: task calls dispatched
  MaxFrames,    \* bound: frames spawned
  MaxRestarts,  \* bound: restarts of the process
  MaxRedrives   \* bound: redrives

VARIABLES
  status,     \* of the execution
  frames,     \* Exec.Frames; a frame's id is its index, the root is 1
  tokens,     \* the redeemable token rows: token -> frame
  nudged,     \* a nudge for the execution is queued
  busy,       \* the driver is in the middle of a turn
  joining,    \* the parent whose join the driver still has to look at, or 0
  calls,      \* task calls in flight on workers
  inbox,      \* the deliveries channel
  nextCall,   \* history: calls are numbered; also numbers the tokens
  restarts, redrives   \* history

sfnVars == <<status, frames, tokens, nudged, busy, joining, calls, inbox,
             nextCall, restarts, redrives>>

-----------------------------------------------------------------------------
Names == DOMAIN Def

End == "End"

NoCatch == "none"

NoTolerance == -1

\* retries: retries its Retry allows; timed: it has TimeoutSeconds or
\* HeartbeatSeconds; frail: its paths, selectors, Assign or JSONata may fail
\* on the data.  For a map: how many items, MaxConcurrency as it is when the
\* map spawns (0: none) and as PromotePending finds it, ToleratedFailureCount,
\* and where its ItemProcessor starts.  The two limits differ when there is a
\* MaxConcurrencyPath: what it selects is not kept, and PromotePending has the
\* literal MaxConcurrency, or 0.  Parallel is a map without limit and
\* tolerance.
StateRecord ==
  [type : {"task", "token", "wait", "map"},
   next : Names \cup {End}, catch : Names \cup {NoCatch},
   retries : Nat, timed : BOOLEAN, frail : BOOLEAN,
   items : Nat, limit : Nat, kept : Nat, tolerated : Int,
   body : Names \cup {End}]

ASSUME SfnAssumption ==
  /\ \A s \in Names : /\ Def[s] \in StateRecord
                      /\ Def[s].type = "map" => Def[s].body \in Names
  /\ First \in Names /\ IsFiniteSet(Workers)
  /\ MaxCalls \in Nat /\ MaxFrames \in Nat \ {0}
  /\ MaxRestarts \in Nat /\ MaxRedrives \in Nat

FrameStatus ==
  {"RUNNABLE", "SLEEPING", "CALLING", "PARKED", "RETRY_WAIT", "JOIN",
   "PENDING", "DONE", "FAILED"}

\* stray is history: the frame's map failed before it had spawned the rest.
FrameRecord ==
  [state : Names, status : FrameStatus, attempts : Nat, parent : Nat,
   gen : Nat, spawnGen : Nat, token : Nat, stray : BOOLEAN]

Delivery ==
  [frame : Nat, call : Nat, token : Nat, attempt : Nat, ok : BOOLEAN,
   by : Workers \cup {"engine"}]

SfnTypeOK ==
  /\ status \in {"RUNNING", "SUCCEEDED", "FAILED", "ABORTED"}
  /\ frames \in Seq(FrameRecord) /\ Len(frames) <= MaxFrames
  /\ \A t \in DOMAIN tokens : tokens[t] \in DOMAIN frames
  /\ joining \in {0} \cup DOMAIN frames
  /\ inbox \subseteq Delivery
  /\ \A c \in calls : c.frame \in DOMAIN frames
  /\ nudged \in BOOLEAN /\ busy \in BOOLEAN

At(s, st, parent, gen) ==
  [state |-> s, status |-> st, attempts |-> 0, parent |-> parent, gen |-> gen,
   spawnGen |-> 0, token |-> 0, stray |-> FALSE]

\* StartExecution persists the record and nudges the driver.
SfnInit ==
  /\ status = "RUNNING" /\ frames = <<At(First, "RUNNABLE", 0, 0)>>
  /\ tokens = [t \in {} |-> 0]
  /\ nudged = TRUE /\ busy = FALSE /\ joining = 0
  /\ calls = {} /\ inbox = {} /\ nextCall = 1
  /\ restarts = 0 /\ redrives = 0

Terminal(f) == f.status \in {"DONE", "FAILED"}

Runnable(fs) == {i \in DOMAIN fs : fs[i].status = "RUNNABLE"}

Children(fs, p) ==
  {i \in DOMAIN fs : fs[i].parent = p /\ fs[i].gen = fs[p].spawnGen}

-----------------------------------------------------------------------------
(* The interpreter: what a transition makes of a frame.                    *)

\* exitState, and a Catch: to the next state, with its fields reset.
Enter(f, s) ==
  [f EXCEPT !.state = s, !.status = "RUNNABLE", !.attempts = 0, !.token = 0]

\* The success of a state.
Exited(f) ==
  IF Def[f.state].next = End THEN [f EXCEPT !.status = "DONE"]
  ELSE Enter(f, Def[f.state].next)

\* failFrame.
FailFrame(f) == [f EXCEPT !.status = "FAILED"]

\* deliverFailure: Retry, then Catch, whose own expressions may fail, then the
\* frame fails.
Unwound(f) ==
  LET s == Def[f.state]
  IN  IF f.attempts < s.retries
      THEN {[f EXCEPT !.status = "RETRY_WAIT", !.attempts = @ + 1]}
      ELSE (IF s.catch = NoCatch THEN {} ELSE {Enter(f, s.catch)})
             \cup (IF s.catch = NoCatch \/ s.frail THEN {FailFrame(f)} ELSE {})

\* Deliver: a success may still fail on the way out.
Delivered(f, ok) ==
  (IF ok THEN {Exited(f)} ELSE {})
    \cup (IF ok /\ ~Def[f.state].frail THEN {} ELSE Unwound(f))

-----------------------------------------------------------------------------
(* The driver's steps.  Save is what ends each of them.                    *)

\* The root is done or failed: finalize.  Any other frame that settles leaves
\* its parent's join to be looked at, if the parent still joins.
StatusAfter(fs) ==
  IF fs[1].status = "DONE" THEN "SUCCEEDED"
  ELSE IF fs[1].status = "FAILED" THEN "FAILED" ELSE "RUNNING"

Save(fs, toJoin) ==
  /\ frames' = fs
  /\ status' = StatusAfter(fs)
  /\ joining' = IF status' = "RUNNING" THEN toJoin ELSE 0
  /\ busy' = (status' = "RUNNING" /\ (joining' # 0 \/ Runnable(fs) # {}))

SettledParent(fs, i) ==
  IF i # 1 /\ Terminal(fs[i]) /\ fs[fs[i].parent].status = "JOIN"
  THEN fs[i].parent ELSE 0

\* The token a frame held dies when the frame no longer holds it or is
\* terminal; a retry keeps it.
TokensAfter(f, g) ==
  IF f.token # 0 /\ (g.token # f.token \/ Terminal(g))
  THEN [t \in DOMAIN tokens \ {f.token} |-> tokens[t]] ELSE tokens

\* deliver: the result goes into frame i, after the other changes made to the
\* frames in the same step.
Deliver(fs, i, ok) ==
  \E g \in Delivered(fs[i], ok) :
    LET after == [fs EXCEPT ![i] = g]
    IN  /\ tokens' = TokensAfter(fs[i], g)
        /\ Save(after, SettledParent(after, i))

\* A call to the task's resource, on a worker.  The attempt is the retry
\* count at dispatch.
CallOf(i, f) ==
  [frame |-> i, call |-> nextCall, token |-> f.token, attempt |-> f.attempts]

Dispatch(i, f) ==
  /\ nextCall <= MaxCalls
  /\ calls' = calls \cup {CallOf(i, f)}
  /\ nextCall' = nextCall + 1
  /\ tokens' = IF f.token = 0 THEN tokens
               ELSE [t \in DOMAIN tokens \cup {f.token} |->
                       IF t = f.token THEN i ELSE tokens[t]]
  /\ Save([frames EXCEPT ![i] = f], 0)

\* The first n frames a map spawns: at most limit of them runnable.
Spawned(i, n, stray) ==
  LET s == Def[frames[i].state]
      gen == frames[i].spawnGen + 1
  IN  [m \in 1..n |->
         [At(s.body, IF s.limit > 0 /\ m > s.limit THEN "PENDING" ELSE "RUNNABLE",
             i, gen) EXCEPT !.stray = stray]]

\* An expression fails on entry: deliverFailure, and failFrame for a wait.
EntryFails(i) ==
  LET f == frames[i]
      s == Def[f.state]
  IN  /\ s.frail
      /\ \E g \in IF s.type = "wait" THEN {FailFrame(f)} ELSE Unwound(f) :
           LET after == [frames EXCEPT ![i] = g]
           IN  Save(after, SettledParent(after, i))
      /\ UNCHANGED <<tokens, calls, nextCall>>

\* ItemSelector fails at an item: the branches of the items before it are
\* spawned, and stay.
SpawnFails(i) ==
  LET f == frames[i]
      s == Def[f.state]
  IN  /\ s.frail /\ s.type = "map"
      /\ \E n \in 0..(s.items - 1), g \in Unwound([f EXCEPT !.spawnGen = @ + 1]) :
           LET after == [frames EXCEPT ![i] = g] \o Spawned(i, n, TRUE)
           IN  /\ Len(frames) + n <= MaxFrames
               /\ Save(after, SettledParent(after, i))
      /\ UNCHANGED <<tokens, calls, nextCall>>

\* drive: the first runnable frame advances through one state.
Advance ==
  LET i == CHOOSE n \in Runnable(frames) : \A m \in Runnable(frames) : n <= m
      f == frames[i]
      s == Def[f.state]
  IN  /\ busy /\ joining = 0 /\ Runnable(frames) # {}
      /\ \/ /\ s.type = "task"
            /\ Dispatch(i, [f EXCEPT !.status = "CALLING"])
         \/ /\ s.type = "token"
            /\ Dispatch(i, [f EXCEPT !.status = "PARKED", !.token = nextCall])
         \/ /\ s.type = "wait"
            /\ Save([frames EXCEPT ![i] = [f EXCEPT !.status = "SLEEPING"]], 0)
            /\ UNCHANGED <<tokens, calls, nextCall>>
         \/ /\ s.type = "map"
            /\ Len(frames) + s.items <= MaxFrames
            /\ Save([frames EXCEPT ![i] = [f EXCEPT !.status = "JOIN", !.spawnGen = @ + 1]]
                      \o Spawned(i, s.items, FALSE),
                    IF s.items = 0 THEN i ELSE 0)
            /\ UNCHANGED <<tokens, calls, nextCall>>
         \/ EntryFails(i)
         \/ SpawnFails(i)
      /\ UNCHANGED <<nudged, inbox, restarts, redrives>>

\* Weakened form of Promoted: a settled child starts no pending one.
PromotedNone(p) == frames

\* PromotePending: pending children run while the limit it finds allows.
Promoted(p) ==
  LET kids == Children(frames, p)
      limit == Def[frames[p].state].kept
      active == {k \in kids : ~Terminal(frames[k]) /\ frames[k].status # "PENDING"}
      Starts(k) ==
        /\ k \in kids /\ frames[k].status = "PENDING" /\ limit > 0
        /\ Cardinality(active)
             + Cardinality({j \in kids : frames[j].status = "PENDING" /\ j < k}) < limit
  IN  [k \in DOMAIN frames |->
         IF Starts(k) THEN [frames[k] EXCEPT !.status = "RUNNABLE"] ELSE frames[k]]

\* JoinReady.
JoinFailed(fs, p) ==
  LET failed == {k \in Children(fs, p) : fs[k].status = "FAILED"}
      tolerated == Def[fs[p].state].tolerated
  IN  Cardinality(failed) > (IF tolerated = NoTolerance THEN 0 ELSE tolerated)

JoinDone(fs, p) ==
  JoinFailed(fs, p) \/ \A k \in Children(fs, p) : Terminal(fs[k])

\* Weakened form of Abandoned: the other branches go on.
AbandonedNone(fs, p) == fs

\* AbandonSiblings.
Abandoned(fs, p) ==
  [k \in DOMAIN fs |->
     IF k \in Children(fs, p) /\ ~Terminal(fs[k])
     THEN [fs[k] EXCEPT !.status = "FAILED"] ELSE fs[k]]

\* The rest of childSettled, a step of its own: the child's outcome is stored
\* by now.  The tokens of abandoned frames stay.
Join ==
  LET p == joining
      fs == Promoted(p)
  IN  /\ busy /\ p # 0
      /\ IF JoinDone(fs, p)
         THEN Deliver(Abandoned(fs, p), p, ~JoinFailed(fs, p))
         ELSE Save(fs, 0) /\ UNCHANGED tokens
      /\ UNCHANGED <<nudged, calls, inbox, nextCall, restarts, redrives>>

-----------------------------------------------------------------------------
(* What begins a turn.                                                     *)

TakeNudge ==
  /\ ~busy /\ nudged
  /\ nudged' = FALSE
  /\ busy' = (status = "RUNNING" /\ Runnable(frames) # {})
  /\ UNCHANGED <<status, frames, tokens, joining, calls, inbox, nextCall,
                 restarts, redrives>>

\* applyDelivery: a result for a frame that no longer waits is dropped, and so
\* is one of a call with another retry count.
Stale(d) ==
  \/ frames[d.frame].status \notin {"CALLING", "PARKED"}
  \/ d.by = "engine" /\ d.attempt # frames[d.frame].attempts

ApplyDelivery(d) ==
  /\ ~busy /\ d \in inbox
  /\ inbox' = inbox \ {d}
  /\ \/ /\ status # "RUNNING" \/ Stale(d)
        /\ UNCHANGED <<status, frames, tokens, joining, busy>>
     \/ /\ status = "RUNNING" /\ ~Stale(d)
        /\ Deliver(frames, d.frame, d.ok)
  /\ UNCHANGED <<nudged, calls, nextCall, restarts, redrives>>

\* fireDue for a frame that sleeps or backs off: Wake.  A retried map, too,
\* becomes a call, of no resource.
WakeFrame(i) ==
  LET f == frames[i]
  IN  /\ ~busy /\ status = "RUNNING"
      /\ \/ /\ f.status = "SLEEPING"
            /\ \E g \in {Exited(f)} \cup (IF Def[f.state].frail THEN {FailFrame(f)} ELSE {}) :
                 LET after == [frames EXCEPT ![i] = g]
                 IN  Save(after, SettledParent(after, i))
            /\ UNCHANGED <<tokens, calls, nextCall>>
         \/ /\ f.status = "RETRY_WAIT"
            /\ Dispatch(i, [f EXCEPT !.status = IF f.token = 0 THEN "CALLING"
                                                ELSE "PARKED"])
      /\ UNCHANGED <<nudged, inbox, restarts, redrives>>

\* fireDue for a deadline or a missed heartbeat.
TimeOut(i) ==
  /\ ~busy /\ status = "RUNNING"
  /\ frames[i].status \in {"CALLING", "PARKED"} /\ Def[frames[i].state].timed
  /\ Deliver(frames, i, FALSE)
  /\ UNCHANGED <<nudged, calls, inbox, nextCall, restarts, redrives>>

\* StopExecution, and the deadline of the whole execution.
Abort ==
  /\ ~busy /\ status = "RUNNING"
  /\ status' = "ABORTED"
  /\ UNCHANGED <<frames, tokens, nudged, busy, joining, calls, inbox, nextCall,
                 restarts, redrives>>

-----------------------------------------------------------------------------
(* The others.                                                             *)

\* A worker's call returns.  Of a token task only a failed call is delivered;
\* a map has no resource, and its call fails.
CallReturns(c, ok) ==
  /\ c \in calls
  /\ ok => Def[frames[c.frame].state].type # "map"
  /\ calls' = calls \ {c}
  /\ inbox' = IF c.token # 0 /\ ok THEN inbox
              ELSE inbox \cup {[frame |-> c.frame, call |-> c.call, token |-> c.token,
                                attempt |-> c.attempt, ok |-> ok, by |-> "engine"]}
  /\ UNCHANGED <<status, frames, tokens, nudged, busy, joining, nextCall,
                 restarts, redrives>>

\* SendTaskSuccess and SendTaskFailure: the token is looked up here, and the
\* delivery names only the frame (token is history in it).
SendTask(w, t, ok) ==
  /\ \A d \in inbox : d.by # w
  /\ inbox' = inbox \cup {[frame |-> tokens[t], call |-> 0, token |-> t,
                           attempt |-> 0, ok |-> ok, by |-> w]}
  /\ UNCHANGED <<status, frames, tokens, nudged, busy, joining, calls, nextCall,
                 restarts, redrives>>

\* RedriveExecution, by its handler: frames that failed or were cut off run
\* their state again.
Redriven(i) ==
  LET f == frames[i]
      old == f.parent # 0 /\ f.gen # frames[f.parent].spawnGen
  IN  IF f.status \in {"DONE", "PENDING", "RUNNABLE", "JOIN"} \/ old THEN f
      ELSE IF /\ f.status = "FAILED" /\ Def[f.state].type = "map"
              /\ Children(frames, i) # {}
      THEN [f EXCEPT !.status = "JOIN"]
      ELSE [f EXCEPT !.status = "RUNNABLE", !.attempts = 0, !.token = 0]

Redrive ==
  /\ ~busy /\ status \in {"FAILED", "ABORTED"} /\ redrives < MaxRedrives
  /\ \E i \in DOMAIN frames : Redriven(i) # frames[i]
  /\ frames' = [i \in DOMAIN frames |-> Redriven(i)]
  /\ status' = "RUNNING" /\ nudged' = TRUE
  /\ redrives' = redrives + 1
  /\ UNCHANGED <<tokens, busy, joining, calls, inbox, nextCall, restarts>>

\* The process stops or dies, and the next one drives every execution that is
\* RUNNING.  Calls and deliveries are gone.
Restart ==
  /\ restarts < MaxRestarts
  /\ restarts' = restarts + 1
  /\ calls' = {} /\ inbox' = {} /\ joining' = 0 /\ busy' = FALSE
  /\ nudged' = (status = "RUNNING")
  /\ UNCHANGED <<status, frames, tokens, nextCall, redrives>>

Driver ==
  \/ Advance \/ Join \/ TakeNudge
  \/ \E d \in inbox : ApplyDelivery(d)
  \/ \E i \in DOMAIN frames : WakeFrame(i) \/ TimeOut(i)

SfnNext ==
  \/ Driver
  \/ Abort
  \/ \E c \in calls, ok \in BOOLEAN : CallReturns(c, ok)
  \/ \E w \in Workers, t \in DOMAIN tokens, ok \in BOOLEAN : SendTask(w, t, ok)
  \/ Redrive
  \/ Restart

SfnSpec == SfnInit /\ [][SfnNext]_sfnVars

-----------------------------------------------------------------------------
(* Properties.                                                             *)

\* A frame that something will move: a timer, a call that will be answered,
\* or a token that a caller can redeem.
Awaited(i) ==
  LET f == frames[i]
      Answers(m) == m.frame = i /\ m.attempt = f.attempts
  IN  \/ f.status \in {"SLEEPING", "RETRY_WAIT"}
      \/ f.status \in {"CALLING", "PARKED"} /\ Def[f.state].timed
      \/ f.status = "CALLING" /\ \E m \in calls \cup inbox : Answers(m)
      \/ f.status = "PARKED" /\ f.token \in DOMAIN tokens

Moving ==
  status = "RUNNING" => nudged \/ busy \/ \E i \in DOMAIN frames : Awaited(i)

\* A join that nothing will look at again: no branch of it is under way.
JoinLeft(p) ==
  /\ frames[p].status = "JOIN" /\ p # joining
  /\ \A k \in Children(frames, p) : Terminal(frames[k]) \/ frames[k].status = "PENDING"

\* A map whose MaxConcurrencyPath holds items back that nothing will start.
HeldBack(p) ==
  /\ Def[frames[p].state].limit > 0 /\ Def[frames[p].state].kept = 0
  /\ \E k \in Children(frames, p) : frames[k].status = "PENDING"

\* While the process lives a running execution always has something to wait
\* for: no order of results, timeouts, retries, catches and joins leaves it
\* RUNNING with nothing that could move it.  It may be stuck on two things
\* only: on the items a map holds back by a limit it does not keep, and after a
\* redrive, which sets every failed map that has children back to JOIN, also
\* one whose branches have settled, on that join.
NeverStuck ==
  restarts = 0 =>
    \/ Moving
    \/ \E p \in DOMAIN frames :
         JoinLeft(p) /\ (redrives > 0 \/ HeldBack(p))

\* "Restart is not a special case" (scheduler.go): a running execution has
\* something to wait for after a restart, too.
RestartResumes == Moving

\* "a PARKED frame with no redeemable token is a hung execution"
\* (store_tokens.go): in a running execution a frame that waits with a token,
\* or backs off with one, can be reached by that token, restarts included.
TokensRedeemable ==
  status = "RUNNING" =>
    \A i \in DOMAIN frames :
      frames[i].token # 0 /\ frames[i].status \in {"PARKED", "RETRY_WAIT"} =>
        frames[i].token \in DOMAIN tokens /\ tokens[frames[i].token] = i

\* A frame that was abandoned: it has failed, and its parent has moved on.
CutOff(p) ==
  LET parent == frames[p].parent
  IN  /\ frames[p].status = "FAILED" /\ p # 1
      /\ ~(frames[parent].status = "JOIN" /\ p \in Children(frames, parent))

\* A branch never outlives its join: until the execution is redriven, a frame
\* that has left JOIN leaves all of its children settled, so that no late
\* result can run a state of an abandoned branch.  Excepted are a frame that
\* was itself abandoned, as AbandonSiblings does not go below the children,
\* and strays, which a map that fails while it spawns does not take back.
NoBranchOutlivesJoin ==
  \A p \in DOMAIN frames :
    redrives = 0 /\ frames[p].status # "JOIN" /\ ~CutOff(p) =>
      \A k \in Children(frames, p) : Terminal(frames[k]) \/ frames[k].stray

\* The limit of a map, the greater one if it has two.
Ceiling(s) == IF Def[s].kept > Def[s].limit THEN Def[s].kept ELSE Def[s].limit

\* MaxConcurrency is "at most N non-terminal children at once" (spawn.go),
\* pending ones aside, until the execution is redriven.
ConcurrencyBound ==
  \A p \in DOMAIN frames :
    redrives = 0 /\ frames[p].status = "JOIN" /\ Def[frames[p].state].limit > 0 =>
      Cardinality({k \in Children(frames, p) :
                     ~Terminal(frames[k]) /\ frames[k].status # "PENDING"})
        <= Ceiling(frames[p].state)

\* A running execution always has something that can move it: NeverStuck while
\* the process lives, and its tokens across restarts.
ExecutionMoves == NeverStuck /\ TokensRedeemable

\* A join governs its branches: no more than MaxConcurrency at once, and none
\* after it has ended.
BranchesGoverned == NoBranchOutlivesJoin /\ ConcurrencyBound

=============================================================================
