---------------------------- MODULE LambdaRunner ----------------------------
(***************************************************************************)
(* One runner of a Lambda function (internal/lambdaruntime/runtime.go):    *)
(* the callers of InvokeInput, the process they start, the Runtime API     *)
(* handlers through which the process fetches work and reports it, the     *)
(* reaper that waits for the process, and Stop.                            *)
(*                                                                         *)
(* A step is what r.mu or one channel operation makes atomic.  A select    *)
(* with several cases ready takes any of them.  Output, logs and timing    *)
(* are left out, except that draining the output separates taking work     *)
(* from the queue from entering it in pending, and a result from its       *)
(* delivery.                                                               *)
(***************************************************************************)
EXTENDS Integers, Sequences, FiniteSets

CONSTANTS
  Invs,        \* the invocations, each made once
  QueueMax,    \* capacity of the queue channel
  MaxProcs     \* bound: processes started

VARIABLES
  inv,       \* what the callers see of their invocations
  queue,     \* r.queue
  pending,   \* r.pending
  started,   \* r.started
  stopped,   \* r.stopped
  proc       \* the processes, each with its connection to the Runtime API

runnerVars == <<inv, queue, pending, started, stopped, proc>>

None == "none"

ASSUME RunnerAssumption ==
  /\ None \notin Invs /\ IsFiniteSet(Invs)
  /\ QueueMax \in Nat \ {0} /\ MaxProcs \in Nat

\* sent counts what was put into done, a channel of capacity one.
InvRecord ==
  [pc : {"new", "enqueue", "wait", "exec", "returned"},
   sent : Nat, dispatched : BOOLEAN]

\* next: the GET next handler, blocked on the queue or holding an invocation;
\* doing: what the process works on; posting: the result handler has taken it
\* out of pending.
ProcRecord ==
  [alive : BOOLEAN, reaped : BOOLEAN,
   next : {"none", "polling", "took"}, hand : Invs \cup {None},
   doing : Invs \cup {None}, posting : BOOLEAN]

RunnerTypeOK ==
  /\ inv \in [Invs -> InvRecord]
  /\ queue \in Seq(Invs) /\ Len(queue) <= QueueMax
  /\ pending \subseteq Invs
  /\ started \in BOOLEAN /\ stopped \in BOOLEAN
  /\ DOMAIN proc \subseteq 1..MaxProcs
  /\ \A p \in DOMAIN proc : proc[p] \in ProcRecord

RunnerInit ==
  /\ inv = [i \in Invs |-> [pc |-> "new", sent |-> 0, dispatched |-> FALSE]]
  /\ queue = <<>> /\ pending = {}
  /\ started = FALSE /\ stopped = FALSE
  /\ proc = <<>>

NewProc ==
  [alive |-> TRUE, reaped |-> FALSE, next |-> "none", hand |-> None,
   doing |-> None, posting |-> FALSE]

Queued == {queue[n] : n \in DOMAIN queue}

-----------------------------------------------------------------------------
(* InvokeInput.                                                            *)

Return(i) == inv' = [inv EXCEPT ![i].pc = "returned"]

\* A stopped runner, or a process that cannot be launched: the call returns.
NotStarted(i) ==
  /\ inv[i].pc = "new" /\ (stopped \/ ~started)
  /\ Return(i)
  /\ UNCHANGED <<queue, pending, started, stopped, proc>>

EnsureStarted(i) ==
  /\ inv[i].pc = "new" /\ ~stopped
  /\ \/ started /\ UNCHANGED <<started, proc>>
     \/ /\ ~started /\ Len(proc) < MaxProcs
        /\ started' = TRUE
        /\ proc' = Append(proc, NewProc)
  /\ inv' = [inv EXCEPT ![i].pc = "enqueue"]
  /\ UNCHANGED <<queue, pending, stopped>>

\* Weakened form of Enqueue: the queue has no bound.
EnqueueUnbounded(i) ==
  /\ inv[i].pc = "enqueue"
  /\ queue' = Append(queue, i)
  /\ inv' = [inv EXCEPT ![i].pc = "wait"]
  /\ UNCHANGED <<pending, started, stopped, proc>>

Enqueue(i) ==
  /\ inv[i].pc = "enqueue" /\ Len(queue) < QueueMax
  /\ queue' = Append(queue, i)
  /\ inv' = [inv EXCEPT ![i].pc = "wait"]
  /\ UNCHANGED <<pending, started, stopped, proc>>

\* The function has the work: its own timeout applies from here.
SeesDispatch(i) ==
  /\ inv[i].pc = "wait" /\ inv[i].dispatched
  /\ inv' = [inv EXCEPT ![i].pc = "exec"]
  /\ UNCHANGED <<queue, pending, started, stopped, proc>>

GetsResult(i) ==
  /\ inv[i].pc \in {"wait", "exec"} /\ inv[i].sent > 0
  /\ Return(i)
  /\ UNCHANGED <<queue, pending, started, stopped, proc>>

\* The init budget, the function's timeout or the caller's context.  What was
\* queued stays queued.
GivesUp(i) ==
  /\ inv[i].pc \in {"enqueue", "wait", "exec"}
  /\ Return(i)
  /\ UNCHANGED <<queue, pending, started, stopped, proc>>

-----------------------------------------------------------------------------
(* The process and the handlers that serve it.                             *)

Asks(p) ==
  /\ proc[p].alive /\ proc[p].next = "none" /\ proc[p].doing = None /\ ~stopped
  /\ proc' = [proc EXCEPT ![p].next = "polling"]
  /\ UNCHANGED <<inv, queue, pending, started, stopped>>

\* The handler may still take work after its process has died, until it sees
\* that the connection has dropped.
Takes(p) ==
  /\ proc[p].next = "polling" /\ queue # <<>>
  /\ proc' = [proc EXCEPT ![p].next = "took", ![p].hand = Head(queue)]
  /\ queue' = Tail(queue)
  /\ UNCHANGED <<inv, pending, started, stopped>>

HangsUp(p) ==
  /\ proc[p].next = "polling" /\ (~proc[p].alive \/ stopped)
  /\ proc' = [proc EXCEPT ![p].next = "none"]
  /\ UNCHANGED <<inv, queue, pending, started, stopped>>

\* The rest of handleNext.
Dispatches(p) ==
  LET i == proc[p].hand
  IN  /\ proc[p].next = "took"
      /\ pending' = pending \cup {i}
      /\ inv' = [inv EXCEPT ![i].dispatched = TRUE]
      /\ proc' = [proc EXCEPT ![p].next = "none", ![p].hand = None,
                              ![p].doing = IF proc[p].alive THEN i ELSE None]
      /\ UNCHANGED <<queue, started, stopped>>

\* handleInvocationResult up to its unlock; an id not pending is refused.
Reports(p) ==
  LET i == proc[p].doing
  IN  /\ proc[p].alive /\ i # None /\ ~proc[p].posting /\ ~stopped
      /\ pending' = pending \ {i}
      /\ proc' = IF i \in pending THEN [proc EXCEPT ![p].posting = TRUE]
                 ELSE [proc EXCEPT ![p].doing = None]
      /\ UNCHANGED <<inv, queue, started, stopped>>

Delivers(p) ==
  /\ proc[p].posting
  /\ inv' = [inv EXCEPT ![proc[p].doing].sent = @ + 1]
  /\ proc' = [proc EXCEPT ![p].posting = FALSE, ![p].doing = None]
  /\ UNCHANGED <<queue, pending, started, stopped>>

Exits(p) ==
  /\ proc[p].alive
  /\ proc' = [proc EXCEPT ![p].alive = FALSE,
                          ![p].doing = IF proc[p].posting THEN @ ELSE None]
  /\ UNCHANGED <<inv, queue, pending, started, stopped>>

\* Weakened form of Failed: what the dead process had not fetched is forgotten.
FailedPending == IF stopped THEN {} ELSE pending

\* reap after cmd.Wait: a runner that was stopped answers nobody.
Failed == IF stopped THEN {} ELSE pending \cup Queued

Reaps(p) ==
  /\ ~proc[p].alive /\ ~proc[p].reaped
  /\ proc' = [proc EXCEPT ![p].reaped = TRUE]
  /\ started' = FALSE
  /\ inv' = [i \in Invs |->
               IF i \in Failed THEN [inv[i] EXCEPT !.sent = @ + 1] ELSE inv[i]]
  /\ pending' = pending \ Failed
  /\ queue' = IF stopped THEN queue ELSE <<>>
  /\ UNCHANGED stopped

Stop ==
  /\ ~stopped
  /\ stopped' = TRUE
  /\ proc' = [p \in DOMAIN proc |->
                [proc[p] EXCEPT !.alive = FALSE,
                                !.doing = IF proc[p].posting THEN @ ELSE None]]
  /\ UNCHANGED <<inv, queue, pending, started>>

-----------------------------------------------------------------------------
Caller(i) ==
  \/ NotStarted(i) \/ EnsureStarted(i) \/ Enqueue(i)
  \/ SeesDispatch(i) \/ GetsResult(i) \/ GivesUp(i)

Process(p) ==
  \/ Asks(p) \/ Takes(p) \/ HangsUp(p) \/ Dispatches(p)
  \/ Reports(p) \/ Delivers(p) \/ Exits(p) \/ Reaps(p)

RunnerNext ==
  \/ \E i \in Invs : Caller(i)
  \/ \E p \in DOMAIN proc : Process(p)
  \/ Stop

RunnerSpec == RunnerInit /\ [][RunnerNext]_runnerVars

-----------------------------------------------------------------------------
(* Properties.                                                             *)

InHand == {proc[p].hand : p \in DOMAIN proc} \ {None}

BeingPosted == {proc[p].doing : p \in {q \in DOMAIN proc : proc[q].posting}}

\* done has room for one result and the reaper sends while it holds r.mu, so
\* a second send would block the runner for good: no invocation is answered
\* twice, however a result, the death of the process and the reaper overlap.
AnsweredOnce == \A i \in Invs : inv[i].sent <= 1

\* An invocation handed to the runner is in exactly one place until it is
\* answered, and in none afterwards: the queue, the hand of a GET next
\* handler, pending, or a result on its way.
HeldInOnePlace ==
  \A i \in Invs :
    inv[i].pc \in {"wait", "exec"} =>
      LET places == {n \in DOMAIN queue : queue[n] = i}
      IN  Cardinality(places)
            + (IF i \in InHand THEN 1 ELSE 0)
            + (IF i \in pending THEN 1 ELSE 0)
            + (IF i \in BeingPosted THEN 1 ELSE 0)
            + inv[i].sent = 1

\* A runner has one process at a time: a new one is started only when the
\* reaper of the last has finished, so a late reaper never fails the work of
\* its successor.
OneProcess ==
  \A p, q \in DOMAIN proc : ~proc[p].reaped /\ ~proc[q].reaped => p = q

\* An invocation is handed over once, to one process, and answered once.
HandedOverOnce == HeldInOnePlace /\ AnsweredOnce /\ OneProcess

=============================================================================
