---------------------------- MODULE SqsLongPoll ----------------------------
(***************************************************************************)
(* ReceiveMessage with a wait (Receive in sqs/receive.go) and the notifier *)
(* that wakes it (sqs/notify.go), over the store of SqsStore.              *)
(*                                                                         *)
(* Each receiver is a goroutine in Receive's loop: register, one delivery  *)
(* pass, decide, sleep.  The calls that write commit first and call the    *)
(* notifier afterwards, so between the two everyone else can run: a signal *)
(* or a forget that is owed is part of the state.                          *)
(***************************************************************************)
EXTENDS SqsStore, FiniteSetsExt

CONSTANTS
  Receiver,   \* the goroutines that receive
  Waits,      \* WaitTimeSeconds of their calls; -1 asks for the queue's default
  MaxWait,    \* maxWaitTimeSeconds
  MaxOwed     \* bound: writers of a queue between commit and notifier

VARIABLES
  call,     \* each receiver's Receive call: where it is, and its locals
  chans,    \* keys of the notifier's map
  onMap,    \* receivers that hold the channel the map has for their queue
  signals,  \* by queue: writers that have committed and not yet signalled
  forgets   \* by queue: deletions that have committed and not yet forgotten

pollVars == <<call, chans, onMap, signals, forgets>>
allVars == <<vars, pollVars>>

ASSUME PollAssumption ==
  /\ Waits \subseteq Int
  /\ MaxWait \in Nat
  /\ MaxOwed \in Nat

Idle ==
  [pc |-> "idle", queue |-> NoQueue, override |-> NoOverride, deadline |-> 0,
   wakeAt |-> 0, got |-> FALSE, woken |-> FALSE, redriven |-> NoQueue]

Call ==
  [pc : {"idle", "register", "check", "decide", "sleep", "forget"},
   queue : Queue \cup {NoQueue}, override : Timeouts \cup {NoOverride},
   deadline : Nat, wakeAt : Nat, got : BOOLEAN, woken : BOOLEAN,
   redriven : Queue \cup {NoQueue}]

PollTypeOK ==
  /\ call \in [Receiver -> Call]
  /\ chans \subseteq Queue
  /\ onMap \subseteq Receiver
  /\ signals \in [Queue -> Nat]
  /\ forgets \in [Queue -> Nat]

PollInit ==
  /\ Init
  /\ call = [r \in Receiver |-> Idle]
  /\ chans = {}
  /\ onMap = {}
  /\ signals = [q \in Queue |-> 0]
  /\ forgets = [q \in Queue |-> 0]

-----------------------------------------------------------------------------
(* The notifier.  A channel is known by who holds it: the receivers on the *)
(* one in the map, and those whose channel is closed or has been dropped.  *)

WaitersOn(q) == {r \in onMap : call[r].queue = q}

\* signal: close the channel in the map, waking its holders, and drop it.
Signalled(q) ==
  [r \in Receiver |->
     IF r \in WaitersOn(q) THEN [call[r] EXCEPT !.woken = TRUE] ELSE call[r]]

\* forget: drop the channel in the map without closing it.
Forget(q) ==
  /\ chans' = chans \ {q}
  /\ onMap' = onMap \ WaitersOn(q)

-----------------------------------------------------------------------------
(* Receive.                                                                *)

\* Weakened form of WaitOf: -1 is taken for a wait.
WaitAsGiven(q, w) == w

\* The call's wait, or the queue's default, up to the ceiling.
WaitOf(q, w) ==
  LET asked == IF w >= 0 THEN w
               ELSE IF q \in live THEN cfg[q].WaitTimeSeconds ELSE 0
  IN IF asked > MaxWait THEN MaxWait ELSE asked

Begin(r, q, w, override) ==
  /\ call[r].pc = "idle"
  /\ q \in live \/ Does("ReceiveFromMissing")
  /\ now + WaitOf(q, w) <= MaxTime
  /\ \A m \in msgs[q] : m.count < MaxReceives
  /\ call' = [call EXCEPT ![r] =
       [Idle EXCEPT !.pc = "register", !.queue = q, !.override = override,
                    !.deadline = now + WaitOf(q, w)]]
  /\ UNCHANGED <<vars, chans, onMap, signals, forgets>>

\* notify.wait: interest is registered before the store is looked at.
Register(r) ==
  /\ call[r].pc = "register"
  /\ chans' = chans \cup {call[r].queue}
  /\ onMap' = onMap \cup {r}
  /\ call' = [call EXCEPT ![r].pc = "check", ![r].woken = FALSE]
  /\ UNCHANGED <<vars, signals, forgets>>

\* Weakened form of Due: the pass does not say when to look again.
DueNever(q) == {}

\* When the in-flight and delayed messages a pass met become visible.
Due(q) == {m.visible : m \in {x \in msgs[q] : InFlight(x) /\ ~Expired(cfg[q], x, now)}}

\* receiveOnce's transaction.  The call remembers whether it has messages, the
\* time to wake at, and the dead-letter queue it still has to signal.
Check(r, max) ==
  LET q == call[r].queue
  IN /\ call[r].pc = "check"
     /\ ReceiveOnce(q, max, call[r].override)
     /\ call' = [call EXCEPT
          ![r].pc = "decide",
          ![r].got = Deliver(q, max) # {},
          ![r].wakeAt = Min({call[r].deadline} \cup Due(q)),
          ![r].redriven = IF ToMove(q, max) # {} THEN cfg[q].DeadLetterTarget ELSE NoQueue]
     /\ UNCHANGED <<chans, onMap, signals, forgets>>

\* The transaction failed: there is no such queue.
CheckMissing(r) ==
  /\ call[r].pc = "check"
  /\ call[r].queue \notin live
  /\ call' = [call EXCEPT ![r].pc = "forget"]
  /\ UNCHANGED <<vars, chans, onMap, signals, forgets>>

\* Weakened form of ReturnMissing: the entry registered for is left behind.
ReturnAtOnce(r) ==
  /\ call[r].pc = "forget"
  /\ onMap' = onMap \ {r}
  /\ call' = [call EXCEPT ![r] = Idle]
  /\ UNCHANGED <<vars, chans, signals, forgets>>

\* notify.forget, then the error is returned.
ReturnMissing(r) ==
  /\ call[r].pc = "forget"
  /\ Forget(call[r].queue)
  /\ call' = [call EXCEPT ![r] = Idle]
  /\ UNCHANGED <<vars, signals, forgets>>

\* Weakened form of Decide: the dead-letter queue is not signalled.
DecideSilently(r) ==
  LET done == call[r].got \/ now >= call[r].deadline
  IN /\ call[r].pc = "decide"
     /\ onMap' = onMap \ IF done THEN {r} ELSE {}
     /\ call' = [call EXCEPT ![r] =
          IF done THEN Idle ELSE [@ EXCEPT !.pc = "sleep", !.redriven = NoQueue]]
     /\ UNCHANGED <<vars, chans, signals, forgets>>

\* After the transaction: signal the dead-letter queue if messages moved
\* there, then return with messages or at the deadline, or go to sleep.
Decide(r) ==
  LET d == call[r].redriven
      done == call[r].got \/ now >= call[r].deadline
  IN /\ call[r].pc = "decide"
     /\ chans' = chans \ {d}
     /\ onMap' = onMap \ (WaitersOn(d) \cup IF done THEN {r} ELSE {})
     /\ call' = [Signalled(d) EXCEPT ![r] =
          IF done THEN Idle ELSE [@ EXCEPT !.pc = "sleep", !.redriven = NoQueue]]
     /\ UNCHANGED <<vars, signals, forgets>>

\* Weakened form of Wake: there is no timer.
WakeBySignal(r) ==
  /\ call[r].pc = "sleep"
  /\ call[r].woken
  /\ onMap' = onMap \ {r}
  /\ call' = [call EXCEPT ![r].pc = "register"]
  /\ UNCHANGED <<vars, chans, signals, forgets>>

\* The channel was closed or the timer fired: go round the loop again.
Wake(r) ==
  /\ call[r].pc = "sleep"
  /\ call[r].woken \/ now >= call[r].wakeAt
  /\ onMap' = onMap \ {r}
  /\ call' = [call EXCEPT ![r].pc = "register"]
  /\ UNCHANGED <<vars, chans, signals, forgets>>

Step(r) ==
  \/ Register(r)
  \/ \E max \in 1..MaxBatch : Check(r, max)
  \/ CheckMissing(r)
  \/ ReturnMissing(r)
  \/ Decide(r)
  \/ Wake(r)

-----------------------------------------------------------------------------
(* The other calls: commit, then tell the notifier.                        *)

\* Send, SendBatch and StartMessageMoveTask signal the queue they fill.
Fill(q) ==
  /\ signals[q] < MaxOwed
  /\ Send(q) \/ MoveTo(q)
  /\ signals' = [signals EXCEPT ![q] = @ + 1]
  /\ UNCHANGED <<call, chans, onMap, forgets>>

Signal(q) ==
  /\ signals[q] > 0
  /\ signals' = [signals EXCEPT ![q] = @ - 1]
  /\ call' = Signalled(q)
  /\ Forget(q)
  /\ UNCHANGED <<vars, forgets>>

Drop(q) ==
  /\ forgets[q] < MaxOwed
  /\ Remove(q)
  /\ forgets' = [forgets EXCEPT ![q] = @ + 1]
  /\ UNCHANGED <<call, chans, onMap, signals>>

ForgetDropped(q) ==
  /\ forgets[q] > 0
  /\ forgets' = [forgets EXCEPT ![q] = @ - 1]
  /\ Forget(q)
  /\ UNCHANGED <<vars, call, signals>>

\* Calls that never tell the notifier, the janitor, and time.
Quiet ==
  /\ \/ \E q \in Queue : Define(q) \/ UseHandles(q)
     \/ Janitor
     \/ Tick
  /\ UNCHANGED pollVars

PollNext ==
  \/ \E r \in Receiver :
       \/ Step(r)
       \/ \E q \in Queue, w \in Waits, override \in Timeouts \cup {NoOverride} :
            Begin(r, q, w, override)
  \/ \E q \in Queue : Fill(q) \/ Signal(q) \/ Drop(q) \/ ForgetDropped(q)
  \/ Quiet

PollSpec == PollInit /\ [][PollNext]_allVars

\* Goroutines run, timers fire and time passes.
FairPollSpec ==
  /\ PollSpec
  /\ \A r \in Receiver : WF_allVars(Step(r))
  /\ WF_allVars(Tick /\ UNCHANGED pollVars)

-----------------------------------------------------------------------------
(* Properties.                                                             *)

\* A signal to queue q is on its way.
SignalOwed(q) ==
  \/ signals[q] > 0
  \/ \E r \in Receiver : call[r].pc = "decide" /\ call[r].redriven = q

\* The receiver is asleep, nothing has woken it and its timer is not due.
Asleep(r) ==
  call[r].pc = "sleep" /\ ~call[r].woken /\ now < call[r].wakeAt

\* No wakeup is lost: a receiver never sleeps beside a deliverable message,
\* unless the writer that put the message there is about to close the very
\* channel it sleeps on.  (Receivers whose channel was dropped by a forget
\* are the subject of NobodyForgotten.)
NoLostWakeup ==
  \A r \in onMap :
    LET q == call[r].queue
    IN Asleep(r) /\ q \in live /\ Ready(q) # {} => SignalOwed(q)

\* The notifier's map does not leak: an entry for a queue that is gone has a
\* deletion or a receive behind it that is still going to remove it.
NoStrandedChannel ==
  \A q \in chans \ live :
    \/ forgets[q] > 0
    \/ \E r \in Receiver :
         call[r].queue = q /\ call[r].pc \in {"check", "forget", "sleep"}

\* Every ReceiveMessage call comes back.
ReceiveReturns ==
  \A r \in Receiver : call[r].pc # "idle" ~> call[r].pc = "idle"

\* What the repository says and the code does not keep.

\* "Getting the channel before re-checking the store avoids lost wakeups"
\* (notify.go): a receiver that sleeps beside a deliverable message sleeps on
\* a channel that a signal still reaches.
NobodyForgotten ==
  \A r \in Receiver :
    Asleep(r) /\ call[r].queue \in live /\ Ready(call[r].queue) # {}
      => r \in onMap

=============================================================================
