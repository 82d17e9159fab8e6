------------------------------- MODULE Shipper -------------------------------
(***************************************************************************)
(* The shippers that carry log lines (logship) and metrics (metricship) to *)
(* their service off the caller's path.  Put collects events and arms a    *)
(* timer; a Flush, by the timer or a caller, detaches what is pending      *)
(* under the mutex and sends it to the worker's channel outside of it;     *)
(* Close flushes, tells the worker to drain and waits for it.  The two     *)
(* packages differ in what they batch by, which is left out: a batch is a  *)
(* set of events, and publishing it succeeds, fails, or finds the service  *)
(* not enabled, which turns the shipper off.                               *)
(***************************************************************************)
EXTENDS Naturals, Sequences

CONSTANTS
  Flushers,    \* goroutines that can be inside Flush at the same time
  WorkMax,     \* the capacity of the work channel
  MaxEvents    \* bound: events put

VARIABLES
  pending,     \* the events that wait for a flush
  shipTimer,   \* the field timer: "nil", "armed", or "fired" and still set
  flusher,     \* the Flush calls: where they are and what they took
  work,        \* the channel
  shipFlags,   \* closed, dead, disabled
  shipWorker,  \* the worker: where it is and the batch in hand
  shipClose,   \* Close: where it is and what it took
  handled,     \* history: the events that were published, or tried
  nextEvent

shipVars == <<pending, shipTimer, flusher, work, shipFlags, shipWorker, shipClose,
              handled, nextEvent>>

ASSUME ShipperAssumption == WorkMax \in Nat \ {0} /\ MaxEvents \in Nat

Events == 1..MaxEvents

ShipperTypeOK ==
  /\ pending \subseteq Events /\ handled \subseteq Events
  /\ shipTimer \in {"nil", "armed", "fired"}
  /\ flusher \in [Flushers -> [pc : {"idle", "take", "send"}, batch : SUBSET Events]]
  /\ work \in Seq(SUBSET Events) /\ Len(work) <= WorkMax
  /\ shipFlags \in [closed : BOOLEAN, dead : BOOLEAN, disabled : BOOLEAN]
  /\ shipWorker \in [pc : {"select", "drain", "ship", "dying", "dead", "gone"},
                     back : {"select", "drain"}, batch : SUBSET Events]
  /\ shipClose \in [pc : {"open", "taken", "send", "quit", "wait", "closed", "abandoned"},
                    batch : SUBSET Events]
  /\ nextEvent \in 1..MaxEvents + 1

ShipperInit ==
  /\ pending = {} /\ handled = {} /\ work = <<>> /\ nextEvent = 1
  /\ shipTimer = "nil"
  /\ flusher = [f \in Flushers |-> [pc |-> "idle", batch |-> {}]]
  /\ shipFlags = [closed |-> FALSE, dead |-> FALSE, disabled |-> FALSE]
  /\ shipWorker = [pc |-> "select", back |-> "select", batch |-> {}]
  /\ shipClose = [pc |-> "open", batch |-> {}]

-----------------------------------------------------------------------------
(* Put and Flush.                                                          *)

\* Put drops the event when the shipper is dead, off or closed.
PutEvent ==
  /\ nextEvent <= MaxEvents
  /\ nextEvent' = nextEvent + 1
  /\ LET off == shipFlags.dead \/ shipFlags.disabled \/ shipFlags.closed
     IN  /\ pending' = IF off THEN pending ELSE pending \cup {nextEvent}
         /\ shipTimer' = IF ~off /\ shipTimer = "nil" THEN "armed" ELSE shipTimer
  /\ UNCHANGED <<flusher, work, shipFlags, shipWorker, shipClose, handled>>

\* A caller's Flush, or the timer's: the field stays set until take.
FlushBegins(f) ==
  /\ flusher[f].pc = "idle"
  /\ flusher' = [flusher EXCEPT ![f].pc = "take"]
  /\ UNCHANGED <<pending, shipTimer, work, shipFlags, shipWorker, shipClose, handled,
                 nextEvent>>

TimerFlushes(f) ==
  /\ shipTimer = "armed" /\ flusher[f].pc = "idle"
  /\ shipTimer' = "fired"
  /\ flusher' = [flusher EXCEPT ![f].pc = "take"]
  /\ UNCHANGED <<pending, work, shipFlags, shipWorker, shipClose, handled, nextEvent>>

\* Weakened form of Detached: take stops the timer and leaves the field.
StopsOnly ==
  pending' = {} /\ shipTimer' = IF shipTimer = "nil" THEN "nil" ELSE "fired"

\* take: what is pending is detached, the timer stopped and forgotten.
Detached == pending' = {} /\ shipTimer' = "nil"

Take(f) ==
  /\ flusher[f].pc = "take"
  /\ Detached
  /\ flusher' = [flusher EXCEPT ![f] =
                   [pc |-> IF pending = {} THEN "idle" ELSE "send", batch |-> pending]]
  /\ UNCHANGED <<work, shipFlags, shipWorker, shipClose, handled, nextEvent>>

WorkerGone == shipWorker.pc = "gone"

\* send: the channel, or done.
Sent(batch) ==
  \/ batch # {} /\ Len(work) < WorkMax /\ work' = Append(work, batch)
  \/ (WorkerGone \/ batch = {}) /\ UNCHANGED work

Send(f) ==
  /\ flusher[f].pc = "send"
  /\ Sent(flusher[f].batch)
  /\ flusher' = [flusher EXCEPT ![f] = [pc |-> "idle", batch |-> {}]]
  /\ UNCHANGED <<pending, shipTimer, shipFlags, shipWorker, shipClose, handled, nextEvent>>

-----------------------------------------------------------------------------
(* The worker.                                                             *)

NextBatch ==
  /\ shipWorker.pc \in {"select", "drain"} /\ work # <<>>
  /\ work' = Tail(work)
  /\ shipWorker' = [pc |-> "ship", back |-> shipWorker.pc, batch |-> Head(work)]
  /\ UNCHANGED <<pending, shipTimer, flusher, shipFlags, shipClose, handled, nextEvent>>

WorkerTo(from, to) == shipWorker.pc = from /\ shipWorker' = [shipWorker EXCEPT !.pc = to]

QuitSeen ==
  /\ shipClose.pc \in {"wait", "closed", "abandoned"} /\ WorkerTo("select", "drain")
  /\ UNCHANGED <<pending, shipTimer, flusher, work, shipFlags, shipClose, handled,
                 nextEvent>>

DrainEnds ==
  /\ work = <<>> /\ WorkerTo("drain", "gone")
  /\ UNCHANGED <<pending, shipTimer, flusher, work, shipFlags, shipClose, handled,
                 nextEvent>>

\* ship and publish: the batch goes out or fails, or the service is not
\* enabled, and then what is pending is thrown away as well (fail).
Ship ==
  /\ shipWorker.pc = "ship"
  /\ shipWorker' = [shipWorker EXCEPT !.pc = shipWorker.back, !.batch = {}]
  /\ handled' = handled \cup shipWorker.batch
  /\ \/ UNCHANGED <<pending, shipFlags>>
     \/ pending' = {} /\ shipFlags' = [shipFlags EXCEPT !.disabled = TRUE]
  /\ UNCHANGED <<shipTimer, flusher, work, shipClose, nextEvent>>

\* A panic loses the batch; die, then done.
WorkerDies ==
  /\ \/ /\ shipWorker.pc = "ship"
        /\ shipWorker' = [shipWorker EXCEPT !.pc = "dying", !.batch = {}]
        /\ UNCHANGED shipFlags
     \/ /\ WorkerTo("dying", "dead")
        /\ shipFlags' = [shipFlags EXCEPT !.closed = TRUE, !.dead = TRUE]
     \/ WorkerTo("dead", "gone") /\ UNCHANGED shipFlags
  /\ UNCHANGED <<pending, shipTimer, flusher, work, shipClose, handled, nextEvent>>

ShipWorks == NextBatch \/ QuitSeen \/ DrainEnds \/ Ship \/ WorkerDies

-----------------------------------------------------------------------------
(* Close, once.                                                            *)

CloseTakes ==
  /\ shipClose.pc = "open"
  /\ Detached
  /\ shipClose' = [pc |-> "taken", batch |-> pending]
  /\ UNCHANGED <<flusher, work, shipFlags, shipWorker, handled, nextEvent>>

CloseTo(from, to) == shipClose.pc = from /\ shipClose' = [shipClose EXCEPT !.pc = to]

CloseFlags ==
  /\ CloseTo("taken", "send")
  /\ shipFlags' = [shipFlags EXCEPT !.closed = TRUE]
  /\ UNCHANGED <<pending, shipTimer, flusher, work, shipWorker, handled, nextEvent>>

CloseSends ==
  /\ CloseTo("send", "quit")
  /\ Sent(shipClose.batch)
  /\ UNCHANGED <<pending, shipTimer, flusher, shipFlags, shipWorker, handled, nextEvent>>

\* quit, and the wait for done, which is given up at closeDeadline.
CloseWaits ==
  /\ \/ CloseTo("quit", "wait")
     \/ WorkerGone /\ CloseTo("wait", "closed")
     \/ CloseTo("wait", "abandoned")
  /\ UNCHANGED <<pending, shipTimer, flusher, work, shipFlags, shipWorker, handled,
                 nextEvent>>

ShipperCloses == CloseTakes \/ CloseFlags \/ CloseSends \/ CloseWaits

ShipperNext ==
  \/ PutEvent
  \/ \E f \in Flushers : FlushBegins(f) \/ TimerFlushes(f) \/ Take(f) \/ Send(f)
  \/ ShipWorks
  \/ ShipperCloses

ShipperSpec == ShipperInit /\ [][ShipperNext]_shipVars

-----------------------------------------------------------------------------
(* Properties.                                                             *)

\* "they are shipped within flushAfter" (Put): what is pending always has a
\* flush to come, also when an old timer's callback runs late, a flush stops
\* the timer of a newer Put, or the worker throws pending events away.
PendingIsTimed ==
  pending # {} => shipTimer = "armed" \/ \E f \in Flushers : flusher[f].pc = "take"

\* "It waits for what was pending to be sent" (Close): what Close found
\* pending was published or tried when it returns, unless the worker died or
\* Close gave it up.
ShippedOnClose ==
  shipClose.pc = "closed" /\ ~shipFlags.dead => shipClose.batch \subseteq handled

=============================================================================
