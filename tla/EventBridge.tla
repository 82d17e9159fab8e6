----------------------------- MODULE EventBridge -----------------------------
(***************************************************************************)
(* EventBridge on one bus (eventbridge): a pattern rule and its targets,   *)
(* an archive of the bus, PutEvents and StartReplay.                       *)
(*                                                                         *)
(* PutEvents reads the rules in one transaction, calls the targets, reads  *)
(* the archives in another and appends in a third.  StartReplay walks the  *)
(* archive as it was when its read transaction began and does for every    *)
(* event what PutEvents does, with the rules as they are by then.          *)
(*                                                                         *)
(* An event is named by the PutEvents entry that sent it.  A call to a     *)
(* target may fail; the failure is logged and the event is not sent again. *)
(* An API destination is called in the background, by a goroutine that     *)
(* outlives the request and tries twice.                                   *)
(***************************************************************************)
EXTENDS Naturals, Sequences, FiniteSets

CONSTANTS
  Entries,     \* PutEvents entries: each is sent once
  Replays,     \* StartReplay requests
  ReplayNames, \* the names they give their replays
  RuleTargets, \* targets a rule may have
  HttpTargets, \* those that are API destinations
  MaxArchives  \* bound: archives ever created

ASSUME EventConstants ==
  MaxArchives \in Nat /\ Entries \cap Replays = {} /\ HttpTargets \subseteq RuleTargets

VARIABLES
  evRule,    \* the rule: there, ENABLED, its targets
  archive,   \* there; how often it was created
  archived,  \* the archive's events, in the order of their keys
  putting,   \* entries -> where its handler is and the targets still to call
  replaying, \* requests -> where its handler is: see ReplayState
  recorded,  \* the replays bucket: name -> the request it records, or none
  sending,   \* target, event, entry or request -> attempts its goroutine has left
  got        \* history: target, event, entry or request -> deliveries

eventVars ==
  <<evRule, archive, archived, putting, replaying, recorded, sending, got>>

Passes == RuleTargets \X Entries \X (Entries \cup Replays)

NotReplaying == [at |-> "idle", name |-> "none", left |-> <<>>, calls |-> {}]

EventTypeOK ==
  /\ evRule \in [there : BOOLEAN, enabled : BOOLEAN, targets : SUBSET RuleTargets]
  /\ archive \in [there : BOOLEAN, born : 0..MaxArchives]
  /\ ~archive.there => archived = <<>>
  /\ \A i, j \in DOMAIN archived : archived[i] = archived[j] => i = j
  /\ \A e \in Entries : putting[e].at \in {"idle", "calls", "capture", "append", "done"}
  /\ \A r \in Replays : replaying[r].at \in {"idle", "walk", "record", "done"}
  /\ sending \in [Passes -> Nat] /\ got \in [Passes -> Nat]

EventInit ==
  /\ evRule = [there |-> FALSE, enabled |-> FALSE, targets |-> {}]
  /\ archive = [there |-> FALSE, born |-> 0]
  /\ archived = <<>>
  /\ putting = [e \in Entries |-> [at |-> "idle", calls |-> {}]]
  /\ replaying = [r \in Replays |-> NotReplaying]
  /\ recorded = [n \in ReplayNames |-> "none"]
  /\ sending = [x \in Passes |-> 0]
  /\ got = [x \in Passes |-> 0]

-----------------------------------------------------------------------------
(* Rules and archives                                                      *)

PutRule ==
  /\ evRule' = [evRule EXCEPT !.there = TRUE, !.enabled = TRUE]
  /\ UNCHANGED <<archive, archived, putting, replaying, recorded, sending, got>>

EnableDisableRule ==
  /\ evRule.there
  /\ evRule' = [evRule EXCEPT !.enabled = ~@]
  /\ UNCHANGED <<archive, archived, putting, replaying, recorded, sending, got>>

PutTargets(t) ==
  /\ evRule.there
  /\ evRule' = [evRule EXCEPT !.targets = @ \cup {t}]
  /\ UNCHANGED <<archive, archived, putting, replaying, recorded, sending, got>>

RemoveTargets(t) ==
  /\ evRule.there
  /\ evRule' = [evRule EXCEPT !.targets = @ \ {t}]
  /\ UNCHANGED <<archive, archived, putting, replaying, recorded, sending, got>>

\* A rule with targets is not deleted.
DeleteRule ==
  /\ evRule.there /\ evRule.targets = {}
  /\ evRule' = [there |-> FALSE, enabled |-> FALSE, targets |-> {}]
  /\ UNCHANGED <<archive, archived, putting, replaying, recorded, sending, got>>

CreateArchive ==
  /\ ~archive.there
  /\ archive.born < MaxArchives
  /\ archive' = [there |-> TRUE, born |-> archive.born + 1]
  /\ UNCHANGED <<evRule, archived, putting, replaying, recorded, sending, got>>

DeleteArchive ==
  /\ archive.there
  /\ archive' = [archive EXCEPT !.there = FALSE]
  /\ archived' = <<>>
  /\ UNCHANGED <<evRule, putting, replaying, recorded, sending, got>>

-----------------------------------------------------------------------------
(* PutEvents                                                               *)

\* matchAndDispatch: the targets of the enabled rule, as they are now.
Matched == IF evRule.there /\ evRule.enabled THEN evRule.targets ELSE {}

PutEvents(e) ==
  /\ putting[e].at = "idle"
  /\ putting' = [putting EXCEPT ![e] = [at |-> "calls", calls |-> Matched]]
  /\ UNCHANGED <<evRule, archive, archived, replaying, recorded, sending, got>>

\* The attempts of deliverHTTP.
Attempts == 2

\* A request reaches the target, or does not.
Reaches(x) == got' \in {[got EXCEPT ![x] = @ + 1], got}

\* dispatchAPIDestination: nothing is sent when the destination or its
\* connection is gone or not active.
dispatchAPIDestination(x) ==
  /\ sending' \in {[sending EXCEPT ![x] = @ + Attempts], sending}
  /\ UNCHANGED got

\* dispatch: one call to one target.
Called(t, e, via) ==
  \/ t \notin HttpTargets /\ Reaches(<<t, e, via>>) /\ UNCHANGED sending
  \/ t \in HttpTargets /\ dispatchAPIDestination(<<t, e, via>>)

\* Weakened form of CallTarget: a target that was called is called again.
CallTargetAgain(e, t) ==
  /\ putting[e].at = "calls"
  /\ t \in putting[e].calls
  /\ Called(t, e, e)
  /\ UNCHANGED <<evRule, archive, archived, putting, replaying, recorded>>

CallTarget(e, t) ==
  /\ putting[e].at = "calls"
  /\ t \in putting[e].calls
  /\ putting' = [putting EXCEPT ![e].calls = @ \ {t}]
  /\ Called(t, e, e)
  /\ UNCHANGED <<evRule, archive, archived, replaying, recorded>>

CallsOver(e) == putting[e].at = "calls" /\ putting[e].calls = {}

\* captureToArchives reads which archives there are ...
Capture(e) ==
  /\ CallsOver(e)
  /\ putting' = [putting EXCEPT ![e].at = IF archive.there THEN "append" ELSE "done"]
  /\ UNCHANGED <<evRule, archive, archived, replaying, recorded, sending, got>>

\* AppendArchiveEvent: an archive that is gone by now drops the event.
Appends(e) == IF archive.there THEN Append(archived, e) ELSE archived

AppendEvent(e) ==
  /\ putting[e].at = "append"
  /\ archived' = Appends(e)
  /\ putting' = [putting EXCEPT ![e].at = "done"]
  /\ UNCHANGED <<evRule, archive, replaying, recorded, sending, got>>

-----------------------------------------------------------------------------
(* StartReplay                                                             *)

\* The archive exists; the walk begins on a snapshot of its events.
StartReplay(r, n) ==
  /\ replaying[r].at = "idle"
  /\ archive.there
  /\ replaying' = [replaying EXCEPT ![r] =
                     [at |-> "walk", name |-> n, left |-> archived, calls |-> {}]]
  /\ UNCHANGED <<evRule, archive, archived, putting, recorded, sending, got>>

\* The next event: the rules are read inside the walk's transaction, in one
\* of their own.
ReplayMatch(r) ==
  /\ replaying[r].at = "walk"
  /\ replaying[r].left # <<>>
  /\ replaying[r].calls = {}
  /\ replaying' = [replaying EXCEPT
                     ![r].calls = {<<t, Head(replaying[r].left)>> : t \in Matched},
                     ![r].left = Tail(@)]
  /\ UNCHANGED <<evRule, archive, archived, putting, recorded, sending, got>>

ReplayCall(r, c) ==
  /\ c \in replaying[r].calls
  /\ replaying' = [replaying EXCEPT ![r].calls = @ \ {c}]
  /\ Called(c[1], c[2], r)
  /\ UNCHANGED <<evRule, archive, archived, putting, recorded>>

ReplayEnds(r) ==
  /\ replaying[r].at = "walk"
  /\ replaying[r].left = <<>>
  /\ replaying[r].calls = {}
  /\ replaying' = [replaying EXCEPT ![r].at = "record"]
  /\ UNCHANGED <<evRule, archive, archived, putting, recorded, sending, got>>

\* The name of an earlier replay is refused, after the events were sent.
RecordedAs(n, r) == IF recorded[n] = "none" THEN r ELSE recorded[n]

PutReplay(r) ==
  /\ replaying[r].at = "record"
  /\ LET n == replaying[r].name
     IN recorded' = [recorded EXCEPT ![n] = RecordedAs(n, r)]
  /\ replaying' = [replaying EXCEPT ![r].at = "done"]
  /\ UNCHANGED <<evRule, archive, archived, putting, sending, got>>

-----------------------------------------------------------------------------
(* API destinations                                                        *)

\* One attempt.  A transport error, 429, 5xx, or 401 under OAuth leaves the next
\* one, whether or not the request has reached the endpoint; anything else ends
\* it.
deliverHTTP(x) ==
  /\ sending[x] > 0
  /\ sending' \in {[sending EXCEPT ![x] = 0], [sending EXCEPT ![x] = @ - 1]}
  /\ Reaches(x)
  /\ UNCHANGED <<evRule, archive, archived, putting, replaying, recorded>>

EntryNext(e) ==
  \/ \E t \in RuleTargets : CallTarget(e, t)
  \/ Capture(e) \/ AppendEvent(e)

ReplayNext(r) ==
  \/ ReplayMatch(r) \/ ReplayEnds(r) \/ PutReplay(r)
  \/ \E c \in replaying[r].calls : ReplayCall(r, c)

EventNext ==
  \/ PutRule \/ EnableDisableRule \/ DeleteRule
  \/ \E t \in RuleTargets : PutTargets(t) \/ RemoveTargets(t)
  \/ CreateArchive \/ DeleteArchive
  \/ \E e \in Entries : PutEvents(e) \/ EntryNext(e)
  \/ \E r \in Replays : (\E n \in ReplayNames : StartReplay(r, n)) \/ ReplayNext(r)
  \/ \E x \in Passes : deliverHTTP(x)

EventSpec == EventInit /\ [][EventNext]_eventVars

-----------------------------------------------------------------------------
(* Properties                                                              *)

\* One PutEvents and one replay each send an event to a target once at most,
\* and to an API destination as often as deliverHTTP tries, also when the archive
\* is deleted, created again and replayed meanwhile.
SentOncePerPass ==
  \A x \in Passes :
    got[x] + sending[x] <= IF x[1] \in HttpTargets THEN Attempts ELSE 1

\* A replay calls only for what was put before: the first round of calls for an
\* event is over when a replay calls for it again.  The order is that of the
\* calls.  To an API destination a call is the start of a goroutine: the
\* deliveries of the first round may still be under way, and come after those
\* of the replay.
ReplayAfterFirst ==
  \A t \in RuleTargets, e \in Entries, r \in Replays :
    got[<<t, e, r>>] + sending[<<t, e, r>>] > 0 =>
      putting[e].at \in {"append", "done"} /\ putting[e].calls = {}

\* Every pass of an event over the rules calls each target once, with the
\* attempts that has, and the first pass is over before a replay begins.
SentInOrder == SentOncePerPass /\ ReplayAfterFirst

=============================================================================
