--------------------------- MODULE KinesisPoller ---------------------------
(***************************************************************************)
(* The Kinesis event source mapping of Lambda (pollKinesis in              *)
(* lambda/extras.go) reading a Kinesis stream.                             *)
(*                                                                         *)
(* The poller keeps one iterator per shard.  Its loop lists the shards     *)
(* when told to refresh, opens the ones it does not know at the trim       *)
(* horizon, then asks each for records and hands every batch to the        *)
(* function.  Each call to Kinesis is a step of its own, GetRecords is     *)
(* two: it fetches in one transaction and looks at the shard in a second   *)
(* one.  Nothing of the poller is stored, so a restart of the process and  *)
(* an update of the mapping begin anew.                                    *)
(***************************************************************************)
EXTENDS Kinesis

CONSTANT BatchSize   \* the mapping's batch size

ASSUME PollerAssumption == BatchSize \in Nat \ {0}

VARIABLES
  pol,     \* the poller's locals
  taken    \* history: the records it has moved past, with their era

pollVars == <<pol, taken>>

allVars == <<streamVars, pollVars>>

\* pc: where the loop is; iters: the iterators; opening: shards listed but not
\* opened; todo: shards still to read in this round; at, got: the GetRecords
\* call under way.
Fresh ==
  [pc |-> "round", iters |-> NoShards, opening |-> {}, todo |-> {},
   refresh |-> TRUE, at |-> NoShard, got |-> {}]

\* era is history: the stream the iterator was issued for.
Iterator == [after : Nat, issued : Nat, era : Nat]

PollerTypeOK ==
  /\ StreamTypeOK
  /\ pol.pc \in {"open", "round", "answer", "invoke"}
  /\ pol.iters \in [DOMAIN pol.iters -> Iterator]
  /\ pol.todo \subseteq DOMAIN pol.iters
  /\ pol.got \subseteq Record

PollerInit == StreamInit /\ pol = Fresh /\ taken = {}

Without(f, s) == [x \in DOMAIN f \ {s} |-> f[x]]

With(f, s, v) == [x \in DOMAIN f \cup {s} |-> IF x = s THEN v ELSE f[x]]

\* Weakened forms of Forgotten: the round goes on with the shard; the shards are
\* not listed again.
ForgottenHalf(s) ==
  [pol EXCEPT !.pc = "round", !.iters = Without(@, s), !.refresh = TRUE,
              !.at = NoShard, !.got = {}]

ForgottenForGood(s) ==
  [pol EXCEPT !.pc = "round", !.iters = Without(@, s), !.todo = @ \ {s},
              !.at = NoShard, !.got = {}]

\* A shard leaves the map and the next round begins with a listing.
Forgotten(s) ==
  [pol EXCEPT !.pc = "round", !.iters = Without(@, s), !.todo = @ \ {s},
              !.refresh = TRUE, !.at = NoShard, !.got = {}]

\* A record is known by its number within an era of the stream.
Stamped(S) == {<<era, r.seq>> : r \in S}

-----------------------------------------------------------------------------
(* The loop of pollKinesis.                                                *)

\* The top of the loop: a round has ended.
AtTop == pol.pc = "round" /\ pol.todo = {}

\* ListShards fails while the stream does not exist: the poller sleeps and
\* tries again.
List ==
  /\ AtTop /\ pol.refresh /\ live
  /\ pol' = [pol EXCEPT !.pc = "open",
                        !.opening = DOMAIN shards \ DOMAIN pol.iters]
  /\ UNCHANGED <<streamVars, taken>>

\* GetShardIterator; a shard that has gone since it was listed is skipped.  The
\* code looks the shard up in one transaction and for its oldest record in a
\* second one: what it keeps of the first, that the shard is there and where it
\* starts, changes only if the stream is deleted and created again in between.
OpenIterator ==
  /\ pol.pc = "open" /\ pol.opening # {}
  /\ LET s == Lowest(pol.opening)
     IN  pol' = [pol EXCEPT
           !.opening = @ \ {s},
           !.iters = IF s \in DOMAIN shards
             THEN With(@, s, [after |-> TrimHorizon(s), issued |-> now,
                              era |-> era])
             ELSE @]
  /\ UNCHANGED <<streamVars, taken>>

\* A new round.  With no iterator at all the poller sleeps and lists again.
BeginRound ==
  /\ \/ pol.pc = "open" /\ pol.opening = {}
     \/ AtTop /\ ~pol.refresh
  /\ pol' = [pol EXCEPT !.pc = "round", !.refresh = (pol.iters = NoShards),
                        !.todo = DOMAIN pol.iters]
  /\ UNCHANGED <<streamVars, taken>>

IteratorExpired(it) == now - it.issued > IteratorTTL

\* The first half of GetRecords: decodeIterator and Fetch.
Fetch(s) ==
  /\ pol.pc = "round" /\ s \in pol.todo
  /\ LET it == pol.iters[s]
     IN  pol' = IF s \in DOMAIN shards /\ ~IteratorExpired(it)
                THEN [pol EXCEPT !.pc = "answer", !.at = s,
                                 !.got = Fetched(s, it.after, BatchSize)]
                ELSE Forgotten(s)
  /\ UNCHANGED <<streamVars, taken>>

NextAfter ==
  IF pol.got = {} THEN pol.iters[pol.at].after ELSE Highest(Seqs(pol.got))

\* The second half: the shard is looked up again, and the answer is a null
\* iterator when it is closed and read to its end.  The poller moves its
\* iterator before it invokes the function.
Answer ==
  LET s == pol.at
      next == NextAfter
      kept == [after |-> next, issued |-> now, era |-> pol.iters[s].era]
      to == IF pol.got = {} THEN "round" ELSE "invoke"
  IN  /\ pol.pc = "answer" /\ s \in DOMAIN shards
      /\ taken' = taken \cup Stamped(pol.got)
      /\ pol' = IF Drained(s, next)
                THEN [Forgotten(s) EXCEPT !.pc = to]
                ELSE [pol EXCEPT !.pc = to, !.iters = With(@, s, kept),
                                 !.todo = @ \ {s}, !.at = NoShard, !.got = {}]
      /\ UNCHANGED streamVars

\* The stream or the shard went away between the two halves: the call fails.
AnswerGone ==
  /\ pol.pc = "answer" /\ pol.at \notin DOMAIN shards
  /\ pol' = Forgotten(pol.at)
  /\ UNCHANGED <<streamVars, taken>>

\* GetFunction and invokeFromSource.  Whether the function can be read and
\* how it ends makes no difference to the poller: nothing is tried again.
Invoke ==
  /\ pol.pc = "invoke"
  /\ pol' = [pol EXCEPT !.pc = "round"]
  /\ UNCHANGED <<streamVars, taken>>

Loop ==
  \/ List
  \/ OpenIterator
  \/ BeginRound
  \/ \E s \in pol.todo : Fetch(s)
  \/ Answer
  \/ AnswerGone
  \/ Invoke

\* The process restarts, or the mapping is updated: a new poller.
Restart ==
  /\ Does("Restart") /\ pol # Fresh
  /\ pol' = Fresh /\ taken' = {}
  /\ UNCHANGED streamVars

PollerNext ==
  \/ StreamNext /\ UNCHANGED pollVars
  \/ Loop
  \/ Restart

PollerSpec == PollerInit /\ [][PollerNext]_allVars

\* The poller's goroutine goes on while it can; its sleeps end.
FairPollerSpec == PollerSpec /\ WF_allVars(Loop)

-----------------------------------------------------------------------------
(* Properties.                                                             *)

\* An iterator never passes over a stored record the poller has not taken:
\* not when records are put or the shard is closed between the two halves of
\* GetRecords, not when retention moves the horizon between listing and
\* opening.  Iterators of an earlier stream of the same name are excepted;
\* they do skip, which the README describes.
NothingPassedOver ==
  \A s \in DOMAIN pol.iters \cap DOMAIN recs :
    pol.iters[s].era = era =>
      \A r \in recs[s] : r.seq <= pol.iters[s].after => <<era, r.seq>> \in taken

\* A null iterator is the truth: in the step in which the poller lets go of a
\* shard because it was answered one, everything stored in the shard has been
\* taken, also what was put between the fetch and the answer.
NullMeansRead ==
  [][/\ Answer /\ pol.at \notin DOMAIN pol'.iters
     /\ pol.iters[pol.at].era = era
     => \A r \in recs[pol.at] : <<era, r.seq>> \in taken']_allVars

\* With a fair poller a record in a shard that it has opened is taken, unless
\* retention, a deletion or a restart comes first: reads that fail and
\* iterators that expire do not lose it.
OpenedIsRead ==
  \A n \in 1..MaxSeq :
    (\E s \in DOMAIN pol.iters \cap DOMAIN recs :
       n \in Seqs(recs[s]) /\ pol.iters[s].era = era)
      ~> (\/ <<era, n>> \in taken \/ pol = Fresh
          \/ \A s \in DOMAIN recs : n \notin Seqs(recs[s]))

=============================================================================
