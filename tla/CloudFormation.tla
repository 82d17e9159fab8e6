--------------------------- MODULE CloudFormation ---------------------------
(***************************************************************************)
(* CloudFormation stacks (cloudformation/, internal/provision): create,    *)
(* update, delete and change sets, and what a failed deploy undoes.  The   *)
(* work is done inside the request, one call to another service after the  *)
(* other, and nothing is locked between them: other requests, and users of *)
(* the other services, come in between.                                    *)
(*                                                                         *)
(* A resource is its physical name.  Apply goes through the names in       *)
(* increasing order and Destroy in decreasing order, as their phases do;   *)
(* the notifications of buckets have a phase of their own in between.  A   *)
(* resource has a kind that Existing probes, and a stored template can be  *)
(* read again.  Exports, nested stacks, tags, termination protection and   *)
(* events are left out.                                                    *)
(***************************************************************************)
EXTENDS Integers, FiniteSets, FiniteSetsExt

CONSTANTS
  ResourceNames,   \* physical names, numbers in the order Apply goes
  Stacks,          \* stack names
  StackRequests,   \* requests that may be under way at once
  Templates,       \* templates: sets of names
  DeletionPolicy,  \* of each name: "Delete", "Retain", "RetainExceptOnCreate"
  Report,          \* of each name: what Apply's report says last, see below
  Early            \* names whose phase comes before the notifications

VARIABLES
  world,     \* the names under which there is a resource, whoever made it
  stack,     \* the stack records
  changes,   \* stack -> its change set
  request,   \* the requests
  calm       \* history: only this request has changed anything since it began

cfnVars == <<world, stack, changes, request, calm>>

ASSUME StackAssumption ==
  /\ ResourceNames \subseteq Nat /\ IsFiniteSet(ResourceNames)
  /\ Templates \subseteq SUBSET ResourceNames /\ {} \notin Templates
  /\ DeletionPolicy \in [ResourceNames -> {"Delete", "Retain", "RetainExceptOnCreate"}]
  /\ Report \in [ResourceNames -> {"created", "amended", "unsure"}]
  /\ \A n \in ResourceNames : Report[n] = "amended" => n \in Early

\* The last word of the report on a resource that was made: "created", as of
\* most kinds; of a bucket with notifications "created" until these are put and
\* "updated" then ("amended"); or either ("unsure"), as of a topic, which is
\* "created" when it gets a subscription, or a REST or HTTP API, which is
\* "updated" once it is deployed.

Policies == {"rollback", "keep", "delete"}

Statuses ==
  {"none", "REVIEW_IN_PROGRESS", "CREATE_COMPLETE", "UPDATE_COMPLETE",
   "CREATE_FAILED", "UPDATE_FAILED", "ROLLBACK_COMPLETE", "ROLLBACK_FAILED",
   "UPDATE_ROLLBACK_COMPLETE", "UPDATE_ROLLBACK_FAILED", "DELETE_COMPLETE"}

StackRecord ==
  [status : Statuses, tmpl : SUBSET ResourceNames, res : SUBSET ResourceNames]

\* The stack of no request.
NoName == "none"

NoStack == [status |-> "none", tmpl |-> {}, res |-> {}]

\* No change set, or one that cannot be executed.
NoChanges == [there |-> FALSE]

ChangeSet ==
  [there : {TRUE}, tmpl : SUBSET ResourceNames, update : BOOLEAN]

NoRequest ==
  [pc |-> "ready", stack |-> NoName, update |-> FALSE, policy |-> "rollback",
   set |-> FALSE, tmpl |-> {}, prev |-> NoStack, had |-> {}, hurt |-> {}, todo |-> {},
   touched |-> {}, made |-> {}, failed |-> {}, left |-> {}, lost |-> FALSE]

CfnTypeOK ==
  /\ world \subseteq ResourceNames
  /\ stack \in [Stacks -> StackRecord]
  /\ changes \in [Stacks -> ChangeSet \cup {NoChanges}]
  /\ calm \in [StackRequests -> BOOLEAN]
  /\ \A q \in StackRequests :
       /\ request[q].pc \in {"ready", "probe", "apply", "amend", "finish", "undo",
                             "restore", "drop", "destroy", "forget", "put", "again",
                             "mark", "review"}
       /\ request[q].prev \in StackRecord
       /\ request[q].todo \subseteq ResourceNames
       /\ request[q].made \subseteq request[q].touched

CfnInit ==
  /\ world = {}
  /\ stack = [s \in Stacks |-> NoStack]
  /\ changes = [s \in Stacks |-> NoChanges]
  /\ request = [q \in StackRequests |-> NoRequest]
  /\ calm = [q \in StackRequests |-> TRUE]

-----------------------------------------------------------------------------
(* Helpers.                                                                *)

Proceeds(q, r) == request' = [request EXCEPT ![q] = r]

\* q changes something the other requests may look at.
Disturbs(q) == calm' = [p \in StackRequests |-> p = q /\ calm[p]]

Arrives(q, r) ==
  /\ request[q].pc = "ready"
  /\ Proceeds(q, r)
  /\ calm' = [calm EXCEPT ![q] = TRUE]

There(n) == n \in world

\* GetStack by name: a deleted stack is not found.
Found(s) == IF stack[s].status = "DELETE_COMPLETE" THEN NoStack ELSE stack[s]

retained(record, createRollback) ==
  {n \in record.tmpl \cap record.res :
     \/ DeletionPolicy[n] = "Retain"
     \/ DeletionPolicy[n] = "RetainExceptOnCreate" /\ ~createRollback}

\* An update of a stack that was there when the deploy read it.
Updates(r) == r.update /\ r.prev # NoStack

\* The names of the previous template, when there is one to go back to.
PrevNames(r) == IF Updates(r) THEN r.prev.tmpl ELSE {}

\* What the report calls created, less what the template says to retain.
madeBy(r) == r.made \ retained([tmpl |-> r.tmpl, res |-> r.tmpl], TRUE)

\* Weakened form of Undoes: all that was touched is deleted.
UndoesTouched(r) == r.touched

\* What settleFailure deletes.
Undoes(r) == madeBy(r) \ PrevNames(r)

\* The request with its next list of names, or past it when that is empty.
Does(r, pc, todo, then) ==
  IF todo = {} THEN then ELSE [r EXCEPT !.pc = pc, !.todo = todo]

Puts(r) == [r EXCEPT !.pc = "put", !.todo = {}]

Restores(r) ==
  IF Updates(r) THEN Does(r, "restore", PrevNames(r), Puts(r)) ELSE Puts(r)

\* settleFailure.
Settles(r) ==
  IF r.policy = "keep" THEN Puts(r) ELSE Does(r, "undo", Undoes(r), Restores(r))

\* removeDropped, after an apply that worked.
Drops(r) ==
  LET dropped == (PrevNames(r) \ r.tmpl) \ retained(r.prev, FALSE)
  IN  Does(r, "drop", dropped, Puts(r))

\* The phases of provision.Apply: those before the notifications, these, and
\* those after them.
Finishes(r) == Does(r, "finish", r.tmpl \ Early, Drops(r))

Amends(r) ==
  Does(r, "amend", {n \in r.tmpl : Report[n] = "amended"}, Finishes(r))

Applies(r) == Does(r, "apply", r.tmpl \cap Early, Amends(r))

\* Where a request goes with the rest of its list.
Rest(r, todo) ==
  Does(r, r.pc, todo,
       CASE r.pc = "apply"   -> Amends(r)
         [] r.pc = "amend"   -> Finishes(r)
         [] r.pc = "finish"  -> Drops(r)
         [] r.pc = "undo"    -> Restores(r)
         [] r.pc = "destroy" -> [r EXCEPT !.pc = "forget", !.todo = {}]
         [] OTHER            -> Puts(r))

-----------------------------------------------------------------------------
(* Requests begin.                                                         *)

Deploy(s, t, update, policy, set) ==
  [NoRequest EXCEPT !.pc = "probe", !.stack = s, !.tmpl = t, !.update = update,
               !.policy = policy, !.set = set]

CreateStack(q, s) ==
  /\ Found(s).status \in {"none", "REVIEW_IN_PROGRESS"}
  /\ \E t \in Templates, policy \in Policies :
       Arrives(q, Deploy(s, t, FALSE, policy, FALSE))
  /\ UNCHANGED <<world, stack, changes>>

\* A create whose template does not transpile is recorded as failed.
recordFailure(q, s) ==
  /\ request[q].pc = "ready"
  /\ Found(s).status \in {"none", "REVIEW_IN_PROGRESS"}
  /\ \E t \in Templates :
       stack' = [stack EXCEPT ![s] =
                   [Found(s) EXCEPT !.status = "CREATE_FAILED", !.tmpl = t]]
  /\ Disturbs(q)
  /\ UNCHANGED <<world, changes, request>>

refuseUpdate(s) ==
  stack[s].status \in {"none", "ROLLBACK_COMPLETE", "ROLLBACK_FAILED",
                       "CREATE_FAILED", "DELETE_COMPLETE"}

\* The same template again stands for one with other properties or parameters;
\* a request that changes nothing is refused.
UpdateStack(q, s) ==
  /\ ~refuseUpdate(s)
  /\ \E t \in Templates, policy \in Policies :
       Arrives(q, Deploy(s, t, TRUE, policy, FALSE))
  /\ UNCHANGED <<world, stack, changes>>

\* A stack is found by its id also when it is deleted.  One whose creation was
\* rolled back owns nothing.
DeleteStack(q, s) ==
  LET st   == stack[s]
      todo == IF st.status = "ROLLBACK_COMPLETE" THEN {}
              ELSE st.tmpl \ retained(st, FALSE)
      r    == [NoRequest EXCEPT !.pc = "destroy", !.stack = s, !.prev = st]
  IN  /\ st # NoStack
      /\ Arrives(q, Rest(r, todo))
      /\ UNCHANGED <<world, stack, changes>>

CreateChangeSet(q, s) ==
  /\ \E t \in Templates, update \in BOOLEAN :
       /\ update => Found(s) # NoStack
       /\ Arrives(q, [NoRequest EXCEPT !.pc = "review", !.stack = s, !.tmpl = t,
                                 !.update = update, !.prev = Found(s)])
  /\ UNCHANGED <<world, stack, changes>>

ExecuteChangeSet(q, s) ==
  /\ changes[s].there
  /\ \E policy \in Policies :
       Arrives(q, Deploy(s, changes[s].tmpl, changes[s].update, policy, TRUE))
  /\ UNCHANGED <<world, stack, changes>>

DeleteChangeSet(q, s) ==
  /\ request[q].pc = "ready" /\ changes[s].there
  /\ changes' = [changes EXCEPT ![s] = NoChanges]
  /\ Disturbs(q)
  /\ UNCHANGED <<world, stack, request>>

-----------------------------------------------------------------------------
(* Requests go on.                                                         *)

Fails(r, n) == Settles([r EXCEPT !.failed = {n}])

\* The deploy reads the record and refuseTaken asks for every name the stack
\* does not hold: one that is taken fails the deploy, and so does a call that
\* fails.
Probe(q) ==
  LET r     == [request[q] EXCEPT !.prev = Found(request[q].stack),
                                  !.had = world]
      owned == IF Updates(r) THEN r.prev.res \cup r.prev.tmpl ELSE {}
      fresh == r.tmpl \ owned
      taken == {n \in fresh : There(n)}
  IN  /\ request[q].pc = "probe"
      /\ \/ taken = {} /\ Proceeds(q, Applies(r))
         \/ taken # {} /\ Proceeds(q, Fails(r, Min(taken)))
         \/ \E n \in fresh : Proceeds(q, Fails(r, n))
      /\ UNCHANGED <<world, stack, changes, calm>>

\* The request once n has been reported on: touchedBy and made() look at the
\* last word.
Reported(r, n, makes) ==
  LET done == [r EXCEPT !.touched = @ \cup {n}]
      new  == [done EXCEPT !.made = @ \cup {n}]
  IN  IF Report[n] = "unsure" THEN {done, new} ELSE IF makes THEN {new} ELSE {done}

\* One resource of provision.Apply, of a deploy and of an update's rollback:
\* made when it is missing, else brought in line.  Of the calls that takes, any
\* may fail: the first, or one that comes after the resource was made, before
\* or after the report.
ApplyOne(q) ==
  LET r       == request[q]
      n       == Min(r.todo)
      back    == r.pc = "restore"
      after   == IF back THEN {r} ELSE Reported(r, n, ~There(n))
      Fail(x) == IF back THEN Puts([r EXCEPT !.lost = TRUE]) ELSE Fails(x, n)
  IN  /\ r.pc \in {"apply", "finish", "restore"}
      /\ \/ /\ IF There(n) THEN UNCHANGED <<world, calm>>
               ELSE world' = world \cup {n} /\ Disturbs(q)
            /\ \/ \E x \in after : Proceeds(q, Rest(x, r.todo \ {n}))
               \/ \E x \in after \cup {r} : Proceeds(q, Fail(x))
         \/ Proceeds(q, Fail(r)) /\ UNCHANGED <<world, calm>>
      /\ UNCHANGED <<stack, changes>>

\* applyNotifications, of one bucket: its report is "updated" now.
AmendOne(q) ==
  LET r == request[q]
      n == Min(r.todo)
  IN  /\ r.pc = "amend"
      /\ \/ Proceeds(q, Rest([r EXCEPT !.made = @ \ {n}], r.todo \ {n}))
         \/ Proceeds(q, Fails(r, n))
      /\ UNCHANGED <<world, stack, changes, calm>>

\* One resource of provision.Destroy.  What is gone already is no failure, and
\* a failure does not stop it.
DestroyOne(q) ==
  LET r    == request[q]
      n    == Max(r.todo)
      rest == r.todo \ {n}
      gone == [r EXCEPT !.hurt = @ \cup ({n} \cap r.had)]
  IN  /\ r.pc \in {"undo", "drop", "destroy"}
      /\ \/ /\ world' = world \ {n} /\ Disturbs(q)
            /\ Proceeds(q, Rest(gone, rest))
         \/ /\ There(n)
            /\ Proceeds(q, Rest([r EXCEPT !.left = @ \cup {n}], rest))
            /\ UNCHANGED <<world, calm>>
      /\ UNCHANGED <<stack, changes>>

\* DeleteStackChangeSets.
Forget(q) ==
  /\ request[q].pc = "forget"
  /\ changes' = [changes EXCEPT ![request[q].stack] = NoChanges]
  /\ Proceeds(q, Puts(request[q]))
  /\ Disturbs(q)
  /\ UNCHANGED <<world, stack>>

Attempted(r) == r.touched \cup r.failed

\* The status a deploy ends with.
Outcome(r) ==
  IF r.failed = {} THEN IF r.update THEN "UPDATE_COMPLETE" ELSE "CREATE_COMPLETE"
  ELSE IF r.policy = "keep" THEN IF Updates(r) THEN "UPDATE_FAILED" ELSE "CREATE_FAILED"
  ELSE IF Updates(r) THEN IF r.lost \/ r.left # {} THEN "UPDATE_ROLLBACK_FAILED"
                          ELSE "UPDATE_ROLLBACK_COMPLETE"
  ELSE IF r.left # {} THEN "ROLLBACK_FAILED"
  ELSE IF r.policy = "delete" THEN "DELETE_COMPLETE" ELSE "ROLLBACK_COMPLETE"

\* The record a deploy or a deletion stores.
Recorded(r) ==
  LET ends == Outcome(r)
  IN  IF r.tmpl = {} THEN [r.prev EXCEPT !.status = "DELETE_COMPLETE", !.res = {}]
      ELSE IF ends \in {"UPDATE_ROLLBACK_COMPLETE", "UPDATE_ROLLBACK_FAILED"}
      THEN [r.prev EXCEPT !.status = ends]
      ELSE [status |-> ends, tmpl |-> r.tmpl,
            res |-> IF r.failed = {} THEN r.tmpl
                    ELSE IF ends = "DELETE_COMPLETE" THEN {} ELSE Attempted(r)]

\* PutStack.  Of a create or update, recordDeployFields may put it once more;
\* a change set is marked afterwards.
PutStack(q) ==
  LET r == request[q]
  IN  /\ r.pc \in {"put", "again"}
      /\ stack' = [stack EXCEPT ![r.stack] = Recorded(r)]
      /\ Disturbs(q)
      /\ \/ r.set /\ Proceeds(q, [r EXCEPT !.pc = "mark"])
         \/ ~r.set /\ Proceeds(q, NoRequest)
         \/ /\ ~r.set /\ r.tmpl # {} /\ r.pc = "put"
            /\ Proceeds(q, [r EXCEPT !.pc = "again"])
      /\ UNCHANGED <<world, changes>>

\* ExecuteChangeSet's last step: the copy it began with, no longer AVAILABLE.
MarkChangeSet(q) ==
  LET r == request[q]
  IN  /\ r.pc = "mark"
      /\ changes' = [changes EXCEPT ![r.stack] = NoChanges]
      /\ Proceeds(q, NoRequest)
      /\ Disturbs(q)
      /\ UNCHANGED <<world, stack>>

\* The second half of CreateChangeSet: a stack that was not there appears in
\* REVIEW_IN_PROGRESS.  The set can be executed when it has changes; a property
\* that was edited is one.
PutChangeSet(q) ==
  LET r == request[q]
  IN  /\ r.pc = "review"
      /\ stack' = IF r.prev # NoStack THEN stack
                  ELSE [stack EXCEPT ![r.stack] =
                          [status |-> "REVIEW_IN_PROGRESS", tmpl |-> r.tmpl, res |-> {}]]
      /\ \E edited \in BOOLEAN :
           changes' = [changes EXCEPT ![r.stack] =
                         IF edited \/ r.prev.res # r.tmpl
                         THEN [there |-> TRUE, tmpl |-> r.tmpl, update |-> r.update]
                         ELSE NoChanges]
      /\ Proceeds(q, NoRequest)
      /\ Disturbs(q)
      /\ UNCHANGED world

-----------------------------------------------------------------------------
(* Around the service.                                                     *)

\* Somebody makes or deletes a resource through its own service.
UserActs(n) ==
  /\ world' = IF There(n) THEN world \ {n} ELSE world \cup {n}
  /\ calm' = [q \in StackRequests |-> FALSE]
  /\ UNCHANGED <<stack, changes, request>>

\* The process dies: what was made stays, and nothing of the request is stored.
CfnCrash ==
  /\ request' = [q \in StackRequests |-> NoRequest]
  /\ UNCHANGED <<world, stack, changes, calm>>

CfnNext ==
  \/ \E q \in StackRequests, s \in Stacks :
       \/ CreateStack(q, s) \/ recordFailure(q, s) \/ UpdateStack(q, s)
       \/ DeleteStack(q, s) \/ CreateChangeSet(q, s) \/ ExecuteChangeSet(q, s)
       \/ DeleteChangeSet(q, s)
  \/ \E q \in StackRequests :
       \/ Probe(q) \/ ApplyOne(q) \/ AmendOne(q) \/ DestroyOne(q) \/ Forget(q)
       \/ PutStack(q) \/ MarkChangeSet(q) \/ PutChangeSet(q)
  \/ \E n \in ResourceNames : UserActs(n)
  \/ CfnCrash

CfnSpec == CfnInit /\ [][CfnNext]_cfnVars

-----------------------------------------------------------------------------
(* Properties.                                                             *)

RolledBack == {"ROLLBACK_COMPLETE", "UPDATE_ROLLBACK_COMPLETE"}

\* What was made and the rollback does not know of: the report says another
\* thing of it last, or a call after it was made failed before the report.
Unknown(r) == {n \in r.tmpl \ r.made : Report[n] # "created" \/ n \in r.failed}

\* Deploy tools "expect to find the account as it was" (rollback.go).  When a
\* deploy that nobody interfered with is about to be recorded as rolled back,
\* every resource that was there before it is still the same one, and what it
\* made is gone, but for what the template retains, what the previous template
\* names, and what the rollback does not know of.  This is whatever step failed,
\* and whatever change sets, crashes and earlier failures led there.
RollbackRestores ==
  \A q \in StackRequests :
    LET r == request[q]
    IN  r.pc = "put" /\ r.tmpl # {} /\ calm[q] /\ Outcome(r) \in RolledBack =>
          /\ r.hurt = {} /\ \A n \in r.had : There(n)
          /\ \A n \in ResourceNames \ r.had : There(n) =>
               n \in PrevNames(r) \cup (r.tmpl \ madeBy([r EXCEPT !.made = r.tmpl]))
                     \cup Unknown(r)

=============================================================================
