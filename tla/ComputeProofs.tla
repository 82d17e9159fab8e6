--------------------------- MODULE ComputeProofs ----------------------------
(***************************************************************************)
(* Proofs about the database handle behind a store, for every number of    *)
(* callers, about CloudFormation, for every number of stacks, resource     *)
(* names and requests, and about a Step Functions execution, for every     *)
(* machine and every value of the bounds.                                  *)
(***************************************************************************)
EXTENDS MC_Compute, LambdaProofs

-----------------------------------------------------------------------------
(* The lazily opened database.                                             *)

\* The handles are numbered without a gap, so the number of the next one is new.
HandlesNumbered == \E n \in 0..MaxHandles : DOMAIN boltState = 1..n

\* What Close and the callers have between their steps: Close has work while
\* it waits, an open handle is the current one, ensured, and never left behind
\* by Close, and a transaction runs on it.
HandlesTracked ==
  /\ \A h \in DOMAIN boltState : boltState[h] = "open" <=> h = current
  /\ current # NoHandle => current \in ensured
  /\ closing => dbClosed /\ current # NoHandle
  /\ dbClosed /\ ~closing => current = NoHandle
  /\ \A c \in Callers : /\ caller[c].pc = "use" => caller[c].h # NoHandle
                        /\ caller[c].pc = "tx" => caller[c].h = current /\ current # NoHandle

\* The inductive invariant of the database.
BoltInv == BoltTypeOK /\ HandlesNumbered /\ HandlesTracked

\* A store that was never opened.
LEMMA BoltInitInv == BoltInit => BoltInv
<1> SUFFICES ASSUME BoltInit
             PROVE  BoltInv
  OBVIOUS
<1> USE BoltAssumption DEF BoltInit, NoHandle, Resting, UserAt
<1>1. BoltTypeOK
  <2>1. /\ DOMAIN boltState = {current} \ {NoHandle} /\ current \in {0, 1}
        /\ \A h \in DOMAIN boltState : boltState[h] = "open"
    OBVIOUS
  <2>2. caller \in [Callers -> [pc : {"rest", "lock", "use", "tx"},
                               h : {NoHandle} \cup DOMAIN boltState]]
    OBVIOUS
  <2>3. /\ DOMAIN boltState \subseteq 1..MaxHandles
        /\ \A h \in DOMAIN boltState : boltState[h] \in {"open", "shut"}
    BY <2>1
  <2>4. ensured \subseteq DOMAIN boltState /\ current \in {NoHandle} \cup DOMAIN boltState
    BY <2>1
  <2>5. fileThere \in BOOLEAN /\ dbClosed \in BOOLEAN /\ closing \in BOOLEAN
    OBVIOUS
  <2> QED
    BY <2>2, <2>3, <2>4, <2>5 DEF BoltTypeOK
<1>2. HandlesNumbered
  <2>1. CASE fileThere
    <3>1. DOMAIN boltState = 1..1
      BY <2>1
    <3> QED
      BY <3>1 DEF HandlesNumbered
  <2>2. CASE ~fileThere
    <3>1. DOMAIN boltState = 1..0
      BY <2>2
    <3> QED
      BY <3>1 DEF HandlesNumbered
  <2> QED
    BY <2>1, <2>2
<1>3. HandlesTracked
  BY DEF HandlesTracked
<1> QED
  BY <1>1, <1>2, <1>3 DEF BoltInv

\* The number handle gives a file it opens.
LEMMA FreshHandle ==
  ASSUME HandlesNumbered
  PROVE  /\ Fresh \in Nat \ {0}
         /\ Fresh \notin DOMAIN boltState
         /\ DOMAIN boltState \cup {Fresh} = 1..Fresh
<1>1. PICK n \in 0..MaxHandles : DOMAIN boltState = 1..n
  BY DEF HandlesNumbered
<1>2. n \in Nat
  BY BoltAssumption
<1>3. Cardinality(1..n) = n
  BY <1>2, FS_Interval
<1>4. Fresh = n + 1
  BY <1>1, <1>3 DEF Fresh
<1> QED
  BY <1>1, <1>2, <1>4

\* Opening or reopening the file (lazybolt.go): the handle gets a number that
\* no other has, and the caller alone holds it.
LEMMA OpensInv ==
  ASSUME BoltInv, NEW c \in Callers, caller[c].pc = "lock", ~closing, ~dbClosed,
         current = NoHandle, Opens(c), UNCHANGED <<dbClosed, closing>>
  PROVE  BoltInv'
<1> USE BoltAssumption DEF BoltInv, NoHandle, Resting, UserAt, Becomes
<1>1. CASE UNCHANGED <<fileThere, boltState, ensured, current>> /\ Becomes(c, Resting)
  <2>1. BoltTypeOK'
    BY <1>1 DEF BoltTypeOK
  <2>2. HandlesNumbered' /\ HandlesTracked'
    BY <1>1 DEF HandlesNumbered, HandlesTracked, BoltTypeOK
  <2> QED
    BY <2>1, <2>2
<1>2. ASSUME NEW works \in BOOLEAN,
             Fresh <= MaxHandles, fileThere' = TRUE,
             boltState' = [h \in DOMAIN boltState \cup {Fresh} |->
                             IF h # Fresh THEN boltState[h]
                             ELSE IF works THEN "open" ELSE "shut"],
             ensured' = IF works THEN ensured \cup {Fresh} ELSE ensured,
             current' = IF works THEN Fresh ELSE current,
             Becomes(c, IF works THEN UserAt("use", Fresh) ELSE Resting)
      PROVE  BoltInv'
  <2>1. /\ Fresh \in Nat \ {0} /\ Fresh \notin DOMAIN boltState
        /\ DOMAIN boltState \cup {Fresh} = 1..Fresh
    BY FreshHandle
  <2> HIDE DEF Fresh
  <2>2. DOMAIN boltState' = DOMAIN boltState \cup {Fresh}
    BY <1>2
  <2>3. HandlesNumbered'
    BY <1>2, <2>1, <2>2 DEF HandlesNumbered
  <2>4. BoltTypeOK'
    <3>1. DOMAIN boltState' \subseteq 1..MaxHandles
      BY <1>2, <2>1, <2>2
    <3>2. \A h \in DOMAIN boltState' : boltState'[h] \in {"open", "shut"}
      BY <1>2 DEF BoltTypeOK
    <3>3. caller' \in [Callers -> [pc : {"rest", "lock", "use", "tx"},
                                   h : {NoHandle} \cup DOMAIN boltState']]
      BY <1>2, <2>2 DEF BoltTypeOK
    <3>4. ensured' \subseteq DOMAIN boltState' /\ current' \in {NoHandle} \cup DOMAIN boltState'
      BY <1>2, <2>2 DEF BoltTypeOK
    <3> QED
      BY <1>2, <3>1, <3>2, <3>3, <3>4 DEF BoltTypeOK
  <2>5. HandlesTracked'
    <3>1. \A h \in DOMAIN boltState : h # Fresh /\ h # NoHandle
      BY <2>1 DEF BoltTypeOK
    <3>2. \A h \in DOMAIN boltState' : boltState'[h] = "open" <=> h = current'
      BY <1>2, <2>1, <3>1 DEF HandlesTracked, BoltTypeOK
    <3>3. \A d \in Callers : /\ caller'[d].pc = "use" => caller'[d].h # NoHandle
                             /\ caller'[d].pc # "tx"
      BY <1>2, <2>1 DEF HandlesTracked, BoltTypeOK
    <3> QED
      BY <1>2, <2>1, <3>2, <3>3 DEF HandlesTracked
  <2> QED
    BY <2>3, <2>4, <2>5
<1> QED
  BY <1>1, <1>2 DEF Opens

\* Every step of the callers, of the idle timer and of close keeps the handles
\* numbered and counted.
LEMMA BoltStep == BoltInv /\ [BoltNext]_boltVars => BoltInv'
<1> SUFFICES ASSUME BoltInv, [BoltNext]_boltVars
             PROVE  BoltInv'
  OBVIOUS
<1> USE BoltAssumption DEF BoltInv, NoHandle, Resting, UserAt, Becomes
<1>1. ASSUME NEW c \in Callers, LookForHandle(c)
      PROVE  BoltInv'
  <2>1. BoltTypeOK'
    BY <1>1 DEF BoltTypeOK, LookForHandle
  <2>2. HandlesNumbered' /\ HandlesTracked'
    BY <1>1 DEF HandlesNumbered, HandlesTracked, BoltTypeOK, LookForHandle
  <2> QED
    BY <2>1, <2>2
<1>2. ASSUME NEW c \in Callers, ViewIfExists(c)
      PROVE  BoltInv'
  <2>1. BoltTypeOK'
    BY <1>2 DEF BoltTypeOK, ViewIfExists
  <2>2. HandlesNumbered' /\ HandlesTracked'
    BY <1>2 DEF HandlesNumbered, HandlesTracked, BoltTypeOK, ViewIfExists
  <2> QED
    BY <2>1, <2>2
<1>3. ASSUME NEW c \in Callers, UnderLock(c)
      PROVE  BoltInv'
  <2>1. CASE ~dbClosed /\ current = NoHandle /\ Opens(c)
    BY <1>3, <2>1, OpensInv DEF UnderLock
  <2>2. CASE ~(~dbClosed /\ current = NoHandle /\ Opens(c))
    <3>1. /\ UNCHANGED <<fileThere, boltState, ensured, current, dbClosed, closing>>
          /\ Becomes(c, Resting) \/ (current # NoHandle /\ Becomes(c, UserAt("use", current)))
      BY <1>3, <2>2 DEF UnderLock
    <3>2. BoltTypeOK'
      BY <3>1 DEF BoltTypeOK
    <3>3. HandlesNumbered'
      BY <3>1 DEF HandlesNumbered
    <3>4. \A d \in Callers \ {c} : caller'[d] = caller[d]
      BY <3>1 DEF BoltTypeOK
    <3>5. caller'[c].pc # "tx" /\ (caller'[c].pc = "use" => caller'[c].h # NoHandle)
      BY <3>1 DEF BoltTypeOK
    <3>6. HandlesTracked'
      BY <3>1, <3>4, <3>5 DEF HandlesTracked
    <3> QED
      BY <3>2, <3>3, <3>6
  <2> QED
    BY <2>1, <2>2
<1>4. ASSUME NEW c \in Callers, BeginTx(c)
      PROVE  BoltInv'
  <2>1. BoltTypeOK'
    BY <1>4 DEF BoltTypeOK, BeginTx
  <2>2. HandlesNumbered' /\ HandlesTracked'
    BY <1>4 DEF HandlesNumbered, HandlesTracked, BoltTypeOK, BeginTx
  <2> QED
    BY <2>1, <2>2
<1>5. ASSUME NEW c \in Callers, EndTx(c)
      PROVE  BoltInv'
  <2>1. BoltTypeOK'
    BY <1>5 DEF BoltTypeOK, EndTx
  <2>2. HandlesNumbered' /\ HandlesTracked'
    BY <1>5 DEF HandlesNumbered, HandlesTracked, BoltTypeOK, EndTx
  <2> QED
    BY <2>1, <2>2
<1>6. CASE ShutBegins
  BY <1>6 DEF ShutBegins, BoltTypeOK, HandlesNumbered, HandlesTracked
<1>7. CASE ShutEnds
  <2>1. \A c \in Callers : caller[c].pc # "tx"
    <3> SUFFICES ASSUME NEW c \in Callers, caller[c].pc = "tx"
                 PROVE  FALSE
      OBVIOUS
    <3>1. caller[c] = UserAt("tx", current)
      BY DEF BoltTypeOK, HandlesTracked
    <3> QED
      BY <1>7, <3>1 DEF ShutEnds, InTx
  <2>2. current \in DOMAIN boltState /\ 0 \notin DOMAIN boltState
    BY <1>7 DEF ShutEnds, BoltTypeOK, HandlesTracked
  <2>3. BoltTypeOK'
    BY <1>7, <2>2 DEF ShutEnds, BoltTypeOK
  <2>4. HandlesNumbered'
    BY <1>7, <2>2 DEF ShutEnds, HandlesNumbered
  <2>5. HandlesTracked'
    BY <1>7, <2>1, <2>2 DEF ShutEnds, HandlesTracked, BoltTypeOK
  <2> QED
    BY <2>3, <2>4, <2>5
<1>8. CASE UNCHANGED boltVars
  BY <1>8 DEF boltVars, BoltTypeOK, HandlesNumbered, HandlesTracked
<1> QED
  BY <1>1, <1>2, <1>3, <1>4, <1>5, <1>6, <1>7, <1>8 DEF BoltNext

\* BoltTypeOK for every number of callers: the handle of a lazily opened
\* database, its users and its timer stay what lazybolt.go declares.
THEOREM HandlesTyped == BoltSpec => []BoltTypeOK
<1>1. BoltInv => BoltTypeOK
  BY DEF BoltInv
<1> QED
  BY <1>1, BoltInitInv, BoltStep, PTL DEF BoltSpec

\* NoHandleLeaks for every number of callers and handles: acquire, release, the
\* idle timer and Close (lazybolt.go) never lose a bbolt handle that is still
\* open, however they interleave.
THEOREM OneHandle == BoltSpec => []NoHandleLeaks
<1>1. ASSUME BoltInv
      PROVE  NoHandleLeaks
  <2>1. OpenHandles = {current} \ {NoHandle}
    BY <1>1 DEF BoltInv, BoltTypeOK, HandlesTracked, OpenHandles, NoHandle
  <2> QED
    BY <1>1, <2>1 DEF BoltInv, HandlesTracked, NoHandleLeaks
<1> QED
  BY <1>1, BoltInitInv, BoltStep, PTL DEF BoltSpec


-----------------------------------------------------------------------------
(* Requests of CloudFormation and the resource names they walk through.    *)

\* A set of natural numbers that is not empty has a least one.
LEMMA LowestName ==
  ASSUME NEW S \in SUBSET Nat, S # {}
  PROVE  \E x \in S : \A y \in S : x <= y
<1> DEFINE R == {ss \in Nat \X Nat : ss[1] < ss[2]}
<1>1. OpToRel(<, Nat) = R
  BY Zenon DEF OpToRel
<1>2. IsWellFoundedOn(R, Nat)
  BY <1>1, NatLessThanWellFounded, Zenon
<1>3. \A x, y \in Nat : y < x => <<y, x>> \in R
  OBVIOUS
<1>4. PICK x \in S : \A y \in S : ~(<<y, x>> \in R)
  BY <1>2, WFMin
<1> HIDE DEF R
<1>5. ASSUME NEW y \in S PROVE x <= y
  <2>1. ~(<<y, x>> \in R)
    BY <1>4
  <2>2. x \in Nat /\ y \in Nat /\ ~(y < x)
    BY <1>3, <2>1
  <2> QED
    BY <2>2
<1> QED
  BY <1>5

\* A finite one has a greatest one, too: the one with the fewest above it.
LEMMA HighestName ==
  ASSUME NEW S \in SUBSET Nat, S # {}, IsFiniteSet(S)
  PROVE  \E x \in S : \A y \in S : x >= y
<1> DEFINE Above(x) == {y \in S : y > x}
           Counts == {Cardinality(Above(x)) : x \in S}
<1>1. \A x \in S : IsFiniteSet(Above(x)) /\ Cardinality(Above(x)) \in Nat
  BY FS_Subset, FS_CardinalityType
<1>2. PICK c \in Counts : \A d \in Counts : c <= d
  <2>1. Counts \in SUBSET Nat /\ Counts # {}
    BY <1>1
  <2> HIDE DEF Counts
  <2> QED
    BY <2>1, LowestName
<1>3. PICK x \in S : c = Cardinality(Above(x))
  BY <1>2
<1>4. ASSUME NEW y \in S, ~(x >= y)
      PROVE  FALSE
  <2>0. x \in Nat /\ y \in Nat /\ y > x
    BY <1>4
  <2>1. y \in Above(x) /\ y \notin Above(y)
    BY <2>0
  <2>2. Above(y) \subseteq Above(x)
    <3> SUFFICES ASSUME NEW z \in S, z > y
                 PROVE  z > x
      OBVIOUS
    <3>1. z \in Nat
      OBVIOUS
    <3> QED
      BY <2>0, <3>1
  <2> HIDE DEF Above
  <2>3. Above(y) # Above(x)
    BY <2>1
  <2>4. Cardinality(Above(y)) < Cardinality(Above(x))
    BY <1>1, <2>2, <2>3, FS_Subset
  <2>5. Cardinality(Above(x)) <= Cardinality(Above(y))
    BY <1>2, <1>3
  <2> QED
    BY <1>1, <2>4, <2>5
<1> QED
  BY <1>4

\* The next name of a list of names, for Apply and for Destroy.
LEMMA NextName ==
  ASSUME NEW S \in SUBSET ResourceNames, S # {}
  PROVE  Min(S) \in S /\ Max(S) \in S
<1>1. S \in SUBSET Nat /\ IsFiniteSet(S)
  BY StackAssumption, FS_Subset
<1>2. PICK x \in S : \A y \in S : x <= y
  BY <1>1, LowestName
<1>3. PICK z \in S : \A y \in S : z >= y
  BY <1>1, HighestName
<1>4. Min(S) \in S
  BY <1>2 DEF Min
<1>5. Max(S) \in S
  BY <1>3 DEF Max
<1> QED
  BY <1>4, <1>5

-----------------------------------------------------------------------------
(* What a request holds.                                                   *)

\* The places of a request.
CfnPcs == {"ready", "probe", "apply", "amend", "finish", "undo", "restore", "drop",
           "destroy", "forget", "put", "again", "mark", "review"}

\* The phases of provision.Apply.
Applying == {"apply", "amend", "finish"}

\* The names of which the report's last word may be another than "created".
Vague == {n \in ResourceNames : Report[n] # "created"}

\* A stack record as it is stored: it lists resources of its template only, and
\* none before its first deploy.
OwnRecord ==
  {st \in StackRecord :
     st.res \subseteq st.tmpl /\ (st.status \in {"none", "REVIEW_IN_PROGRESS"} => st.res = {})}

\* A request and what it has done.
CfnRequest ==
  [pc : CfnPcs, stack : Stacks \cup {NoName}, update : BOOLEAN, policy : Policies,
   set : BOOLEAN, tmpl : SUBSET ResourceNames, prev : OwnRecord,
   had : SUBSET ResourceNames, hurt : SUBSET ResourceNames,
   todo : SUBSET ResourceNames, touched : SUBSET ResourceNames,
   made : SUBSET ResourceNames, failed : SUBSET ResourceNames,
   left : SUBSET ResourceNames, lost : BOOLEAN]

\* s is r at another place or with another list.
SameWork(r, s) ==
  /\ s.stack = r.stack /\ s.update = r.update /\ s.policy = r.policy /\ s.set = r.set
  /\ s.tmpl = r.tmpl /\ s.prev = r.prev /\ s.had = r.had /\ s.hurt = r.hurt
  /\ s.touched = r.touched /\ s.made = r.made /\ s.failed = r.failed
  /\ s.left = r.left /\ s.lost = r.lost

\* r at another place with another list.
MovedTo(r, pc, todo) == [r EXCEPT !.pc = pc, !.todo = todo]

\* A request that moves keeps its type and its work.
LEMMA GoesTo ==
  ASSUME NEW r \in CfnRequest, NEW pc \in CfnPcs, NEW todo \in SUBSET ResourceNames
  PROVE  /\ MovedTo(r, pc, todo) \in CfnRequest /\ SameWork(r, MovedTo(r, pc, todo))
         /\ MovedTo(r, pc, todo).pc = pc /\ MovedTo(r, pc, todo).todo = todo
  BY DEF CfnRequest, SameWork, MovedTo

\* The ways a request goes on, in these terms.
LEMMA MovesBy ==
  ASSUME NEW r, NEW pc, NEW todo, NEW then
  PROVE  /\ Puts(r) = MovedTo(r, "put", {})
         /\ Does(r, pc, todo, then) = IF todo = {} THEN then ELSE MovedTo(r, pc, todo)
  BY DEF Puts, Does, MovedTo

\* The lists a request walks: what it undoes and what its previous template
\* names depend on its work only.
LEMMA ListsTyped ==
  ASSUME NEW r \in CfnRequest
  PROVE  /\ Undoes(r) \in SUBSET ResourceNames /\ PrevNames(r) \in SUBSET ResourceNames
         /\ Undoes(r) \subseteq r.made \ PrevNames(r)
         /\ \A s \in CfnRequest : SameWork(r, s) =>
              Undoes(s) = Undoes(r) /\ PrevNames(s) = PrevNames(r) /\ Updates(s) = Updates(r)
  BY DEF CfnRequest, SameWork, Undoes, PrevNames, Updates, madeBy, OwnRecord, StackRecord

\* Where a rollback goes that restores (settleFailure): to the names of the
\* previous template, or to its record when there are none.
LEMMA RestoresTo ==
  ASSUME NEW r \in CfnRequest
  PROVE  LET s == Restores(r)
         IN  /\ s \in CfnRequest /\ SameWork(r, s)
             /\ \/ s.pc = "put"
                \/ s.pc = "restore" /\ s.todo = PrevNames(r) /\ s.todo # {}
<1>1. PrevNames(r) \in SUBSET ResourceNames
  BY ListsTyped
<1>2. CASE Updates(r) /\ PrevNames(r) # {}
  <2>1. Restores(r) = MovedTo(r, "restore", PrevNames(r))
    BY <1>2, MovesBy DEF Restores
  <2> QED
    BY <1>1, <1>2, <2>1, GoesTo DEF CfnPcs
<1>3. CASE ~(Updates(r) /\ PrevNames(r) # {})
  <2>1. Restores(r) = MovedTo(r, "put", {})
    BY <1>3, MovesBy DEF Restores
  <2> QED
    BY <2>1, GoesTo DEF CfnPcs
<1> QED
  BY <1>2, <1>3

\* Where settleFailure takes a request.
LEMMA SettlesTo ==
  ASSUME NEW r \in CfnRequest
  PROVE  LET s == Settles(r)
         IN  /\ s \in CfnRequest /\ SameWork(r, s)
             /\ \/ s.pc = "put" /\ (r.policy = "keep" \/ Undoes(r) = {})
                \/ /\ s.pc = "undo" /\ r.policy # "keep"
                   /\ s.todo = Undoes(r) /\ s.todo # {}
                \/ /\ s.pc = "restore" /\ r.policy # "keep" /\ Undoes(r) = {}
                   /\ s.todo = PrevNames(r) /\ s.todo # {}
<1>1. Undoes(r) \in SUBSET ResourceNames
  BY ListsTyped
<1>2. CASE r.policy = "keep"
  <2>1. Settles(r) = MovedTo(r, "put", {})
    BY <1>2 DEF Settles, Puts, MovedTo
  <2> QED
    BY <1>2, <2>1, GoesTo DEF CfnPcs
<1>3. CASE r.policy # "keep" /\ Undoes(r) # {}
  <2>1. Settles(r) = MovedTo(r, "undo", Undoes(r))
    BY <1>3 DEF Settles, Does, MovedTo
  <2> QED
    BY <1>1, <1>3, <2>1, GoesTo DEF CfnPcs
<1>4. CASE r.policy # "keep" /\ Undoes(r) = {}
  <2>1. Settles(r) = Restores(r)
    BY <1>4 DEF Settles, Does
  <2> QED
    BY <1>4, <2>1, RestoresTo
<1> QED
  BY <1>2, <1>3, <1>4

\* A deploy that has come to a phase of Apply, to what the template no longer
\* has, or to its record.
GoesOn(s) ==
  \/ s.pc \in Applying /\ s.todo \subseteq s.tmpl /\ s.todo # {}
     /\ (s.pc = "amend" => s.todo \subseteq Vague)
  \/ s.pc = "drop" /\ s.todo # {}
  \/ s.pc = "put"

\* One phase, or what comes after it when it has nothing to do.
LEMMA PhaseTo ==
  ASSUME NEW r \in CfnRequest, NEW pc \in Applying, NEW todo \in SUBSET r.tmpl,
         pc = "amend" => todo \subseteq Vague,
         NEW then \in CfnRequest, SameWork(r, then), GoesOn(then)
  PROVE  LET s == Does(r, pc, todo, then)
         IN  s \in CfnRequest /\ SameWork(r, s) /\ GoesOn(s)
<1>1. CASE todo = {}
  BY <1>1, MovesBy
<1>2. CASE todo # {}
  <2> DEFINE e == MovedTo(r, pc, todo)
  <2>1. Does(r, pc, todo, then) = e
    BY <1>2, MovesBy
  <2>2. todo \in SUBSET ResourceNames /\ pc \in CfnPcs
    BY DEF CfnRequest, CfnPcs, Applying
  <2>3. e \in CfnRequest /\ SameWork(r, e) /\ e.pc = pc /\ e.todo = todo
    BY <2>2, GoesTo
  <2> HIDE DEF e
  <2>4. GoesOn(e)
    BY <1>2, <2>3 DEF GoesOn, SameWork
  <2> QED
    BY <2>1, <2>3, <2>4
<1> QED
  BY <1>1, <1>2

\* The phases of provision.Apply, one after the other, and removeDropped.
LEMMA PhasesTo ==
  ASSUME NEW r \in CfnRequest
  PROVE  \A s \in {Drops(r), Finishes(r), Amends(r), Applies(r)} :
           s \in CfnRequest /\ SameWork(r, s) /\ GoesOn(s)
<1>1. Drops(r) \in CfnRequest /\ SameWork(r, Drops(r)) /\ GoesOn(Drops(r))
  <2> DEFINE dropped == (PrevNames(r) \ r.tmpl) \ retained(r.prev, FALSE)
  <2>1. Drops(r) = IF dropped = {} THEN MovedTo(r, "put", {}) ELSE MovedTo(r, "drop", dropped)
    BY DEF Drops, Does, Puts, MovedTo
  <2>2. dropped \in SUBSET ResourceNames
    BY ListsTyped
  <2> HIDE DEF dropped
  <2> DEFINE e == IF dropped = {} THEN MovedTo(r, "put", {}) ELSE MovedTo(r, "drop", dropped)
  <2>3. /\ e \in CfnRequest /\ SameWork(r, e)
        /\ e.pc = "put" \/ (e.pc = "drop" /\ e.todo # {})
    BY <2>2, GoesTo DEF CfnPcs
  <2> HIDE DEF e
  <2>4. GoesOn(e)
    BY <2>3 DEF GoesOn
  <2> QED
    BY <2>1, <2>3, <2>4 DEF e
<1>2. Finishes(r) \in CfnRequest /\ SameWork(r, Finishes(r)) /\ GoesOn(Finishes(r))
  <2>1. "finish" \in Applying /\ r.tmpl \ Early \in SUBSET r.tmpl
    BY DEF Applying
  <2> QED
    BY <1>1, <2>1, PhaseTo DEF Finishes
<1>3. Amends(r) \in CfnRequest /\ SameWork(r, Amends(r)) /\ GoesOn(Amends(r))
  <2> DEFINE todo == {n \in r.tmpl : Report[n] = "amended"}
  <2>1. "amend" \in Applying /\ todo \in SUBSET r.tmpl /\ todo \subseteq Vague
    BY DEF Applying, Vague, CfnRequest
  <2>2. Amends(r) = Does(r, "amend", todo, Finishes(r))
    BY DEF Amends
  <2> HIDE DEF todo
  <2> QED
    BY <1>2, <2>1, <2>2, PhaseTo
<1>4. Applies(r) \in CfnRequest /\ SameWork(r, Applies(r)) /\ GoesOn(Applies(r))
  <2>1. "apply" \in Applying /\ r.tmpl \cap Early \in SUBSET r.tmpl
    BY DEF Applying
  <2> QED
    BY <1>3, <2>1, PhaseTo DEF Applies
<1> QED
  BY <1>1, <1>2, <1>3, <1>4

\* Where the end of a list takes a request.
LEMMA RestTo ==
  ASSUME NEW r \in CfnRequest, NEW todo \in SUBSET ResourceNames,
         r.pc \in Applying \cup {"undo", "restore", "drop", "destroy"}
  PROVE  LET s == Rest(r, todo)
         IN  /\ s \in CfnRequest /\ SameWork(r, s)
             /\ \/ s.pc = r.pc /\ s.todo = todo /\ todo # {}
                \/ todo = {} /\ r.pc \in Applying /\ GoesOn(s)
                \/ /\ todo = {} /\ r.pc = "undo" /\ s.pc = "restore"
                   /\ s.todo = PrevNames(r) /\ s.todo # {}
                \/ todo = {} /\ r.pc = "destroy" /\ s.pc = "forget"
                \/ todo = {} /\ r.pc \notin Applying /\ s.pc = "put"
<1>1. CASE todo # {}
  <2>1. Rest(r, todo) = MovedTo(r, r.pc, todo)
    BY <1>1, MovesBy DEF Rest
  <2>2. r.pc \in CfnPcs
    BY DEF CfnRequest
  <2> QED
    BY <1>1, <2>1, <2>2, GoesTo
<1>2. CASE todo = {} /\ r.pc \in Applying
  <2>1. Rest(r, todo) \in {Drops(r), Finishes(r), Amends(r)}
    BY <1>2 DEF Rest, Does, Applying
  <2> QED
    BY <1>2, <2>1, PhasesTo
<1>3. CASE todo = {} /\ r.pc = "undo"
  <2>1. Rest(r, todo) = Restores(r)
    BY <1>3 DEF Rest, Does
  <2>2. r.pc \notin Applying
    BY <1>3 DEF Applying
  <2> QED
    BY <1>3, <2>1, <2>2, RestoresTo
<1>4. CASE todo = {} /\ r.pc = "destroy"
  <2>1. Rest(r, todo) = MovedTo(r, "forget", {})
    BY <1>4 DEF Rest, Does, MovedTo
  <2> QED
    BY <1>4, <2>1, GoesTo DEF CfnPcs
<1>5. CASE todo = {} /\ r.pc \in {"restore", "drop"}
  <2>1. Rest(r, todo) = Puts(r)
    BY <1>5 DEF Rest, Does
  <2>2. r.pc \notin Applying
    BY <1>5 DEF Applying
  <2> QED
    BY <1>5, <2>1, <2>2, GoesTo, MovesBy DEF CfnPcs
<1> QED
  BY <1>1, <1>2, <1>3, <1>4, <1>5

-----------------------------------------------------------------------------
(* The inductive invariant.                                                *)

\* What a request has done so far fits the place where it is.
Proper(r) ==
  /\ r.made \subseteq r.touched /\ r.touched \subseteq r.tmpl /\ r.failed \subseteq r.tmpl
  /\ r.pc \in Applying \cup {"undo", "restore", "drop", "destroy"} => r.todo # {}
  /\ r.pc = "probe" => /\ r.stack \in Stacks
                        /\ r.touched = {} /\ r.failed = {} /\ r.left = {} /\ r.hurt = {}
  /\ r.pc \in Applying => r.todo \subseteq r.tmpl /\ r.failed = {}
  /\ r.pc = "amend" => r.todo \subseteq Vague
  /\ r.pc = "undo" => r.todo \subseteq Undoes(r)
  /\ r.pc = "restore" => r.todo \subseteq PrevNames(r)
  /\ r.pc \in {"drop", "destroy", "forget"} => r.failed = {}
  /\ r.pc \in {"undo", "restore"} => r.failed # {} /\ r.policy # "keep"

\* A deploy that may come to be rolled back.
Undoable(r) ==
  \/ r.pc \in Applying
  \/ r.pc \in {"undo", "restore", "put"} /\ r.failed # {} /\ r.policy # "keep"

\* What a deploy that nobody interfered with may say of the world: it has deleted
\* nothing that it found, calls its own nothing that it found but what the stack
\* had, and what is there beyond that it has made or does not know of.
Honest(r, there) ==
  /\ r.hurt = {} /\ r.made \cap r.had \subseteq PrevNames(r) /\ r.had \subseteq there
  /\ there \subseteq r.had \cup r.made \cup PrevNames(r) \cup (Vague \cap r.tmpl)
                  \cup r.failed

\* Such a deploy applies only what it may; once it has failed, it has deleted of
\* what it has to undo all but what it could not delete and what is still on its
\* list.
Reversible(r, there) ==
  Undoable(r) =>
    /\ Honest(r, there)
    /\ r.pc \in Applying => r.tmpl \cap r.had \subseteq PrevNames(r)
    /\ r.pc \notin Applying =>
         there \cap Undoes(r) \subseteq r.left \cup (IF r.pc = "undo" THEN r.todo ELSE {})

\* The inductive invariant of the stacks.
CfnInv ==
  /\ world \subseteq ResourceNames
  /\ stack \in [Stacks -> OwnRecord]
  /\ changes \in [Stacks -> ChangeSet \cup {NoChanges}]
  /\ calm \in [StackRequests -> BOOLEAN]
  /\ request \in [StackRequests -> CfnRequest]
  /\ \A q \in StackRequests : Proper(request[q])
  /\ \A q \in StackRequests : calm[q] => Reversible(request[q], world)

\* The idle request and the stack that is not there.
LEMMA NoRequestFits ==
  /\ NoRequest \in CfnRequest /\ Proper(NoRequest) /\ NoStack \in OwnRecord
  /\ NoRequest.made = {} /\ NoRequest.touched = {} /\ NoRequest.failed = {}
  /\ NoRequest.left = {} /\ NoRequest.hurt = {} /\ NoRequest.todo = {}
<1>1. NoStack \in OwnRecord
  BY DEF NoStack, OwnRecord, StackRecord, Statuses
<1>2. NoRequest \in CfnRequest
  BY <1>1 DEF NoRequest, CfnRequest, CfnPcs, Policies
<1>3. Proper(NoRequest)
  BY DEF NoRequest, Proper, Applying
<1>4. /\ NoRequest.made = {} /\ NoRequest.touched = {} /\ NoRequest.failed = {}
      /\ NoRequest.left = {} /\ NoRequest.hurt = {} /\ NoRequest.todo = {}
  BY DEF NoRequest
<1> QED
  BY <1>1, <1>2, <1>3, <1>4

\* The first state.
LEMMA CfnInitInv == CfnInit => CfnInv
<1> SUFFICES ASSUME CfnInit PROVE CfnInv
  OBVIOUS
<1>1. \A q \in StackRequests : request[q] = NoRequest
  BY DEF CfnInit
<1>2. ~Undoable(NoRequest)
  BY DEF NoRequest, Undoable, Applying
<1>3. \A q \in StackRequests : Proper(request[q]) /\ Reversible(request[q], world)
  BY <1>1, <1>2, NoRequestFits DEF Reversible
<1>4. request \in [StackRequests -> CfnRequest]
  BY NoRequestFits DEF CfnInit
<1>5. stack \in [Stacks -> OwnRecord]
  BY NoRequestFits DEF CfnInit
<1>6. /\ world \subseteq ResourceNames
      /\ changes \in [Stacks -> ChangeSet \cup {NoChanges}]
      /\ calm \in [StackRequests -> BOOLEAN]
  BY DEF CfnInit
<1> QED
  BY <1>3, <1>4, <1>5, <1>6 DEF CfnInv

\* One request takes a step: what is left to show of it.
LEMMA OneProceeds ==
  ASSUME CfnInv, NEW q \in StackRequests, NEW r \in CfnRequest, Proceeds(q, r), Proper(r),
         world' \subseteq ResourceNames,
         stack' \in [Stacks -> OwnRecord],
         changes' \in [Stacks -> ChangeSet \cup {NoChanges}],
         calm' \in [StackRequests -> BOOLEAN],
         calm'[q] => Reversible(r, world'),
         \A p \in StackRequests \ {q} : calm'[p] => calm[p] /\ world' = world
  PROVE  CfnInv'
<1>1. /\ request' \in [StackRequests -> CfnRequest] /\ request'[q] = r
      /\ \A p \in StackRequests \ {q} : request'[p] = request[p]
  BY DEF CfnInv, Proceeds
<1>2. \A p \in StackRequests : Proper(request'[p])
  BY <1>1 DEF CfnInv
<1>3. ASSUME NEW p \in StackRequests, calm'[p]
      PROVE  Reversible(request'[p], world')
  <2>1. CASE p = q
    BY <1>1, <1>3, <2>1
  <2>2. CASE p # q
    <3>1. calm[p] /\ world' = world /\ request'[p] = request[p]
      BY <1>1, <1>3, <2>2
    <3>2. Reversible(request[p], world)
      BY <3>1 DEF CfnInv
    <3> QED
      BY <3>1, <3>2
  <2> QED
    BY <2>1, <2>2
<1> QED
  BY <1>1, <1>2, <1>3 DEF CfnInv

\* Who is disturbed, and who is not.
LEMMA DisturbsOthers ==
  ASSUME CfnInv, NEW q \in StackRequests, Disturbs(q)
  PROVE  /\ calm' \in [StackRequests -> BOOLEAN] /\ calm'[q] = calm[q]
         /\ \A p \in StackRequests \ {q} : ~calm'[p]
  BY DEF Disturbs, CfnInv

\* A request arrives.
LEMMA ArrivesInv ==
  ASSUME CfnInv, NEW q \in StackRequests, NEW r \in CfnRequest, Arrives(q, r), Proper(r),
         ~Undoable(r), UNCHANGED <<world, stack, changes>>
  PROVE  CfnInv'
<1>1. calm' \in [StackRequests -> BOOLEAN] /\ \A p \in StackRequests \ {q} : calm'[p] = calm[p]
  BY DEF CfnInv, Arrives
<1>2. world' = world
  OBVIOUS
<1>3. Reversible(r, world')
  BY DEF Reversible
<1>4. /\ world' \subseteq ResourceNames
      /\ stack' \in [Stacks -> OwnRecord]
      /\ changes' \in [Stacks -> ChangeSet \cup {NoChanges}]
  BY DEF CfnInv
<1> QED
  BY <1>1, <1>2, <1>3, <1>4, OneProceeds DEF Arrives

\* A deploy that arrives has done nothing yet.
LEMMA DeployFits ==
  ASSUME NEW s \in Stacks, NEW t \in SUBSET ResourceNames, NEW update \in BOOLEAN,
         NEW policy \in Policies, NEW set \in BOOLEAN
  PROVE  /\ Deploy(s, t, update, policy, set) \in CfnRequest
         /\ Proper(Deploy(s, t, update, policy, set))
         /\ ~Undoable(Deploy(s, t, update, policy, set))
<1> DEFINE d == Deploy(s, t, update, policy, set)
<1>1. d \in CfnRequest
  BY NoRequestFits DEF Deploy, CfnRequest, CfnPcs
<1>2. /\ d.pc = "probe" /\ d.stack = s /\ d.made = {} /\ d.touched = {} /\ d.failed = {}
      /\ d.left = {} /\ d.hurt = {}
  BY NoRequestFits DEF Deploy, CfnRequest
<1> HIDE DEF d
<1>3. Proper(d) /\ ~Undoable(d)
  BY <1>2 DEF Proper, Undoable, Applying
<1> QED
  BY <1>1, <1>3 DEF d

\* The record a request reads.
LEMMA FoundFits == ASSUME CfnInv, NEW s \in Stacks PROVE Found(s) \in OwnRecord
  BY NoRequestFits DEF Found, CfnInv

\* The requests that begin.
LEMMA BeginInv ==
  ASSUME CfnInv, NEW q \in StackRequests, NEW s \in Stacks,
         \/ CreateStack(q, s) \/ UpdateStack(q, s) \/ DeleteStack(q, s)
         \/ CreateChangeSet(q, s) \/ ExecuteChangeSet(q, s)
  PROVE  CfnInv'
<1>1. ASSUME CreateStack(q, s) \/ UpdateStack(q, s) PROVE CfnInv'
  <2>1. PICK t \in Templates, update \in BOOLEAN, policy \in Policies :
          Arrives(q, Deploy(s, t, update, policy, FALSE))
    BY <1>1 DEF CreateStack, UpdateStack
  <2>2. t \in SUBSET ResourceNames
    BY StackAssumption
  <2>3. UNCHANGED <<world, stack, changes>>
    BY <1>1 DEF CreateStack, UpdateStack
  <2> QED
    BY <2>1, <2>2, <2>3, DeployFits, ArrivesInv
<1>2. ASSUME ExecuteChangeSet(q, s) PROVE CfnInv'
  <2>1. changes[s] \in ChangeSet
    BY <1>2 DEF ExecuteChangeSet, CfnInv, NoChanges
  <2>2. changes[s].tmpl \in SUBSET ResourceNames /\ changes[s].update \in BOOLEAN
    BY <2>1 DEF ChangeSet
  <2>3. PICK policy \in Policies :
          Arrives(q, Deploy(s, changes[s].tmpl, changes[s].update, policy, TRUE))
    BY <1>2 DEF ExecuteChangeSet
  <2>4. UNCHANGED <<world, stack, changes>>
    BY <1>2 DEF ExecuteChangeSet
  <2> QED
    BY <2>2, <2>3, <2>4, DeployFits, ArrivesInv
<1>3. ASSUME CreateChangeSet(q, s) PROVE CfnInv'
  <2>1. PICK t \in Templates, update \in BOOLEAN :
          Arrives(q, [NoRequest EXCEPT !.pc = "review", !.stack = s, !.tmpl = t,
                                 !.update = update, !.prev = Found(s)])
    BY <1>3 DEF CreateChangeSet
  <2> DEFINE d == [NoRequest EXCEPT !.pc = "review", !.stack = s, !.tmpl = t,
                                 !.update = update, !.prev = Found(s)]
  <2>2. t \in SUBSET ResourceNames /\ Found(s) \in OwnRecord
    BY FoundFits, StackAssumption
  <2>3. d \in CfnRequest
    BY <2>2, NoRequestFits DEF CfnRequest, CfnPcs
  <2>4. d.pc = "review" /\ d.made = {} /\ d.touched = {} /\ d.failed = {}
    BY NoRequestFits DEF CfnRequest
  <2>5. Arrives(q, d) /\ UNCHANGED <<world, stack, changes>>
    BY <1>3, <2>1 DEF CreateChangeSet
  <2> HIDE DEF d
  <2>6. Proper(d) /\ ~Undoable(d)
    BY <2>4 DEF Proper, Undoable, Applying
  <2> QED
    BY <2>3, <2>5, <2>6, ArrivesInv
<1>4. ASSUME DeleteStack(q, s) PROVE CfnInv'
  <2> DEFINE todo == IF stack[s].status = "ROLLBACK_COMPLETE" THEN {}
                     ELSE stack[s].tmpl \ retained(stack[s], FALSE)
             d == [NoRequest EXCEPT !.pc = "destroy", !.stack = s, !.prev = stack[s]]
  <2>2. stack[s] \in OwnRecord
    BY DEF CfnInv
  <2>3. d \in CfnRequest
    BY <2>2, NoRequestFits DEF CfnRequest, CfnPcs
  <2>4. todo \in SUBSET ResourceNames
    BY <2>2 DEF OwnRecord, StackRecord
  <2>5. Arrives(q, Rest(d, todo)) /\ UNCHANGED <<world, stack, changes>>
    BY <1>4 DEF DeleteStack
  <2>6. d.pc = "destroy" /\ d.made = {} /\ d.touched = {} /\ d.failed = {}
    BY NoRequestFits DEF CfnRequest
  <2> HIDE DEF d, todo
  <2> DEFINE e == Rest(d, todo)
  <2>7. /\ e \in CfnRequest /\ e.made = {} /\ e.touched = {} /\ e.failed = {}
        /\ (e.pc = "destroy" /\ e.todo # {}) \/ e.pc = "forget" \/ e.pc = "put"
    <3>1. d.pc \notin Applying
      BY <2>6 DEF Applying
    <3> QED
      BY <2>3, <2>4, <2>6, <3>1, RestTo DEF SameWork
  <2> HIDE DEF e
  <2>8. Proper(e) /\ ~Undoable(e)
    BY <2>7 DEF Proper, Undoable, Applying
  <2>9. Arrives(q, e)
    BY <2>5 DEF e
  <2> QED
    BY <2>5, <2>7, <2>8, <2>9, ArrivesInv
<1> QED
  BY <1>1, <1>2, <1>3, <1>4

\* A deploy that goes on.
LEMMA GoesOnFits ==
  ASSUME NEW r \in CfnRequest, r.made \subseteq r.touched, r.touched \subseteq r.tmpl,
         r.failed = {}, NEW e \in CfnRequest, SameWork(r, e), GoesOn(e)
  PROVE  /\ Proper(e)
         /\ \A there : Honest(r, there) /\ r.tmpl \cap r.had \subseteq PrevNames(r) =>
              Reversible(e, there)
<1>1. Proper(e)
  BY DEF GoesOn, Proper, SameWork, Applying
<1>2. ASSUME NEW there, Honest(r, there), r.tmpl \cap r.had \subseteq PrevNames(r)
      PROVE  Reversible(e, there)
  <2>1. PrevNames(e) = PrevNames(r)
    BY ListsTyped
  <2>2. Honest(e, there)
    BY <1>2, <2>1 DEF Honest, SameWork
  <2>3. e.failed = {} /\ e.tmpl = r.tmpl /\ e.had = r.had
    BY DEF SameWork
  <2> QED
    BY <1>2, <2>1, <2>2, <2>3 DEF Reversible, Undoable
<1> QED
  BY <1>1, <1>2

\* A deploy that fails, with what it has made so far, the resource it failed at
\* among it or not.
LEMMA FailsFits ==
  ASSUME NEW r \in CfnRequest, NEW n \in ResourceNames,
         r.made \subseteq r.touched, r.touched \subseteq r.tmpl, n \in r.tmpl, r.failed = {}
  PROVE  /\ Fails(r, n) \in CfnRequest /\ Proper(Fails(r, n))
         /\ \A h : Honest(r, h) =>
              \A there : h \subseteq there /\ there \subseteq h \cup {n} =>
                Reversible(Fails(r, n), there)
<1> DEFINE f == [r EXCEPT !.failed = {n}]
<1>1. f \in CfnRequest
  BY DEF CfnRequest
<1>2. /\ f.failed = {n} /\ f.made = r.made /\ f.touched = r.touched /\ f.tmpl = r.tmpl
      /\ f.hurt = r.hurt /\ f.had = r.had /\ f.prev = r.prev /\ f.update = r.update
  BY DEF CfnRequest
<1>3. PrevNames(f) = PrevNames(r)
  BY <1>2 DEF PrevNames, Updates
<1> HIDE DEF f
<1> DEFINE e == Settles(f)
<1>4. Fails(r, n) = e
  BY DEF Fails, f
<1>5. /\ e \in CfnRequest /\ SameWork(f, e)
      /\ \/ e.pc = "put" /\ (f.policy = "keep" \/ Undoes(f) = {})
         \/ e.pc = "undo" /\ f.policy # "keep" /\ e.todo = Undoes(f) /\ e.todo # {}
         \/ /\ e.pc = "restore" /\ f.policy # "keep" /\ Undoes(f) = {}
            /\ e.todo = PrevNames(f) /\ e.todo # {}
  BY <1>1, SettlesTo
<1> HIDE DEF e
<1>6. Undoes(e) = Undoes(f) /\ PrevNames(e) = PrevNames(f)
  BY <1>1, <1>5, ListsTyped
<1>7. Proper(e)
  BY <1>2, <1>5, <1>6 DEF Proper, SameWork, Applying
<1>8. ASSUME NEW h, Honest(r, h), NEW there, h \subseteq there, there \subseteq h \cup {n}
      PROVE  Reversible(e, there)
  <2>1. Honest(e, there)
    BY <1>2, <1>3, <1>5, <1>6, <1>8 DEF Honest, SameWork
  <2>2. e.pc \notin Applying
    BY <1>5 DEF Applying
  <2> QED
    BY <1>2, <1>5, <1>6, <2>1, <2>2 DEF Reversible, SameWork, Undoable

<1> QED
  BY <1>4, <1>5, <1>7, <1>8

\* The deploy asks for the names it is going to make.
LEMMA ProbeInv == ASSUME CfnInv, NEW q \in StackRequests, Probe(q) PROVE CfnInv'
<1> DEFINE o == request[q]
           r == [request[q] EXCEPT !.prev = Found(request[q].stack),
                                   !.had = world]
           owned == IF Updates(r) THEN r.prev.res \cup r.prev.tmpl ELSE {}
           fresh == r.tmpl \ owned
           taken == {n \in fresh : There(n)}
<1>1. /\ o \in CfnRequest /\ o.pc = "probe" /\ o.stack \in Stacks /\ Proper(o)
      /\ o.touched = {} /\ o.failed = {} /\ o.left = {} /\ o.hurt = {} /\ o.made = {}
  BY DEF CfnInv, Probe, Proper
<1>2. Found(o.stack) \in OwnRecord
  BY <1>1, FoundFits
<1>3. r \in CfnRequest
  BY <1>1, <1>2 DEF CfnRequest, CfnInv
<1>4. /\ r.touched = {} /\ r.failed = {} /\ r.left = {} /\ r.hurt = {} /\ r.made = {}
      /\ r.had = world /\ r.tmpl = o.tmpl
  BY <1>1 DEF CfnRequest
<1>5. /\ \/ taken = {} /\ Proceeds(q, Applies(r))
         \/ taken # {} /\ Proceeds(q, Fails(r, Min(taken)))
         \/ \E n \in fresh : Proceeds(q, Fails(r, n))
      /\ UNCHANGED <<world, stack, changes, calm>>
  BY DEF Probe
<1>6. fresh \in SUBSET ResourceNames /\ fresh \subseteq r.tmpl /\ taken \in SUBSET fresh
  BY <1>3 DEF CfnRequest
<1>0. taken = {} => r.tmpl \cap r.had \subseteq PrevNames(r)
  <2>1. r.prev.res \subseteq r.prev.tmpl
    BY <1>3 DEF CfnRequest, OwnRecord
  <2>2. owned \subseteq PrevNames(r)
    BY <2>1 DEF PrevNames
  <2> QED
    BY <1>4, <2>2 DEF There
<1> HIDE DEF r, fresh, taken
<1>7. /\ world' = world
      /\ \A p \in StackRequests \ {q} : calm'[p] => calm[p] /\ world' = world
  BY <1>5
<1>8. ASSUME NEW e \in CfnRequest, Proper(e), Proceeds(q, e), Reversible(e, world)
      PROVE  CfnInv'
  <2>1. /\ world' \subseteq ResourceNames
        /\ stack' \in [Stacks -> OwnRecord]
        /\ changes' \in [Stacks -> ChangeSet \cup {NoChanges}]
        /\ calm' \in [StackRequests -> BOOLEAN]
    BY <1>5 DEF CfnInv
  <2> QED
    BY <1>7, <1>8, <2>1, OneProceeds
<1>13. r.made \subseteq r.touched /\ r.touched \subseteq r.tmpl /\ Honest(r, world)
  BY <1>4 DEF Honest
<1>9. CASE taken = {} /\ Proceeds(q, Applies(r))
  <2>1. Applies(r) \in CfnRequest /\ SameWork(r, Applies(r)) /\ GoesOn(Applies(r))
    BY <1>3, PhasesTo
  <2>2. Proper(Applies(r)) /\ Reversible(Applies(r), world)
    BY <1>0, <1>3, <1>4, <1>9, <1>13, <2>1, GoesOnFits
  <2> QED
    BY <1>8, <1>9, <2>1, <2>2
<1>10. ASSUME NEW n \in fresh, Proceeds(q, Fails(r, n))
       PROVE  CfnInv'
  <2>1. n \in ResourceNames /\ n \in r.tmpl
    BY <1>6
  <2>2. Fails(r, n) \in CfnRequest /\ Proper(Fails(r, n)) /\ Reversible(Fails(r, n), world)
    BY <1>3, <1>4, <1>13, <2>1, FailsFits
  <2> QED
    BY <1>8, <1>10, <2>2
<1>11. CASE taken # {} /\ Proceeds(q, Fails(r, Min(taken)))
  <2>1. Min(taken) \in fresh
    BY <1>6, <1>11, NextName
  <2> QED
    BY <1>10, <1>11, <2>1
<1> QED
  BY <1>5, <1>6, <1>9, <1>10, <1>11

\* A step of a request that leaves the stack records and change sets alone and
\* touches at most one name.
LEMMA WorkInv ==
  ASSUME CfnInv, NEW q \in StackRequests, NEW e \in CfnRequest, Proceeds(q, e), Proper(e),
         UNCHANGED <<stack, changes>>,
         \/ UNCHANGED <<world, calm>>
         \/ /\ world' \subseteq ResourceNames /\ Disturbs(q),
         calm[q] => Reversible(e, world')
  PROVE  CfnInv'
<1>1. /\ stack' \in [Stacks -> OwnRecord]
      /\ changes' \in [Stacks -> ChangeSet \cup {NoChanges}]
  BY DEF CfnInv
<1>2. CASE UNCHANGED <<world, calm>>
  <2>1. world' = world
    BY <1>2
  <2>2. /\ world' \subseteq ResourceNames
        /\ calm' \in [StackRequests -> BOOLEAN]
    BY <1>2 DEF CfnInv
  <2>3. \A p \in StackRequests \ {q} : calm'[p] => calm[p] /\ world' = world
    BY <1>2, <2>1
  <2>4. calm'[q] => Reversible(e, world')
    BY <1>2
  <2> QED
    BY <1>1, <2>2, <2>3, <2>4, OneProceeds
<1>3. CASE /\ world' \subseteq ResourceNames /\ Disturbs(q)
  <2>1. /\ calm' \in [StackRequests -> BOOLEAN] /\ calm'[q] = calm[q]
        /\ \A p \in StackRequests \ {q} : ~calm'[p]
    BY <1>3, DisturbsOthers
  <2> QED
    BY <1>1, <1>3, <2>1, OneProceeds
<1> QED
  BY <1>2, <1>3

\* What a deploy may say once provision.Apply has reported on a resource.
LEMMA ReportedFits ==
  ASSUME NEW r \in CfnRequest, NEW n \in ResourceNames, NEW makes \in BOOLEAN,
         NEW x \in Reported(r, n, makes), n \in r.tmpl,
         r.made \subseteq r.touched, r.touched \subseteq r.tmpl
  PROVE  /\ x \in CfnRequest /\ x.pc = r.pc /\ x.failed = r.failed
         /\ x.made \subseteq x.touched /\ x.touched \subseteq x.tmpl
         /\ x.tmpl = r.tmpl /\ x.had = r.had /\ PrevNames(x) = PrevNames(r)
         /\ \A there : Honest(r, there) /\ r.tmpl \cap r.had \subseteq PrevNames(r) =>
              Honest(x, IF makes THEN there \cup {n} ELSE there)
<1> DEFINE done == [r EXCEPT !.touched = @ \cup {n}]
           new == [done EXCEPT !.made = @ \cup {n}]
<1>1. /\ done \in CfnRequest /\ done.pc = r.pc /\ done.touched = r.touched \cup {n}
      /\ done.made = r.made /\ done.tmpl = r.tmpl /\ done.failed = r.failed /\ done.had = r.had
      /\ done.hurt = r.hurt /\ done.prev = r.prev /\ done.update = r.update
  BY DEF CfnRequest
<1>2. /\ new \in CfnRequest /\ new.pc = r.pc /\ new.touched = r.touched \cup {n}
      /\ new.made = r.made \cup {n} /\ new.tmpl = r.tmpl /\ new.failed = r.failed
      /\ new.had = r.had /\ new.hurt = r.hurt /\ new.prev = r.prev /\ new.update = r.update
  BY <1>1 DEF CfnRequest
<1>3. \/ x = done /\ (makes => n \in Vague)
      \/ x = new
  BY DEF Reported, Vague
<1> HIDE DEF done, new
<1>4. PrevNames(done) = PrevNames(r) /\ PrevNames(new) = PrevNames(r)
  BY <1>1, <1>2 DEF PrevNames, Updates
<1>5. ASSUME NEW there, Honest(r, there), r.tmpl \cap r.had \subseteq PrevNames(r)
      PROVE  Honest(x, IF makes THEN there \cup {n} ELSE there)
  <2>1. CASE x = done /\ (makes => n \in Vague)
    BY <1>1, <1>4, <1>5, <2>1 DEF Honest
  <2>2. CASE x = new
    BY <1>2, <1>4, <1>5, <2>2 DEF Honest
  <2> QED
    BY <1>3, <2>1, <2>2
<1> QED
  BY <1>1, <1>2, <1>3, <1>4, <1>5

\* provision.Apply makes one resource, or finds it.
LEMMA ApplyInv ==
  ASSUME CfnInv, NEW q \in StackRequests, ApplyOne(q), request[q].pc \in {"apply", "finish"}
  PROVE  CfnInv'
<1> DEFINE r == request[q]
           n == Min(r.todo)
           rest == r.todo \ {n}
           after == Reported(r, n, ~There(n))
<1>1. /\ r \in CfnRequest /\ Proper(r) /\ r.pc \in {"apply", "finish"} /\ r.pc \in Applying
      /\ r.todo # {} /\ r.todo \subseteq r.tmpl /\ r.failed = {}
      /\ r.made \subseteq r.touched /\ r.touched \subseteq r.tmpl
      /\ calm[q] => Reversible(r, world)
  BY DEF CfnInv, Proper, Applying
<1>2. n \in r.todo /\ r.todo \in SUBSET ResourceNames /\ n \in ResourceNames /\ n \in r.tmpl
  BY <1>1, NextName DEF CfnRequest
<1>3. /\ \/ /\ \/ UNCHANGED <<world, calm>> /\ There(n)
               \/ world' = world \cup {n} /\ Disturbs(q) /\ ~There(n)
            /\ \/ \E x \in after : Proceeds(q, Rest(x, rest))
               \/ \E x \in after \cup {r} : Proceeds(q, Fails(x, n))
         \/ Proceeds(q, Fails(r, n)) /\ UNCHANGED <<world, calm>>
      /\ UNCHANGED <<stack, changes>>
  BY <1>1 DEF ApplyOne
<1>4. calm[q] => Honest(r, world) /\ r.tmpl \cap r.had \subseteq PrevNames(r)
  BY <1>1 DEF Reversible, Undoable
<1> HIDE DEF r, n
<1>5. /\ \/ UNCHANGED <<world, calm>>
         \/ world' \subseteq ResourceNames /\ Disturbs(q)
      /\ world \subseteq world' /\ world' \subseteq world \cup {n}
  BY <1>2, <1>3 DEF CfnInv
<1>6. ASSUME NEW e \in CfnRequest, Proper(e), Proceeds(q, e), calm[q] => Reversible(e, world')
      PROVE  CfnInv'
  BY <1>3, <1>5, <1>6, WorkInv
<1>7. ASSUME Proceeds(q, Fails(r, n)) PROVE CfnInv'
  <2>1. Fails(r, n) \in CfnRequest /\ Proper(Fails(r, n))
    BY <1>1, <1>2, FailsFits
  <2>2. calm[q] => Reversible(Fails(r, n), world')
    BY <1>1, <1>2, <1>4, <1>5, FailsFits
  <2> QED
    BY <1>6, <1>7, <2>1, <2>2
<1>8. ASSUME NEW x \in after,
             \/ UNCHANGED world /\ There(n)
             \/ world' = world \cup {n} /\ ~There(n),
             Proceeds(q, Rest(x, rest)) \/ Proceeds(q, Fails(x, n))
      PROVE  CfnInv'
  <2>1. /\ x \in CfnRequest /\ x.pc = r.pc /\ x.failed = {}
        /\ x.made \subseteq x.touched /\ x.touched \subseteq x.tmpl
        /\ x.tmpl = r.tmpl /\ x.had = r.had /\ PrevNames(x) = PrevNames(r)
        /\ \A there : Honest(r, there) /\ r.tmpl \cap r.had \subseteq PrevNames(r) =>
             Honest(x, IF ~There(n) THEN there \cup {n} ELSE there)
    <3> DEFINE makes == ~There(n)
    <3>1. makes \in BOOLEAN /\ x \in Reported(r, n, makes)
      BY <1>8
    <3> HIDE DEF makes
    <3>2. /\ x \in CfnRequest /\ x.pc = r.pc /\ x.failed = r.failed
          /\ x.made \subseteq x.touched /\ x.touched \subseteq x.tmpl
          /\ x.tmpl = r.tmpl /\ x.had = r.had /\ PrevNames(x) = PrevNames(r)
          /\ \A there : Honest(r, there) /\ r.tmpl \cap r.had \subseteq PrevNames(r) =>
               Honest(x, IF makes THEN there \cup {n} ELSE there)
      BY <1>1, <1>2, <3>1, ReportedFits
    <3> QED
      BY <1>1, <3>2 DEF makes
  <2>2. calm[q] => Honest(x, world')
    <3>1. world' = IF ~There(n) THEN world \cup {n} ELSE world
      BY <1>8
    <3> QED
      BY <1>4, <2>1, <3>1
  <2>3. CASE Proceeds(q, Fails(x, n))
    <3>1. Fails(x, n) \in CfnRequest /\ Proper(Fails(x, n))
      BY <1>2, <2>1, FailsFits
    <3>2. calm[q] => Reversible(Fails(x, n), world')
      BY <1>2, <2>1, <2>2, FailsFits
    <3> QED
      BY <1>6, <2>3, <3>1, <3>2
  <2>4. CASE Proceeds(q, Rest(x, rest))
    <3> DEFINE e == Rest(x, rest)
    <3>1. rest \in SUBSET ResourceNames /\ rest \subseteq r.tmpl
      BY <1>1, <1>2
    <3> HIDE DEF rest
    <3>2. /\ e \in CfnRequest /\ SameWork(x, e)
          /\ GoesOn(e) \/ (e.pc = r.pc /\ e.todo = rest /\ rest # {})
      <4>1. r.pc \notin {"undo", "destroy"}
        BY <1>1
      <4> QED
        BY <1>1, <2>1, <3>1, <4>1, RestTo
    <3> HIDE DEF e
    <3>3. GoesOn(e)
      BY <1>1, <2>1, <3>1, <3>2 DEF GoesOn, SameWork
    <3>4. Proper(e) /\ (calm[q] => Reversible(e, world'))
      BY <1>4, <2>1, <2>2, <3>2, <3>3, GoesOnFits
    <3>5. Proceeds(q, e)
      BY <2>4 DEF e
    <3> QED
      BY <1>6, <3>2, <3>4, <3>5
  <2> QED
    BY <1>8, <2>3, <2>4
<1> HIDE DEF after, rest
<1> QED
  BY <1>3, <1>7, <1>8

\* applyNotifications reports on one bucket again.
LEMMA AmendInv == ASSUME CfnInv, NEW q \in StackRequests, AmendOne(q) PROVE CfnInv'
<1> DEFINE r == request[q]
           n == Min(r.todo)
           x == [r EXCEPT !.made = @ \ {n}]
           rest == r.todo \ {n}
<1>1. /\ r \in CfnRequest /\ Proper(r) /\ r.pc = "amend" /\ r.pc \in Applying
      /\ r.todo # {} /\ r.todo \subseteq r.tmpl /\ r.todo \subseteq Vague /\ r.failed = {}
      /\ r.made \subseteq r.touched /\ r.touched \subseteq r.tmpl
      /\ calm[q] => Reversible(r, world)
  BY DEF CfnInv, Proper, Applying, AmendOne
<1>2. /\ n \in r.todo /\ r.todo \in SUBSET ResourceNames /\ n \in ResourceNames
      /\ n \in r.tmpl /\ n \in Vague
  BY <1>1, NextName DEF CfnRequest
<1>3. /\ Proceeds(q, Rest(x, rest)) \/ Proceeds(q, Fails(r, n))
      /\ UNCHANGED <<world, stack, changes, calm>>
  BY DEF AmendOne
<1>4. /\ x \in CfnRequest /\ x.pc = r.pc /\ x.touched = r.touched /\ x.made = r.made \ {n}
      /\ x.tmpl = r.tmpl /\ x.failed = {} /\ x.had = r.had
      /\ x.hurt = r.hurt /\ x.prev = r.prev /\ x.update = r.update
  BY <1>1 DEF CfnRequest
<1>5. calm[q] => Honest(r, world) /\ r.tmpl \cap r.had \subseteq PrevNames(r)
  BY <1>1 DEF Reversible, Undoable
<1> HIDE DEF r, n, x
<1>6. PrevNames(x) = PrevNames(r)
  BY <1>4 DEF PrevNames, Updates
<1>7. ASSUME NEW e \in CfnRequest, Proper(e), Proceeds(q, e), calm[q] => Reversible(e, world)
      PROVE  CfnInv'
  BY <1>3, <1>7, WorkInv
<1>8. CASE Proceeds(q, Fails(r, n))
  <2>1. Fails(r, n) \in CfnRequest /\ Proper(Fails(r, n))
    BY <1>1, <1>2, FailsFits
  <2>2. calm[q] => Reversible(Fails(r, n), world)
    BY <1>1, <1>2, <1>5, FailsFits
  <2> QED
    BY <1>7, <1>8, <2>1, <2>2
<1>9. CASE Proceeds(q, Rest(x, rest))
  <2> DEFINE e == Rest(x, rest)
  <2>1. /\ rest \in SUBSET ResourceNames /\ rest \subseteq r.tmpl /\ rest \subseteq Vague
        /\ x.made \subseteq x.touched /\ x.touched \subseteq x.tmpl
    BY <1>1, <1>2, <1>4
  <2> HIDE DEF rest
  <2>2. /\ e \in CfnRequest /\ SameWork(x, e)
        /\ GoesOn(e) \/ (e.pc = r.pc /\ e.todo = rest /\ rest # {})
    <3>1. r.pc \notin {"undo", "destroy"}
      BY <1>1
    <3> QED
      BY <1>1, <1>4, <2>1, <3>1, RestTo
  <2> HIDE DEF e
  <2>3. GoesOn(e)
    BY <1>1, <1>4, <2>1, <2>2 DEF GoesOn, SameWork
  <2>4. ASSUME calm[q] PROVE Honest(x, world)
    <3>1. Honest(r, world)
      BY <1>5, <2>4
    <3> QED
      BY <1>1, <1>2, <1>4, <1>6, <3>1 DEF Honest
  <2>5. Proper(e) /\ (calm[q] => Reversible(e, world))
    BY <1>4, <1>5, <1>6, <2>1, <2>2, <2>3, <2>4, GoesOnFits
  <2>6. Proceeds(q, e)
    BY <1>9 DEF e
  <2> QED
    BY <1>7, <2>2, <2>5, <2>6
<1> QED
  BY <1>3, <1>8, <1>9

\* The rollback of an update applies the previous template.
LEMMA RestoreInv ==
  ASSUME CfnInv, NEW q \in StackRequests, ApplyOne(q), request[q].pc = "restore"
  PROVE  CfnInv'
<1> DEFINE r == request[q]
           n == Min(r.todo)
           rest == r.todo \ {n}
           lost == [r EXCEPT !.lost = TRUE]
<1>1. /\ r \in CfnRequest /\ Proper(r) /\ r.pc = "restore" /\ r.pc \notin Applying
      /\ r.todo # {} /\ r.todo \subseteq PrevNames(r) /\ r.failed # {} /\ r.policy # "keep"
      /\ r.made \subseteq r.touched /\ r.touched \subseteq r.tmpl /\ r.failed \subseteq r.tmpl
      /\ calm[q] => Reversible(r, world)
  BY DEF CfnInv, Proper, Applying
<1>2. n \in r.todo /\ r.todo \in SUBSET ResourceNames /\ n \in ResourceNames
  BY <1>1, NextName DEF CfnRequest
<1>3. /\ Proceeds(q, Rest(r, rest)) \/ Proceeds(q, Puts(lost))
      /\ \/ UNCHANGED <<world, calm>>
         \/ world' = world \cup {n} /\ Disturbs(q)
      /\ UNCHANGED <<stack, changes>>
  BY <1>1 DEF ApplyOne
<1>4. lost \in CfnRequest
  BY <1>1 DEF CfnRequest
<1>5. /\ lost.touched = r.touched /\ lost.policy = r.policy /\ lost.left = r.left
      /\ lost.made = r.made /\ lost.tmpl = r.tmpl /\ lost.failed = r.failed /\ lost.had = r.had
      /\ lost.hurt = r.hurt /\ lost.prev = r.prev /\ lost.update = r.update
  BY <1>1 DEF CfnRequest
<1> HIDE DEF r, n, lost
<1>6. PrevNames(lost) = PrevNames(r) /\ Undoes(lost) = Undoes(r)
  BY <1>5 DEF PrevNames, Updates, Undoes, madeBy
<1>7. Undoes(r) \cap PrevNames(r) = {} /\ n \in PrevNames(r)
  BY <1>1, <1>2, ListsTyped
<1>8. /\ \/ UNCHANGED <<world, calm>>
         \/ world' \subseteq ResourceNames /\ Disturbs(q)
      /\ world \subseteq world' /\ world' \subseteq world \cup {n}
  BY <1>2, <1>3 DEF CfnInv
<1>9. calm[q] => Honest(r, world') /\ world' \cap Undoes(r) \subseteq r.left
  <2>1. calm[q] => Honest(r, world) /\ world \cap Undoes(r) \subseteq r.left
    BY <1>1 DEF Reversible, Undoable
  <2> QED
    BY <1>7, <1>8, <2>1 DEF Honest
<1>10. ASSUME NEW e \in CfnRequest, Proper(e), Proceeds(q, e), calm[q] => Reversible(e, world')
       PROVE  CfnInv'
  BY <1>3, <1>8, <1>10, WorkInv
<1>11. CASE Proceeds(q, Rest(r, rest))
  <2> DEFINE e == Rest(r, rest)
  <2>1. rest \in SUBSET ResourceNames /\ rest \subseteq PrevNames(r)
    BY <1>1, <1>2
  <2> HIDE DEF rest
  <2>2. /\ e \in CfnRequest /\ SameWork(r, e)
        /\ (e.pc = "restore" /\ e.todo = rest /\ e.todo # {}) \/ e.pc = "put"
    BY <1>1, <2>1, RestTo
  <2>3. PrevNames(e) = PrevNames(r) /\ Undoes(e) = Undoes(r)
    BY <1>1, <2>2, ListsTyped
  <2> HIDE DEF e
  <2>4. Proper(e)
    BY <1>1, <2>1, <2>2, <2>3 DEF Proper, SameWork, Applying
  <2>5. calm[q] => Honest(e, world')
    BY <1>9, <2>2, <2>3 DEF Honest, SameWork
  <2>6. calm[q] => Reversible(e, world')
    BY <1>9, <2>2, <2>3, <2>5 DEF Reversible, SameWork, Applying
  <2>7. Proceeds(q, e)
    BY <1>11 DEF e
  <2> QED
    BY <1>10, <2>2, <2>4, <2>6, <2>7
<1>12. CASE Proceeds(q, Puts(lost))
  <2> DEFINE e == MovedTo(lost, "put", {})
  <2>2. e \in CfnRequest /\ SameWork(lost, e) /\ e.pc = "put"
    BY <1>4, GoesTo DEF CfnPcs
  <2>3. PrevNames(e) = PrevNames(r) /\ Undoes(e) = Undoes(r)
    BY <1>4, <1>6, <2>2, ListsTyped
  <2>4. Proceeds(q, e)
    BY <1>12, MovesBy
  <2> HIDE DEF e
  <2>5. Proper(e)
    BY <1>1, <1>5, <2>2 DEF Proper, SameWork, Applying
  <2>6. calm[q] => Honest(e, world')
    BY <1>5, <1>9, <2>2, <2>3 DEF Honest, SameWork
  <2>7. calm[q] => Reversible(e, world')
    BY <1>5, <1>9, <2>2, <2>3, <2>6 DEF Reversible, SameWork, Applying
  <2> QED
    BY <1>10, <2>2, <2>4, <2>5, <2>7
<1> QED
  BY <1>3, <1>11, <1>12

\* provision.Destroy deletes one resource, or cannot.
LEMMA DestroyInv == ASSUME CfnInv, NEW q \in StackRequests, DestroyOne(q) PROVE CfnInv'
<1> DEFINE r == request[q]
           n == Max(r.todo)
           rest == r.todo \ {n}
           gone == [r EXCEPT !.hurt = @ \cup ({n} \cap r.had)]
           kept == [r EXCEPT !.left = @ \cup {n}]
<1>1. /\ r \in CfnRequest /\ Proper(r) /\ r.pc \in {"undo", "drop", "destroy"}
      /\ r.todo # {} /\ r.made \subseteq r.touched /\ r.touched \subseteq r.tmpl
      /\ r.failed \subseteq r.tmpl /\ r.pc \notin Applying
      /\ r.pc = "undo" => r.todo \subseteq Undoes(r) /\ r.failed # {} /\ r.policy # "keep"
      /\ r.pc # "undo" => r.failed = {}
      /\ calm[q] => Reversible(r, world)
  BY DEF CfnInv, Proper, DestroyOne, Applying
<1>2. n \in r.todo /\ r.todo \in SUBSET ResourceNames
  BY <1>1, NextName DEF CfnRequest
<1>3. /\ \/ /\ world' = world \ {n} /\ Disturbs(q)
            /\ Proceeds(q, Rest(gone, rest))
         \/ /\ Proceeds(q, Rest(kept, rest))
            /\ UNCHANGED <<world, calm>>
      /\ UNCHANGED <<stack, changes>>
  BY DEF DestroyOne
<1>4. /\ gone \in CfnRequest /\ kept \in CfnRequest
      /\ gone.hurt = r.hurt \cup ({n} \cap r.had) /\ gone.left = r.left
      /\ kept.hurt = r.hurt /\ kept.left = r.left \cup {n}
  BY <1>1, <1>2 DEF CfnRequest
<1>5. \A x \in {gone, kept} :
        /\ x.pc = r.pc /\ x.touched = r.touched /\ x.policy = r.policy
        /\ x.made = r.made /\ x.tmpl = r.tmpl /\ x.failed = r.failed /\ x.had = r.had
        /\ x.prev = r.prev /\ x.update = r.update
  BY <1>1 DEF CfnRequest
<1> HIDE DEF r, n, gone, kept
<1>6. \A x \in {gone, kept} : PrevNames(x) = PrevNames(r) /\ Undoes(x) = Undoes(r)
  BY <1>5 DEF PrevNames, Updates, Undoes, madeBy
<1>7. calm[q] /\ r.pc = "undo" =>
        /\ Honest(r, world)
        /\ world \cap Undoes(r) \subseteq r.left \cup r.todo
  BY <1>1 DEF Reversible, Undoable
<1>8. ASSUME NEW x \in {gone, kept}, NEW there,
             calm[q] /\ r.pc = "undo" =>
               /\ Honest(x, there)
               /\ there \cap Undoes(r) \subseteq x.left \cup rest
      PROVE  /\ Rest(x, rest) \in CfnRequest /\ Proper(Rest(x, rest))
             /\ calm[q] => Reversible(Rest(x, rest), there)
  <2> DEFINE e == Rest(x, rest)
  <2>1. rest \in SUBSET ResourceNames /\ x \in CfnRequest /\ x.pc = r.pc
    BY <1>2, <1>4, <1>5
  <2>2. /\ e \in CfnRequest /\ SameWork(x, e)
        /\ \/ e.pc = r.pc /\ e.todo = rest /\ rest # {}
           \/ /\ rest = {} /\ r.pc = "undo" /\ e.pc = "restore"
              /\ e.todo = PrevNames(x) /\ e.todo # {}
           \/ rest = {} /\ r.pc = "destroy" /\ e.pc = "forget"
           \/ rest = {} /\ e.pc = "put"
    <3> HIDE DEF rest
    <3> QED
      BY <1>1, <2>1, RestTo
  <2>3. PrevNames(e) = PrevNames(r) /\ Undoes(e) = Undoes(r)
    BY <1>6, <2>1, <2>2, ListsTyped
  <2>4. /\ e.touched = r.touched /\ e.policy = r.policy /\ e.left = x.left /\ e.hurt = x.hurt
        /\ e.made = r.made /\ e.tmpl = r.tmpl /\ e.failed = r.failed /\ e.had = r.had
    BY <1>5, <2>2 DEF SameWork
  <2> HIDE DEF e
  <2>5. Proper(e)
    BY <1>1, <1>6, <2>2, <2>3, <2>4 DEF Proper, Applying
  <2>6. calm[q] => Reversible(e, there)
    <3>1. CASE r.pc = "undo"
      <4>1. calm[q] => Honest(e, there)
        BY <1>5, <1>6, <1>8, <2>3, <2>4, <3>1 DEF Honest
      <4>2. e.pc \in {"undo", "restore", "put"}
        BY <2>2, <3>1
      <4> QED
        BY <1>8, <2>2, <2>3, <2>4, <3>1, <4>1, <4>2 DEF Reversible, Applying
    <3>2. CASE r.pc # "undo"
      BY <1>1, <2>2, <2>4, <3>2 DEF Reversible, Undoable, Applying
    <3> QED
      BY <3>1, <3>2
  <2> QED
    BY <2>2, <2>5, <2>6 DEF e
<1>9. CASE /\ world' = world \ {n} /\ Disturbs(q)
           /\ Proceeds(q, Rest(gone, rest))
  <2>1. world' \subseteq ResourceNames /\ world' = world \ {n}
    BY <1>9 DEF CfnInv
  <2>2. r.pc = "undo" => n \in r.made \ PrevNames(r)
    BY <1>1, <1>2, ListsTyped
  <2>4. calm[q] /\ r.pc = "undo" =>
          Honest(gone, world') /\ world' \cap Undoes(r) \subseteq gone.left \cup rest
    BY <1>4, <1>5, <1>6, <1>7, <2>1, <2>2 DEF Honest
  <2>3. /\ Rest(gone, rest) \in CfnRequest /\ Proper(Rest(gone, rest))
        /\ calm[q] => Reversible(Rest(gone, rest), world')
    BY <1>8, <2>4
  <2> QED
    BY <1>3, <1>9, <2>1, <2>3, WorkInv
<1>10. CASE Proceeds(q, Rest(kept, rest)) /\ UNCHANGED <<world, calm>>
  <2>1. world' = world
    BY <1>10
  <2>3. calm[q] /\ r.pc = "undo" =>
          Honest(kept, world) /\ world \cap Undoes(r) \subseteq kept.left \cup rest
    BY <1>4, <1>5, <1>6, <1>7 DEF Honest
  <2>2. /\ Rest(kept, rest) \in CfnRequest /\ Proper(Rest(kept, rest))
        /\ calm[q] => Reversible(Rest(kept, rest), world)
    BY <1>8, <2>3
  <2> QED
    BY <1>3, <1>10, <2>1, <2>2, WorkInv
<1> QED
  BY <1>3, <1>9, <1>10

\* A step that stores something and touches no resource.
LEMMA StoreInv ==
  ASSUME CfnInv, NEW q \in StackRequests, NEW e \in CfnRequest, Proceeds(q, e), Proper(e),
         calm[q] => Reversible(e, world), Disturbs(q), UNCHANGED world,
         stack' \in [Stacks -> OwnRecord],
         changes' \in [Stacks -> ChangeSet \cup {NoChanges}]
  PROVE  CfnInv'
<1>1. world' = world
  OBVIOUS
<1>2. /\ calm' \in [StackRequests -> BOOLEAN] /\ calm'[q] = calm[q]
      /\ \A p \in StackRequests \ {q} : ~calm'[p]
  BY DisturbsOthers
<1>3. world' \subseteq ResourceNames
  BY DEF CfnInv
<1> QED
  BY <1>1, <1>2, <1>3, OneProceeds

\* A request that has ended, or has come to a place from where nothing is undone.
LEMMA EndsFit ==
  /\ ~Undoable(NoRequest)
  /\ \A r \in CfnRequest : Proper(r) =>
       \A pc \in {"again", "mark"} :
         LET e == [r EXCEPT !.pc = pc]
         IN  e \in CfnRequest /\ Proper(e) /\ ~Undoable(e)
<1>1. ~Undoable(NoRequest)
  BY DEF NoRequest, Undoable, Applying
<1>2. ASSUME NEW r \in CfnRequest, Proper(r), NEW pc \in {"again", "mark"}
      PROVE  LET e == [r EXCEPT !.pc = pc]
             IN  e \in CfnRequest /\ Proper(e) /\ ~Undoable(e)
  <2> DEFINE e == [r EXCEPT !.pc = pc]
  <2>1. e \in CfnRequest
    BY <1>2 DEF CfnRequest, CfnPcs
  <2>2. /\ e.pc = pc /\ e.made = r.made /\ e.touched = r.touched /\ e.tmpl = r.tmpl
        /\ e.failed = r.failed
    BY <1>2 DEF CfnRequest
  <2>3. r.made \subseteq r.touched /\ r.touched \subseteq r.tmpl /\ r.failed \subseteq r.tmpl
    BY <1>2 DEF Proper
  <2> HIDE DEF e
  <2>4. Proper(e) /\ ~Undoable(e)
    BY <1>2, <2>2, <2>3 DEF Proper, Undoable, Applying
  <2> QED
    BY <2>1, <2>4 DEF e
<1> QED
  BY <1>1, <1>2

\* The record a request stores.
LEMMA RecordedFits ==
  ASSUME NEW r \in CfnRequest, Proper(r)
  PROVE  Recorded(r) \in OwnRecord
<1>1. Outcome(r) \in Statuses \ {"none", "REVIEW_IN_PROGRESS"}
  BY DEF Outcome, Statuses
<1>2. /\ r.prev \in StackRecord /\ r.prev.res \subseteq r.prev.tmpl
      /\ r.tmpl \in SUBSET ResourceNames
  BY DEF CfnRequest, OwnRecord
<1>3. Attempted(r) \subseteq r.tmpl
  BY DEF Attempted, Proper
<1>4. ASSUME NEW st \in Statuses \ {"none", "REVIEW_IN_PROGRESS"}, NEW res \in SUBSET r.prev.tmpl
      PROVE  [r.prev EXCEPT !.status = st, !.res = res] \in OwnRecord
  BY <1>2, <1>4 DEF StackRecord, OwnRecord
<1>5. ASSUME NEW st \in Statuses \ {"none", "REVIEW_IN_PROGRESS"}, NEW res \in SUBSET r.tmpl
      PROVE  [status |-> st, tmpl |-> r.tmpl, res |-> res] \in OwnRecord
  BY <1>2, <1>5 DEF StackRecord, OwnRecord
<1>6. CASE r.tmpl = {}
  <2>1. "DELETE_COMPLETE" \in Statuses \ {"none", "REVIEW_IN_PROGRESS"}
    BY DEF Statuses
  <2>2. Recorded(r) = [r.prev EXCEPT !.status = "DELETE_COMPLETE", !.res = {}]
    BY <1>6 DEF Recorded
  <2> QED
    BY <1>4, <2>1, <2>2
<1>7. CASE r.tmpl # {} /\ Outcome(r) \in {"UPDATE_ROLLBACK_COMPLETE", "UPDATE_ROLLBACK_FAILED"}
  <2>1. Recorded(r) = [r.prev EXCEPT !.status = Outcome(r)]
    BY <1>7 DEF Recorded
  <2> QED
    BY <1>1, <1>2, <2>1 DEF StackRecord, OwnRecord
<1>8. CASE r.tmpl # {} /\ Outcome(r) \notin {"UPDATE_ROLLBACK_COMPLETE", "UPDATE_ROLLBACK_FAILED"}
  <2> DEFINE res == IF r.failed = {} THEN r.tmpl
                    ELSE IF Outcome(r) = "DELETE_COMPLETE" THEN {} ELSE Attempted(r)
  <2>1. Recorded(r) = [status |-> Outcome(r), tmpl |-> r.tmpl, res |-> res]
    BY <1>8 DEF Recorded
  <2>2. res \in SUBSET r.tmpl
    BY <1>3
  <2> HIDE DEF res
  <2> QED
    BY <1>1, <1>5, <2>1, <2>2
<1> QED
  BY <1>6, <1>7, <1>8

\* The steps that store a record or a change set.
LEMMA StoresInv ==
  ASSUME CfnInv, NEW q \in StackRequests,
         \/ Forget(q) \/ PutStack(q) \/ MarkChangeSet(q) \/ PutChangeSet(q)
         \/ \E s \in Stacks : recordFailure(q, s) \/ DeleteChangeSet(q, s)
  PROVE  CfnInv'
<1> DEFINE r == request[q]
<1>1. r \in CfnRequest /\ Proper(r) /\ (calm[q] => Reversible(r, world))
  BY DEF CfnInv
<1>2. stack \in [Stacks -> OwnRecord] /\ changes \in [Stacks -> ChangeSet \cup {NoChanges}]
  BY DEF CfnInv
<1>3. \A e : ~Undoable(e) => Reversible(e, world)
  BY DEF Reversible
<1>4. NoRequest \in CfnRequest /\ Proper(NoRequest) /\ Reversible(NoRequest, world)
  BY <1>3, NoRequestFits, EndsFit
<1>5. CASE Forget(q)
  <2> DEFINE e == MovedTo(r, "put", {})
  <2>1. e \in CfnRequest /\ SameWork(r, e) /\ e.pc = "put"
    BY <1>1, GoesTo DEF CfnPcs
  <2>2. Proceeds(q, e)
    BY <1>5, MovesBy DEF Forget
  <2> HIDE DEF e
  <2>3. r.failed = {} /\ r.made \subseteq r.touched /\ r.touched \subseteq r.tmpl
    BY <1>1, <1>5 DEF Forget, Proper
  <2>4. Proper(e) /\ ~Undoable(e)
    BY <2>1, <2>3 DEF Proper, Undoable, SameWork, Applying
  <2>5. changes' \in [Stacks -> ChangeSet \cup {NoChanges}] /\ stack' = stack
    BY <1>2, <1>5 DEF Forget
  <2>6. Disturbs(q) /\ UNCHANGED world
    BY <1>5 DEF Forget
  <2> QED
    BY <1>2, <1>3, <2>1, <2>2, <2>4, <2>5, <2>6, StoreInv
<1>6. CASE PutStack(q)
  <2>1. Recorded(r) \in OwnRecord
    BY <1>1, RecordedFits
  <2>2. stack' \in [Stacks -> OwnRecord] /\ changes' = changes
    BY <1>2, <1>6, <2>1 DEF PutStack
  <2>3. PICK e \in {NoRequest, [r EXCEPT !.pc = "mark"], [r EXCEPT !.pc = "again"]} :
          Proceeds(q, e)
    BY <1>6 DEF PutStack
  <2>4. e \in CfnRequest /\ Proper(e) /\ Reversible(e, world)
    BY <1>1, <1>3, <1>4, <2>3, EndsFit
  <2>5. Disturbs(q) /\ UNCHANGED world
    BY <1>6 DEF PutStack
  <2> QED
    BY <1>2, <2>2, <2>3, <2>4, <2>5, StoreInv
<1>7. CASE MarkChangeSet(q)
  <2>1. changes' \in [Stacks -> ChangeSet \cup {NoChanges}] /\ stack' = stack
    BY <1>2, <1>7 DEF MarkChangeSet
  <2>2. Disturbs(q) /\ UNCHANGED world /\ Proceeds(q, NoRequest)
    BY <1>7 DEF MarkChangeSet
  <2> QED
    BY <1>2, <1>4, <2>1, <2>2, StoreInv
<1>8. CASE PutChangeSet(q)
  <2>1. r.tmpl \in SUBSET ResourceNames /\ r.update \in BOOLEAN
    BY <1>1 DEF CfnRequest
  <2>2. /\ [there |-> TRUE, tmpl |-> r.tmpl, update |-> r.update] \in ChangeSet
        /\ [status |-> "REVIEW_IN_PROGRESS", tmpl |-> r.tmpl, res |-> {}] \in OwnRecord
    BY <2>1 DEF ChangeSet, OwnRecord, StackRecord, Statuses
  <2>3. PICK c \in ChangeSet \cup {NoChanges} : changes' = [changes EXCEPT ![r.stack] = c]
    BY <1>8, <2>2 DEF PutChangeSet
  <2>4. changes' \in [Stacks -> ChangeSet \cup {NoChanges}]
    BY <1>2, <2>3
  <2>5. stack' \in [Stacks -> OwnRecord]
    BY <1>2, <1>8, <2>2 DEF PutChangeSet
  <2>6. Disturbs(q) /\ UNCHANGED world /\ Proceeds(q, NoRequest)
    BY <1>8 DEF PutChangeSet
  <2> QED
    BY <1>4, <2>4, <2>5, <2>6, StoreInv
<1>9. ASSUME NEW s \in Stacks, recordFailure(q, s) PROVE CfnInv'
  <2>1. Found(s) \in OwnRecord /\ Found(s).res = {}
    BY <1>9, FoundFits DEF recordFailure, OwnRecord
  <2>2. PICK t \in Templates :
          stack' = [stack EXCEPT ![s] = [Found(s) EXCEPT !.status = "CREATE_FAILED", !.tmpl = t]]
    BY <1>9 DEF recordFailure
  <2>3. [Found(s) EXCEPT !.status = "CREATE_FAILED", !.tmpl = t] \in OwnRecord
    BY <2>1, StackAssumption DEF OwnRecord, StackRecord, Statuses
  <2>4. stack' \in [Stacks -> OwnRecord]
    BY <1>2, <2>2, <2>3
  <2>5. /\ Disturbs(q) /\ UNCHANGED <<world, changes, request>>
    BY <1>9 DEF recordFailure
  <2>6. Proceeds(q, r)
    BY <2>5 DEF Proceeds, CfnInv
  <2> QED
    BY <1>1, <1>2, <2>4, <2>5, <2>6, StoreInv
<1>10. ASSUME NEW s \in Stacks, DeleteChangeSet(q, s) PROVE CfnInv'
  <2>1. changes' \in [Stacks -> ChangeSet \cup {NoChanges}]
    BY <1>2, <1>10 DEF DeleteChangeSet
  <2>2. /\ Disturbs(q) /\ UNCHANGED <<world, stack, request>>
    BY <1>10 DEF DeleteChangeSet
  <2>3. Proceeds(q, r)
    BY <2>2 DEF Proceeds, CfnInv
  <2> QED
    BY <1>1, <1>2, <2>1, <2>2, <2>3, StoreInv
<1> QED
  BY <1>5, <1>6, <1>7, <1>8, <1>9, <1>10

\* Every step of the requests, of the users of other services and of a crash
\* keeps the invariant.
LEMMA CfnStep == CfnInv /\ [CfnNext]_cfnVars => CfnInv'
<1> SUFFICES ASSUME CfnInv, [CfnNext]_cfnVars
             PROVE  CfnInv'
  OBVIOUS
<1>1. ASSUME NEW q \in StackRequests, ApplyOne(q) PROVE CfnInv'
  <2>1. request[q].pc \in {"apply", "finish"} \/ request[q].pc = "restore"
    BY <1>1 DEF ApplyOne
  <2> QED
    BY <1>1, <2>1, ApplyInv, RestoreInv
<1>2. ASSUME NEW n \in ResourceNames, UserActs(n) PROVE CfnInv'
  <2>1. /\ world' \subseteq ResourceNames
        /\ calm' \in [StackRequests -> BOOLEAN] /\ \A q \in StackRequests : ~calm'[q]
        /\ UNCHANGED <<stack, changes, request>>
    BY <1>2 DEF UserActs, CfnInv
  <2> QED
    BY <2>1 DEF CfnInv
<1>3. CASE CfnCrash
  <2>1. /\ request' \in [StackRequests -> CfnRequest]
        /\ \A q \in StackRequests : request'[q] = NoRequest
    BY <1>3, NoRequestFits DEF CfnCrash
  <2>2. UNCHANGED <<world, stack, changes, calm>>
    BY <1>3 DEF CfnCrash
  <2>3. \A q \in StackRequests : Proper(request'[q]) /\ Reversible(request'[q], world')
    BY <2>1, NoRequestFits, EndsFit DEF Reversible
  <2> QED
    BY <2>1, <2>2, <2>3 DEF CfnInv
<1>4. CASE UNCHANGED cfnVars
  <2>1. world' = world
    BY <1>4 DEF cfnVars
  <2> QED
    BY <1>4, <2>1 DEF cfnVars, CfnInv
<1> QED
  BY <1>1, <1>2, <1>3, <1>4, BeginInv, ProbeInv, AmendInv, DestroyInv, StoresInv DEF CfnNext

\* The type invariant follows from the inductive one.
LEMMA CfnInvTypes == CfnInv => CfnTypeOK
<1> SUFFICES ASSUME CfnInv PROVE CfnTypeOK
  OBVIOUS
<1>1. ASSUME NEW q \in StackRequests
      PROVE  /\ request[q].pc \in CfnPcs /\ request[q].prev \in StackRecord
             /\ request[q].todo \subseteq ResourceNames
             /\ request[q].made \subseteq request[q].touched
  BY DEF CfnInv, CfnRequest, Proper, OwnRecord
<1>2. stack \in [Stacks -> StackRecord]
  BY DEF CfnInv, OwnRecord
<1> QED
  BY <1>1, <1>2 DEF CfnInv, CfnTypeOK, CfnPcs

\* CfnTypeOK for every set of names, stacks, requests and templates: the stack
\* records, change sets and requests stay what cloudformation/ declares.
THEOREM StacksTyped == CfnSpec => []CfnTypeOK
  BY CfnInitInv, CfnStep, CfnInvTypes, PTL DEF CfnSpec

\* RollbackRestores for every set of names, stacks, requests and templates: a
\* deploy that settleFailure (rollback.go) rolls back, and that nobody
\* interfered with, leaves what it found, and of what it made only what the
\* template retains, what the previous template names and what Unknown says the
\* rollback does not know of: all of it where the reports say "created" last
\* and no call after the one that made a resource fails.
THEOREM RollbackKept == CfnSpec => []RollbackRestores
<1>1. ASSUME CfnInv
      PROVE  RollbackRestores
  <2> SUFFICES ASSUME NEW q \in StackRequests, request[q].pc = "put", calm[q],
                      Outcome(request[q]) \in RolledBack
               PROVE  LET r == request[q]
                      IN  /\ r.hurt = {} /\ \A n \in r.had : There(n)
                          /\ \A n \in ResourceNames \ r.had : There(n) =>
                               n \in PrevNames(r) \cup
                                     (r.tmpl \ madeBy([r EXCEPT !.made = r.tmpl]))
                                     \cup Unknown(r)
    BY DEF RollbackRestores
  <2> DEFINE r == request[q]
             all == [r EXCEPT !.made = r.tmpl]
             saved == retained([tmpl |-> r.tmpl, res |-> r.tmpl], TRUE)
  <2>1. r \in CfnRequest /\ Proper(r) /\ Reversible(r, world)
    BY <1>1 DEF CfnInv
  <2>2. r.failed # {} /\ r.policy # "keep" /\ r.left = {}
    <3>1. Outcome(r) \in {"ROLLBACK_COMPLETE", "UPDATE_ROLLBACK_COMPLETE"}
      BY DEF RolledBack
    <3> HIDE DEF r
    <3>2. r.failed # {}
      BY <3>1 DEF Outcome
    <3>3. r.policy # "keep"
      BY <3>1, <3>2 DEF Outcome
    <3>4. r.left = {}
      BY <3>1, <3>2, <3>3 DEF Outcome
    <3> QED
      BY <3>2, <3>3, <3>4
  <2>3. /\ r.hurt = {} /\ r.had \subseteq world
        /\ world \subseteq r.had \cup r.made \cup PrevNames(r) \cup (Vague \cap r.tmpl)
                           \cup r.failed
        /\ world \cap Undoes(r) = {}
    BY <2>1, <2>2 DEF Reversible, Undoable, Honest, Applying
  <2>10. (Vague \cap r.tmpl) \cup r.failed \subseteq r.made \cup Unknown(r)
    BY <2>1 DEF Vague, Unknown, CfnRequest, Proper
  <2>4. all.made = r.tmpl /\ all.tmpl = r.tmpl
    BY <2>1 DEF CfnRequest
  <2>5. madeBy(all) = r.tmpl \ saved /\ madeBy(r) = r.made \ saved
    BY <2>4 DEF madeBy
  <2>6. r.made \subseteq r.tmpl /\ Undoes(r) = madeBy(r) \ PrevNames(r)
    BY <2>1 DEF Proper, Undoes
  <2>7. \A n \in r.had : There(n)
    BY <2>3 DEF There
  <2>8. \A n \in ResourceNames : There(n) => n \in world
    BY DEF There
  <2> HIDE DEF saved, all
  <2>9. \A n \in ResourceNames \ r.had : There(n) =>
          n \in PrevNames(r) \cup (r.tmpl \ madeBy(all)) \cup Unknown(r)
    BY <2>3, <2>5, <2>6, <2>8, <2>10
  <2> QED
    BY <2>3, <2>7, <2>9 DEF all
<1> QED
  BY <1>1, CfnInitInv, CfnStep, PTL DEF CfnSpec

-----------------------------------------------------------------------------
(* Step Functions.                                                         *)

-----------------------------------------------------------------------------
(* The frames of an execution, as a tree.                                  *)

\* A frame has the shape frame.go gives it, and its parent comes before it and
\* has opened its generation.
FramesFit(fs) ==
  /\ fs \in Seq(FrameRecord) /\ Len(fs) \in 1..MaxFrames
  /\ \A i \in DOMAIN fs :
       /\ i = 1 => fs[i].parent = 0
       /\ i # 1 => fs[i].parent \in 1..(i - 1) /\ fs[i].gen \in 1..fs[fs[i].parent].spawnGen

\* gs is fs with other states, statuses, attempts and tokens.
SameTree(fs, gs) ==
  /\ gs \in Seq(FrameRecord) /\ Len(gs) = Len(fs)
  /\ \A i \in DOMAIN fs :
       /\ gs[i].parent = fs[i].parent /\ gs[i].gen = fs[i].gen
       /\ gs[i].spawnGen = fs[i].spawnGen /\ gs[i].stray = fs[i].stray

\* CutOff, of given frames.
CutIn(fs, p) ==
  /\ fs[p].status = "FAILED" /\ p # 1
  /\ ~(fs[fs[p].parent].status = "JOIN" /\ p \in Children(fs, fs[p].parent))

\* NoBranchOutlivesJoin, of given frames.
JoinsEnded(fs) ==
  \A p \in DOMAIN fs :
    fs[p].status # "JOIN" /\ ~CutIn(fs, p) =>
      \A k \in Children(fs, p) : Terminal(fs[k]) \/ fs[k].stray

\* The children that MaxConcurrency counts.
UnderWay(fs, p) == {k \in Children(fs, p) : ~Terminal(fs[k]) /\ fs[k].status # "PENDING"}

\* ConcurrencyBound, of given frames.
WithinLimits(fs) ==
  \A p \in DOMAIN fs :
    fs[p].status = "JOIN" /\ Def[fs[p].state].limit > 0 =>
      Cardinality(UnderWay(fs, p)) <= Ceiling(fs[p].state)

\* Both limits of a map are within its ceiling.
LEMMA CeilingIs ==
  ASSUME NEW s \in Names
  PROVE  /\ Ceiling(s) \in Nat /\ Def[s].limit \in Nat /\ Def[s].kept \in Nat
         /\ Def[s].limit <= Ceiling(s) /\ Def[s].kept <= Ceiling(s)
<1>1. Def[s].limit \in Nat /\ Def[s].kept \in Nat
  BY SfnAssumption DEF StateRecord
<1> QED
  BY <1>1 DEF Ceiling

\* The frames are numbered from 1, parents before children.
LEMMA FrameFacts ==
  ASSUME NEW fs, FramesFit(fs)
  PROVE  /\ Len(fs) \in Nat /\ Len(fs) >= 1 /\ DOMAIN fs = 1..Len(fs)
         /\ 1 \in DOMAIN fs
         /\ \A i \in DOMAIN fs : i \in Nat /\ i >= 1 /\ fs[i] \in FrameRecord
         /\ \A i \in DOMAIN fs : fs[i].parent \in Nat /\ fs[i].parent < i
         /\ \A i \in DOMAIN fs : i # 1 => fs[i].parent \in DOMAIN fs
         /\ \A p \in DOMAIN fs : IsFiniteSet(Children(fs, p)) /\ p \notin Children(fs, p)
<1>1. /\ Len(fs) \in Nat /\ Len(fs) >= 1 /\ DOMAIN fs = 1..Len(fs)
      /\ \A i \in DOMAIN fs : i \in Nat /\ i >= 1 /\ fs[i] \in FrameRecord
  BY SfnAssumption DEF FramesFit
<1>2. 1 \in DOMAIN fs
  BY <1>1
<1>3. \A i \in DOMAIN fs : fs[i].parent \in Nat /\ fs[i].parent < i
  BY <1>1 DEF FramesFit
<1>4. \A i \in DOMAIN fs : i # 1 => fs[i].parent \in DOMAIN fs
  BY <1>1 DEF FramesFit
<1>5. ASSUME NEW p \in DOMAIN fs
      PROVE  IsFiniteSet(Children(fs, p)) /\ p \notin Children(fs, p)
  <2>1. Children(fs, p) \subseteq 1..Len(fs)
    BY <1>1 DEF Children
  <2>2. IsFiniteSet(1..Len(fs))
    BY <1>1, FS_Interval
  <2>3. p \notin Children(fs, p)
    BY <1>1, <1>3 DEF Children
  <2> QED
    BY <2>1, <2>2, <2>3, FS_Subset
<1> QED
  BY <1>1, <1>2, <1>3, <1>4, <1>5

\* The same tree has the same frames and the same children.
LEMMA SameTreeFits ==
  ASSUME NEW fs, NEW gs, FramesFit(fs), SameTree(fs, gs)
  PROVE  /\ FramesFit(gs) /\ DOMAIN gs = DOMAIN fs
         /\ \A p \in DOMAIN fs : Children(gs, p) = Children(fs, p)
<1>1. DOMAIN gs = DOMAIN fs
  BY FrameFacts DEF SameTree
<1>2. \A i \in DOMAIN fs : i # 1 => fs[i].parent \in DOMAIN fs
  BY FrameFacts
<1>3. FramesFit(gs)
  BY <1>1, <1>2 DEF FramesFit, SameTree
<1>4. \A p \in DOMAIN fs : Children(gs, p) = Children(fs, p)
  BY <1>1 DEF Children, SameTree
<1> QED
  BY <1>1, <1>3, <1>4

\* One frame replaced by another in the same place of the tree.
LEMMA ReplacedTree ==
  ASSUME NEW fs, FramesFit(fs), NEW i \in DOMAIN fs, NEW g \in FrameRecord,
         g.parent = fs[i].parent, g.gen = fs[i].gen, g.spawnGen = fs[i].spawnGen,
         g.stray = fs[i].stray
  PROVE  /\ SameTree(fs, [fs EXCEPT ![i] = g])
         /\ [fs EXCEPT ![i] = g][i] = g
         /\ \A j \in DOMAIN fs : j # i => [fs EXCEPT ![i] = g][j] = fs[j]
<1>1. fs \in Seq(FrameRecord) /\ i \in 1..Len(fs)
  BY FrameFacts DEF FramesFit
<1>2. /\ [fs EXCEPT ![i] = g] \in Seq(FrameRecord)
      /\ Len([fs EXCEPT ![i] = g]) = Len(fs)
  BY <1>1, ExceptSeq
<1>3. \A j \in DOMAIN fs : [fs EXCEPT ![i] = g][j] = IF j = i THEN g ELSE fs[j]
  OBVIOUS
<1> QED
  BY <1>2, <1>3 DEF SameTree

\* A function over the frames is a sequence of frames.
LEMMA MappedTree ==
  ASSUME NEW fs, FramesFit(fs), NEW gs \in [DOMAIN fs -> FrameRecord],
         \A i \in DOMAIN fs : /\ gs[i].parent = fs[i].parent /\ gs[i].gen = fs[i].gen
                              /\ gs[i].spawnGen = fs[i].spawnGen /\ gs[i].stray = fs[i].stray
  PROVE  SameTree(fs, gs)
<1>1. Len(fs) \in Nat /\ DOMAIN fs = 1..Len(fs)
  BY FrameFacts
<1>2. gs \in Seq(FrameRecord) /\ Len(gs) = Len(fs)
  BY <1>1
<1> QED
  BY <1>2 DEF SameTree

\* Steps that end no join without its children keep every join in charge.
LEMMA EndedStays ==
  ASSUME NEW fs, NEW gs, FramesFit(fs), SameTree(fs, gs), JoinsEnded(fs),
         \A i \in DOMAIN fs : Terminal(fs[i]) => gs[i] = fs[i],
         \A i \in DOMAIN fs : gs[i].status = "JOIN" => fs[i].status = "JOIN",
         \A p \in DOMAIN fs : fs[p].status = "JOIN" /\ gs[p].status # "JOIN" =>
           CutIn(gs, p) \/ \A k \in Children(fs, p) : Terminal(gs[k])
  PROVE  JoinsEnded(gs)
<1>1. /\ DOMAIN gs = DOMAIN fs
      /\ \A p \in DOMAIN fs : Children(gs, p) = Children(fs, p)
  BY SameTreeFits
<1> SUFFICES ASSUME NEW p \in DOMAIN fs, gs[p].status # "JOIN", ~CutIn(gs, p),
                    NEW k \in Children(fs, p)
             PROVE  Terminal(gs[k]) \/ gs[k].stray
  BY <1>1 DEF JoinsEnded
<1>2. k \in DOMAIN fs
  BY DEF Children
<1>3. CASE fs[p].status = "JOIN"
  BY <1>3
<1>4. CASE fs[p].status # "JOIN" /\ CutIn(fs, p)
  <2>1. gs[p] = fs[p] /\ fs[p].parent \in DOMAIN fs
    BY <1>4, FrameFacts DEF CutIn, Terminal
  <2>2. CutIn(gs, p)
    BY <1>1, <1>4, <2>1 DEF CutIn
  <2> QED
    BY <2>2
<1>5. CASE fs[p].status # "JOIN" /\ ~CutIn(fs, p)
  BY <1>2, <1>5 DEF JoinsEnded, SameTree
<1> QED
  BY <1>3, <1>4, <1>5

\* Steps that start no child keep within MaxConcurrency.
LEMMA BoundedStays ==
  ASSUME NEW fs, NEW gs, FramesFit(fs), SameTree(fs, gs), WithinLimits(fs),
         \A i \in DOMAIN fs : gs[i].status = "JOIN" =>
           fs[i].status = "JOIN" /\ gs[i].state = fs[i].state,
         \A i \in DOMAIN fs : ~Terminal(gs[i]) /\ gs[i].status # "PENDING" =>
           ~Terminal(fs[i]) /\ fs[i].status # "PENDING"
  PROVE  WithinLimits(gs)
<1>1. /\ DOMAIN gs = DOMAIN fs
      /\ \A p \in DOMAIN fs : Children(gs, p) = Children(fs, p)
  BY SameTreeFits
<1> SUFFICES ASSUME NEW p \in DOMAIN fs, gs[p].status = "JOIN", Def[gs[p].state].limit > 0
             PROVE  Cardinality(UnderWay(gs, p)) <= Ceiling(gs[p].state)
  BY <1>1 DEF WithinLimits
<1>2. UnderWay(gs, p) \subseteq UnderWay(fs, p)
  BY <1>1 DEF UnderWay, Children
<1>3. IsFiniteSet(UnderWay(fs, p))
  BY FrameFacts, FS_Subset DEF UnderWay
<1>4. /\ Cardinality(UnderWay(gs, p)) <= Cardinality(UnderWay(fs, p))
      /\ Cardinality(UnderWay(gs, p)) \in Nat /\ Cardinality(UnderWay(fs, p)) \in Nat
  BY <1>2, <1>3, FS_Subset, FS_CardinalityType
<1>5. Cardinality(UnderWay(fs, p)) <= Ceiling(fs[p].state)
  BY DEF WithinLimits
<1>6. gs[p].state = fs[p].state /\ gs[p].state \in Names
  BY FrameFacts DEF FrameRecord
<1>7. Ceiling(gs[p].state) \in Nat
  BY <1>6, CeilingIs
<1> QED
  BY <1>4, <1>5, <1>6, <1>7

\* The same place of the tree.
SamePlace(f, g) ==
  g.parent = f.parent /\ g.gen = f.gen /\ g.spawnGen = f.spawnGen /\ g.stray = f.stray

\* A frame that a result or a failing expression has moved.
Moved(f, g) ==
  /\ g \in FrameRecord /\ SamePlace(f, g)
  /\ g.status \in {"RUNNABLE", "RETRY_WAIT", "DONE", "FAILED"}
  /\ \/ g.token = 0
     \/ g.token = f.token /\ g.state = f.state /\ g.status # "RUNNABLE"

\* exitState, failFrame, deliverFailure and Deliver move a frame.
LEMMA DeliveredFrame ==
  ASSUME NEW f \in FrameRecord
  PROVE  /\ Moved(f, Exited(f)) /\ Moved(f, FailFrame(f))
         /\ \A g \in Unwound(f) : Moved(f, g)
         /\ \A ok \in BOOLEAN : \A g \in Delivered(f, ok) : Moved(f, g)
<1> DEFINE s == Def[f.state]
           w == [f EXCEPT !.status = "RETRY_WAIT", !.attempts = @ + 1]
<1>1. f.state \in Names /\ s \in StateRecord
  BY SfnAssumption DEF FrameRecord
<1>2. ASSUME NEW t \in Names
      PROVE  Moved(f, Enter(f, t))
  <2>1. Enter(f, t) \in FrameRecord
    BY <1>2 DEF Enter, FrameRecord, FrameStatus
  <2>2. /\ SamePlace(f, Enter(f, t))
        /\ Enter(f, t).status = "RUNNABLE" /\ Enter(f, t).token = 0
    BY <1>2 DEF Enter, FrameRecord, SamePlace
  <2> QED
    BY <2>1, <2>2 DEF Moved
<1>3. ASSUME NEW st \in {"DONE", "FAILED"}
      PROVE  Moved(f, [f EXCEPT !.status = st])
  <2>1. [f EXCEPT !.status = st] \in FrameRecord
    BY <1>3 DEF FrameRecord, FrameStatus
  <2>2. /\ SamePlace(f, [f EXCEPT !.status = st])
        /\ [f EXCEPT !.status = st].status = st /\ [f EXCEPT !.status = st].token = f.token
        /\ [f EXCEPT !.status = st].state = f.state
    BY DEF FrameRecord, SamePlace
  <2> QED
    BY <1>3, <2>1, <2>2 DEF Moved
<1>4. Moved(f, w)
  <2>1. ASSUME NEW n \in Nat
        PROVE  [f EXCEPT !.status = "RETRY_WAIT", !.attempts = n] \in FrameRecord
    BY DEF FrameRecord, FrameStatus
  <2>2. f.attempts + 1 \in Nat
    BY DEF FrameRecord
  <2>3. /\ SamePlace(f, w) /\ w.status = "RETRY_WAIT"
        /\ w.token = f.token /\ w.state = f.state
    BY DEF FrameRecord, SamePlace
  <2>4. w \in FrameRecord
    BY <2>1, <2>2
  <2> QED
    BY <2>3, <2>4 DEF Moved
<1>5. s.next # End => s.next \in Names
  BY <1>1 DEF StateRecord
<1>6. s.catch # NoCatch => s.catch \in Names
  BY <1>1 DEF StateRecord
<1>7. Moved(f, FailFrame(f))
  BY <1>3 DEF FailFrame
<1>8. Moved(f, Exited(f))
  <2>1. CASE s.next = End
    BY <1>3, <2>1 DEF Exited
  <2>2. CASE s.next # End
    BY <1>2, <1>5, <2>2 DEF Exited
  <2> QED
    BY <2>1, <2>2
<1>9. ASSUME NEW g \in Unwound(f) PROVE Moved(f, g)
  <2>1. \/ g = w
        \/ s.catch # NoCatch /\ g = Enter(f, s.catch)
        \/ g = FailFrame(f)
    BY <1>9 DEF Unwound
  <2> QED
    BY <1>2, <1>4, <1>6, <1>7, <2>1
<1>10. ASSUME NEW ok \in BOOLEAN, NEW g \in Delivered(f, ok) PROVE Moved(f, g)
  BY <1>8, <1>9, <1>10 DEF Delivered
<1> QED
  BY <1>7, <1>8, <1>9, <1>10

\* One frame that is under way, and joins nothing, moves.
LEMMA FrameMoves ==
  ASSUME NEW fs, FramesFit(fs), NEW i \in DOMAIN fs, NEW g \in FrameRecord, SamePlace(fs[i], g),
         ~Terminal(fs[i]), fs[i].status \notin {"PENDING", "JOIN"}, g.status # "JOIN"
  PROVE  LET gs == [fs EXCEPT ![i] = g]
         IN  /\ FramesFit(gs) /\ SameTree(fs, gs)
             /\ JoinsEnded(fs) => JoinsEnded(gs)
             /\ WithinLimits(fs) => WithinLimits(gs)
<1> DEFINE gs == [fs EXCEPT ![i] = g]
<1>1. SameTree(fs, gs) /\ gs[i] = g /\ \A j \in DOMAIN fs : j # i => gs[j] = fs[j]
  BY ReplacedTree DEF SamePlace
<1> HIDE DEF gs
<1>2. FramesFit(gs)
  BY <1>1, SameTreeFits
<1>3. JoinsEnded(fs) => JoinsEnded(gs)
  BY <1>1, EndedStays
<1>4. WithinLimits(fs) => WithinLimits(gs)
  BY <1>1, BoundedStays
<1> QED
  BY <1>1, <1>2, <1>3, <1>4 DEF gs

\* A frame that opens a generation.
LEMMA JoinsFrame ==
  ASSUME NEW f \in FrameRecord
  PROVE  LET g == [f EXCEPT !.status = "JOIN", !.spawnGen = @ + 1]
         IN  /\ g \in FrameRecord /\ g.status = "JOIN" /\ g.spawnGen = f.spawnGen + 1
             /\ g.parent = f.parent /\ g.gen = f.gen /\ g.state = f.state
             /\ g.token = f.token /\ g.stray = f.stray /\ f.spawnGen \in Nat
<1>1. f.spawnGen \in Nat
  BY DEF FrameRecord
<1>2. ASSUME NEW n \in Nat
      PROVE  [f EXCEPT !.status = "JOIN", !.spawnGen = n] \in FrameRecord
  BY DEF FrameRecord, FrameStatus
<1>3. LET g == [f EXCEPT !.status = "JOIN", !.spawnGen = @ + 1]
      IN  /\ g.status = "JOIN" /\ g.spawnGen = f.spawnGen + 1
          /\ g.parent = f.parent /\ g.gen = f.gen /\ g.state = f.state /\ g.token = f.token
          /\ g.stray = f.stray
  BY DEF FrameRecord
<1>4. f.spawnGen + 1 \in Nat
  BY <1>1
<1> QED
  BY <1>1, <1>2, <1>3, <1>4

\* How many numbers an interval has.
LEMMA IntervalCount ==
  ASSUME NEW n \in Nat, NEW l \in Nat
  PROVE  IsFiniteSet((n + 1)..(n + l)) /\ Cardinality((n + 1)..(n + l)) = l
<1>1. n + 1 \in Int /\ n + l \in Int
  OBVIOUS
<1>2. CASE n + 1 > n + l
  <2>1. l = 0
    BY <1>2
  <2> QED
    BY <1>1, <1>2, <2>1, FS_Interval
<1>3. CASE ~(n + 1 > n + l)
  <2>1. (n + l) - (n + 1) + 1 = l
    OBVIOUS
  <2> QED
    BY <1>1, <1>3, <2>1, FS_Interval
<1> QED
  BY <1>2, <1>3

\* The frames with h for frame i, and q spawned ones.
Fanned(i, h, q, stray) == [frames EXCEPT ![i] = h] \o Spawned(i, q, stray)

\* A map spawns frames: those of its items, or, when it fails on the way, some
\* strays.
LEMMA SpawnedFit ==
  ASSUME FramesFit(frames), NEW i \in DOMAIN frames, frames[i].status = "RUNNABLE",
         Def[frames[i].state].type = "map",
         NEW q \in Nat, Len(frames) + q <= MaxFrames, NEW stray \in BOOLEAN,
         NEW h \in FrameRecord, h.spawnGen = frames[i].spawnGen + 1,
         h.parent = frames[i].parent, h.gen = frames[i].gen, h.stray = frames[i].stray,
         \/ h.status = "JOIN" /\ h.state = frames[i].state
         \/ h.status # "JOIN" /\ stray
  PROVE  LET gs == Fanned(i, h, q, stray)
         IN  /\ FramesFit(gs) /\ DOMAIN frames \subseteq DOMAIN gs
             /\ gs[i] = h
             /\ \A j \in DOMAIN frames : j # i => gs[j] = frames[j]
             /\ \A j \in DOMAIN gs \ DOMAIN frames :
                  /\ gs[j].token = 0 /\ gs[j].status \in {"PENDING", "RUNNABLE"}
                  /\ gs[j].parent = i /\ gs[j].gen = h.spawnGen
             /\ JoinsEnded(frames) => JoinsEnded(gs)
             /\ WithinLimits(frames) => WithinLimits(gs)
             /\ \A p \in DOMAIN frames : p # i => Children(gs, p) = Children(frames, p)
             /\ Children(gs, i) = DOMAIN gs \ DOMAIN frames
             /\ \A k \in DOMAIN gs \ DOMAIN frames :
                  gs[k].status = "PENDING" => Def[frames[i].state].limit > 0
             /\ q > 0 => \E k \in DOMAIN gs \ DOMAIN frames : gs[k].status = "RUNNABLE"
<1> DEFINE fs == frames
           s == Def[fs[i].state]
           hs == [fs EXCEPT ![i] = h]
           sp == Spawned(i, q, stray)
           gs == hs \o sp
           n == Len(fs)
<1>1. /\ fs[i] \in FrameRecord /\ s \in StateRecord /\ s.body \in Names
      /\ n \in Nat /\ n >= 1 /\ DOMAIN fs = 1..n /\ i \in 1..n
      /\ s.limit \in Nat /\ fs \in Seq(FrameRecord)
  BY FrameFacts, SfnAssumption DEF FrameRecord, StateRecord, FramesFit
<1>2. fs[i].spawnGen \in Nat
  BY <1>1 DEF FrameRecord
<1>3. hs \in Seq(FrameRecord) /\ Len(hs) = n
  BY <1>1, <1>2, ExceptSeq
<1>4. \A j \in 1..n : hs[j] = IF j = i THEN h ELSE fs[j]
  BY <1>1
<1> HIDE DEF hs
<1>5. \A m \in 1..q :
        /\ sp[m] \in FrameRecord /\ sp[m].parent = i
        /\ sp[m].gen = fs[i].spawnGen + 1 /\ sp[m].spawnGen = 0
        /\ sp[m].token = 0 /\ sp[m].status \in {"PENDING", "RUNNABLE"}
        /\ sp[m].stray = stray
        /\ s.limit > 0 /\ m > s.limit <=> sp[m].status = "PENDING"
  <2> SUFFICES ASSUME NEW m \in 1..q
               PROVE  /\ sp[m] \in FrameRecord /\ sp[m].parent = i
                      /\ sp[m].gen = fs[i].spawnGen + 1 /\ sp[m].spawnGen = 0
                      /\ sp[m].token = 0 /\ sp[m].status \in {"PENDING", "RUNNABLE"}
                      /\ sp[m].stray = stray
                      /\ s.limit > 0 /\ m > s.limit <=> sp[m].status = "PENDING"
    OBVIOUS
  <2> DEFINE st == IF s.limit > 0 /\ m > s.limit THEN "PENDING" ELSE "RUNNABLE"
             r == [At(s.body, st, i, fs[i].spawnGen + 1) EXCEPT !.stray = stray]
  <2>1. sp[m] = r
    BY DEF Spawned
  <2>2. ASSUME NEW b \in Names, NEW t \in FrameStatus, NEW x \in Nat
        PROVE  [At(b, t, i, x) EXCEPT !.stray = stray] \in FrameRecord
    <3>1. i \in Nat
      BY <1>1
    <3>2. [At(b, t, i, x) EXCEPT !.stray = stray] =
            [state |-> b, status |-> t, attempts |-> 0, parent |-> i, gen |-> x,
             spawnGen |-> 0, token |-> 0, stray |-> stray]
      BY DEF At
    <3> QED
      BY <3>1, <3>2 DEF FrameRecord
  <2>3. r \in FrameRecord
    <3>1. st \in FrameStatus /\ fs[i].spawnGen + 1 \in Nat
      BY <1>2 DEF FrameStatus
    <3> HIDE DEF st, s
    <3> QED
      BY <1>1, <2>2, <3>1
  <2>4. /\ r.parent = i /\ r.gen = fs[i].spawnGen + 1 /\ r.spawnGen = 0
        /\ r.token = 0 /\ r.status = st /\ r.stray = stray
    BY DEF At
  <2> QED
    BY <2>1, <2>3, <2>4
<1>6. sp \in Seq(FrameRecord) /\ Len(sp) = q
  <2>1. sp = [m \in 1..q |-> sp[m]]
    BY DEF Spawned
  <2> HIDE DEF s, sp
  <2>2. sp \in [1..q -> FrameRecord]
    BY <1>5, <2>1
  <2> QED
    BY <2>2
<1>7. /\ gs \in Seq(FrameRecord) /\ Len(gs) = n + q /\ DOMAIN gs = 1..(n + q)
      /\ \A j \in 1..n : gs[j] = hs[j]
      /\ \A j \in (n + 1)..(n + q) : gs[j] = sp[j - n]
  <2>1. hs \in Seq(FrameRecord) /\ sp \in Seq(FrameRecord) /\ Len(hs) = n /\ Len(sp) = q
    BY <1>3, <1>6
  <2> HIDE DEF n, sp
  <2>2. /\ hs \o sp \in Seq(FrameRecord) /\ Len(hs \o sp) = n + q
        /\ DOMAIN (hs \o sp) = 1..(n + q)
        /\ \A j \in 1..n : (hs \o sp)[j] = hs[j]
        /\ \A j \in (n + 1)..(n + q) : (hs \o sp)[j] = sp[j - n]
    BY <2>1
  <2> QED
    BY <2>2
<1>8. \A j \in 1..n : gs[j] = IF j = i THEN h ELSE fs[j]
  BY <1>4, <1>7
<1>9. \A j \in (n + 1)..(n + q) :
        /\ gs[j].parent = i /\ gs[j].gen = fs[i].spawnGen + 1 /\ gs[j].spawnGen = 0
        /\ gs[j].token = 0 /\ gs[j].status \in {"PENDING", "RUNNABLE"}
        /\ gs[j].stray = stray
        /\ s.limit > 0 /\ j > n + s.limit <=> gs[j].status = "PENDING"
  <2> SUFFICES ASSUME NEW j \in (n + 1)..(n + q)
               PROVE  /\ gs[j].parent = i /\ gs[j].gen = fs[i].spawnGen + 1 /\ gs[j].spawnGen = 0
                      /\ gs[j].token = 0 /\ gs[j].status \in {"PENDING", "RUNNABLE"}
                      /\ gs[j].stray = stray
                      /\ s.limit > 0 /\ j > n + s.limit <=> gs[j].status = "PENDING"
    OBVIOUS
  <2>1. j - n \in 1..q /\ (j > n + s.limit <=> j - n > s.limit)
    BY <1>1
  <2>2. gs[j] = sp[j - n]
    BY <1>7
  <2> QED
    BY <1>5, <2>1, <2>2
<1> HIDE DEF gs, s, n, sp
<1>10. \A j \in DOMAIN gs : j \in 1..n \/ j \in (n + 1)..(n + q)
  BY <1>1, <1>7
<1>11. \A j \in 1..n : /\ gs[j].parent = fs[j].parent /\ gs[j].gen = fs[j].gen
                       /\ gs[j].spawnGen = IF j = i THEN fs[j].spawnGen + 1 ELSE fs[j].spawnGen
  BY <1>2, <1>8
<1>12. FramesFit(gs)
  <2>1. Len(gs) \in 1..MaxFrames
    BY <1>1, <1>7, SfnAssumption DEF s, n
  <2>2. ASSUME NEW j \in 1..n
        PROVE  /\ j = 1 => gs[j].parent = 0
               /\ j # 1 => gs[j].parent \in 1..(j - 1) /\ gs[j].gen \in 1..gs[gs[j].parent].spawnGen
    <3>1. /\ j = 1 => fs[j].parent = 0
          /\ j # 1 => fs[j].parent \in 1..(j - 1) /\ fs[j].gen \in 1..fs[fs[j].parent].spawnGen
      BY <1>1 DEF FramesFit
    <3>2. j # 1 => /\ fs[j].parent \in 1..n
                   /\ gs[fs[j].parent].spawnGen \in
                        {fs[fs[j].parent].spawnGen, fs[fs[j].parent].spawnGen + 1}
                   /\ fs[fs[j].parent].spawnGen \in Nat
      <4> SUFFICES ASSUME j # 1
                   PROVE  /\ fs[j].parent \in 1..n
                          /\ gs[fs[j].parent].spawnGen \in
                               {fs[fs[j].parent].spawnGen, fs[fs[j].parent].spawnGen + 1}
                          /\ fs[fs[j].parent].spawnGen \in Nat
        OBVIOUS
      <4>1. fs[j].parent \in 1..n
        BY <1>1, <2>2, <3>1
      <4>2. fs[fs[j].parent] \in FrameRecord
        BY <1>1, <4>1, FrameFacts
      <4> QED
        BY <1>11, <4>1, <4>2 DEF FrameRecord
    <3> QED
      BY <1>11, <2>2, <3>1, <3>2
  <2>3. ASSUME NEW j \in (n + 1)..(n + q)
        PROVE  j # 1 /\ gs[j].parent \in 1..(j - 1) /\ gs[j].gen \in 1..gs[gs[j].parent].spawnGen
    BY <1>1, <1>2, <1>9, <1>11, <2>3
  <2> QED
    BY <1>7, <1>10, <2>1, <2>2, <2>3 DEF FramesFit
<1>13. \A p \in 1..n : p # i => Children(gs, p) = Children(fs, p)
  <2> SUFFICES ASSUME NEW p \in 1..n, p # i
               PROVE  Children(gs, p) = Children(fs, p)
    OBVIOUS
  <2>1. \A k \in Children(gs, p) : k \in 1..n
    BY <1>9, <1>10 DEF Children
  <2>2. 1..n \subseteq DOMAIN gs
    BY <1>1, <1>7
  <2> QED
    BY <1>1, <1>11, <2>1, <2>2 DEF Children
<1>14. Children(gs, i) = (n + 1)..(n + q)
  <2>1. gs[i].spawnGen = fs[i].spawnGen + 1
    BY <1>1, <1>11
  <2>2. \A k \in 1..n : k \notin Children(gs, i)
    <3> SUFFICES ASSUME NEW k \in 1..n, fs[k].parent = i, fs[k].gen = fs[i].spawnGen + 1
                 PROVE  FALSE
      BY <1>11, <2>1 DEF Children
    <3>1. k # 1 /\ fs[k].gen \in 1..fs[i].spawnGen
      BY <1>1 DEF FramesFit
    <3> QED
      BY <1>2, <3>1
  <2>3. (n + 1)..(n + q) \subseteq DOMAIN gs
    BY <1>1, <1>7
  <2> QED
    BY <1>9, <1>10, <2>1, <2>2, <2>3 DEF Children
<1>15. \A p \in (n + 1)..(n + q) : Children(gs, p) = {}
  <2> SUFFICES ASSUME NEW p \in (n + 1)..(n + q), NEW k \in DOMAIN gs, gs[k].parent = p
               PROVE  gs[k].gen # gs[p].spawnGen
    BY DEF Children
  <2>1. k # 1
    BY <1>1, <1>12 DEF FramesFit
  <2>2. gs[k].gen \in 1..gs[p].spawnGen
    BY <1>12, <2>1 DEF FramesFit
  <2> QED
    BY <1>9, <2>2
<1>16. JoinsEnded(fs) => JoinsEnded(gs)
  <2> SUFFICES ASSUME JoinsEnded(fs), NEW p \in DOMAIN gs, gs[p].status # "JOIN", ~CutIn(gs, p),
                      NEW k \in Children(gs, p)
               PROVE  Terminal(gs[k]) \/ gs[k].stray
    BY DEF JoinsEnded
  <2>1. CASE p = i
    BY <1>1, <1>8, <1>9, <1>14, <2>1
  <2>11. CASE p # i
    <3>1. p \in 1..n
      BY <1>10, <1>15
    <3>2. gs[p] = fs[p] /\ Children(gs, p) = Children(fs, p)
      BY <1>8, <1>13, <2>11, <3>1
    <3>3. ~CutIn(fs, p)
      <4> SUFFICES ASSUME CutIn(fs, p) PROVE FALSE
        OBVIOUS
      <4> DEFINE u == fs[p].parent
      <4>1. u \in 1..n /\ fs[p].status = "FAILED" /\ p # 1
        BY <1>1, <3>1, FrameFacts DEF CutIn
      <4>2. CASE u # i
        <5>1. gs[u] = fs[u] /\ Children(gs, u) = Children(fs, u)
          BY <1>8, <1>13, <4>1, <4>2
        <5> QED
          BY <3>2, <4>1, <5>1 DEF CutIn
      <4>3. CASE u = i
        <5>1. p \notin Children(gs, i)
          BY <1>1, <1>14, <3>1
        <5> QED
          BY <3>2, <4>1, <4>3, <5>1 DEF CutIn
      <4> QED
        BY <4>2, <4>3
    <3>4. k \in 1..n /\ (Terminal(fs[k]) \/ fs[k].stray)
      BY <1>1, <3>1, <3>2, <3>3 DEF JoinsEnded, Children
    <3>5. CASE k = i
      BY <1>8, <3>4, <3>5 DEF Terminal
    <3>6. CASE k # i
      BY <1>8, <3>4, <3>6
    <3> QED
      BY <3>5, <3>6
  <2> QED
    BY <2>1, <2>11
<1>17. WithinLimits(fs) => WithinLimits(gs)
  <2> SUFFICES ASSUME WithinLimits(fs), NEW p \in DOMAIN gs, gs[p].status = "JOIN",
                      Def[gs[p].state].limit > 0
               PROVE  Cardinality(UnderWay(gs, p)) <= Ceiling(gs[p].state)
    BY DEF WithinLimits
  <2>1. p \in 1..n
    BY <1>9, <1>10
  <2>2. CASE p = i
    <3>1. gs[p].state = fs[i].state
      BY <1>2, <1>8, <2>1, <2>2
    <3>2. UnderWay(gs, p) \subseteq (n + 1)..(n + s.limit)
      <4> SUFFICES ASSUME NEW k \in UnderWay(gs, p)
                   PROVE  k \in (n + 1)..(n + s.limit)
        OBVIOUS
      <4>1. k \in (n + 1)..(n + q) /\ gs[k].status # "PENDING"
        BY <1>14, <2>2 DEF UnderWay
      <4>2. s.limit > 0
        BY <3>1 DEF s
      <4>3. ~(k > n + s.limit)
        BY <1>9, <4>1, <4>2
      <4> QED
        BY <1>1, <4>1, <4>3
    <3>3. IsFiniteSet((n + 1)..(n + s.limit)) /\ Cardinality((n + 1)..(n + s.limit)) = s.limit
      BY <1>1, IntervalCount
    <3>4. Cardinality(UnderWay(gs, p)) <= s.limit
      BY <3>2, <3>3, FS_Subset
    <3>5. IsFiniteSet(UnderWay(gs, p)) /\ Cardinality(UnderWay(gs, p)) \in Nat
      BY <3>2, <3>3, FS_Subset, FS_CardinalityType
    <3>6. fs[i].state \in Names
      BY <1>1 DEF FrameRecord
    <3>7. s.limit <= Ceiling(fs[i].state) /\ s.limit \in Nat /\ Ceiling(fs[i].state) \in Nat
      BY <3>6, CeilingIs DEF s
    <3> HIDE DEF s
    <3> QED
      BY <3>1, <3>4, <3>5, <3>7
  <2>3. CASE p # i
    <3>1. gs[p] = fs[p] /\ Children(gs, p) = Children(fs, p)
      BY <1>8, <1>13, <2>1, <2>3
    <3>2. UnderWay(gs, p) \subseteq UnderWay(fs, p)
      <4> SUFFICES ASSUME NEW k \in UnderWay(gs, p)
                   PROVE  k \in UnderWay(fs, p)
        OBVIOUS
      <4>1. k \in 1..n /\ k \in Children(fs, p) /\ ~Terminal(gs[k]) /\ gs[k].status # "PENDING"
        BY <1>1, <3>1 DEF UnderWay, Children
      <4>2. CASE k = i
        BY <4>1, <4>2 DEF UnderWay, Terminal
      <4>3. CASE k # i
        BY <1>8, <4>1, <4>3 DEF UnderWay
      <4> QED
        BY <4>2, <4>3
    <3>3. IsFiniteSet(UnderWay(fs, p))
      BY <1>1, <2>1, FrameFacts, FS_Subset DEF UnderWay
    <3>4. /\ Cardinality(UnderWay(gs, p)) <= Cardinality(UnderWay(fs, p))
          /\ Cardinality(UnderWay(gs, p)) \in Nat /\ Cardinality(UnderWay(fs, p)) \in Nat
      BY <3>2, <3>3, FS_Subset, FS_CardinalityType
    <3>5. Cardinality(UnderWay(fs, p)) <= Ceiling(fs[p].state)
      BY <1>1, <2>1, <3>1 DEF WithinLimits
    <3>6. Ceiling(fs[p].state) \in Nat
      <4>1. fs[p] \in FrameRecord
        BY <1>1, <2>1, FrameFacts
      <4>2. fs[p].state \in Names
        BY <4>1 DEF FrameRecord
      <4> QED
        BY <4>2, CeilingIs
    <3> QED
      BY <3>1, <3>4, <3>5, <3>6
  <2> QED
    BY <2>2, <2>3
<1>18. /\ DOMAIN fs \subseteq DOMAIN gs
       /\ \A j \in DOMAIN gs \ DOMAIN fs :
            /\ gs[j].token = 0 /\ gs[j].status \in {"PENDING", "RUNNABLE"}
            /\ gs[j].parent = i /\ gs[j].gen = h.spawnGen
  BY <1>1, <1>7, <1>9, <1>10
<1>19. DOMAIN gs \ DOMAIN fs = (n + 1)..(n + q)
  BY <1>1, <1>7
<1>20. \A k \in DOMAIN gs \ DOMAIN fs : gs[k].status = "PENDING" => s.limit > 0
  BY <1>9, <1>19
<1>21. q > 0 => \E k \in DOMAIN gs \ DOMAIN fs : gs[k].status = "RUNNABLE"
  <2> SUFFICES ASSUME q > 0 PROVE gs[n + 1].status = "RUNNABLE" /\ n + 1 \in (n + 1)..(n + q)
    BY <1>19
  <2>1. n + 1 \in (n + 1)..(n + q)
    BY <1>1
  <2>2. ~(s.limit > 0 /\ n + 1 > n + s.limit)
    BY <1>1
  <2> QED
    BY <1>9, <2>1, <2>2
<1>22. (\A p \in DOMAIN fs : p # i => Children(gs, p) = Children(fs, p))
       /\ Children(gs, i) = DOMAIN gs \ DOMAIN fs
  BY <1>1, <1>13, <1>14, <1>19
<1>23. gs = Fanned(i, h, q, stray)
  BY DEF gs, hs, sp, Fanned
<1> QED
  BY <1>1, <1>8, <1>12, <1>16, <1>17, <1>18, <1>20, <1>21, <1>22, <1>23 DEF s

\* The pending children of p before k.
Before(p, k) == {j \in Children(frames, p) : frames[j].status = "PENDING" /\ j < k}

\* The children that PromotePending starts.
Promotes(p) ==
  {k \in Children(frames, p) :
     /\ frames[k].status = "PENDING" /\ Def[frames[p].state].kept > 0
     /\ Cardinality(UnderWay(frames, p)) + Cardinality(Before(p, k))
          < Def[frames[p].state].kept}

\* PromotePending starts these children and leaves the others alone.
LEMMA PromotedIs ==
  ASSUME FramesFit(frames), NEW p \in DOMAIN frames
  PROVE  /\ DOMAIN Promoted(p) = DOMAIN frames
         /\ \A k \in DOMAIN frames :
              Promoted(p)[k] = IF k \in Promotes(p) THEN [frames[k] EXCEPT !.status = "RUNNABLE"]
                               ELSE frames[k]
<1> DEFINE kids == Children(frames, p)
           limit == Def[frames[p].state].kept
           going == {k \in kids : ~Terminal(frames[k]) /\ frames[k].status # "PENDING"}
           Starts(k) ==
             /\ k \in kids /\ frames[k].status = "PENDING" /\ limit > 0
             /\ Cardinality(going)
                  + Cardinality({j \in kids : frames[j].status = "PENDING" /\ j < k}) < limit
<1>1. Promoted(p) = [k \in DOMAIN frames |->
                       IF Starts(k) THEN [frames[k] EXCEPT !.status = "RUNNABLE"] ELSE frames[k]]
  BY DEF Promoted
<1>2. ASSUME NEW k PROVE Starts(k) <=> k \in Promotes(p)
  BY DEF Promotes, Before, UnderWay
<1> HIDE DEF Starts
<1> QED
  BY <1>1, <1>2

\* They are no more than MaxConcurrency leaves room for.
LEMMA StartedFit ==
  ASSUME FramesFit(frames), NEW p \in DOMAIN frames,
         Cardinality(UnderWay(frames, p)) <= Ceiling(frames[p].state)
  PROVE  Cardinality(UnderWay(frames, p) \cup Promotes(p)) <= Ceiling(frames[p].state)
<1> DEFINE A == UnderWay(frames, p)
           St == Promotes(p)
           L == Def[frames[p].state].kept
           C == Ceiling(frames[p].state)
<1>0. L \in Nat /\ C \in Nat /\ L <= C
  <2>1. frames[p].state \in Names
    BY FrameFacts DEF FrameRecord
  <2> QED
    BY <2>1, CeilingIs
<1>1. /\ IsFiniteSet(Children(frames, p)) /\ Children(frames, p) \subseteq Nat
      /\ IsFiniteSet(A) /\ IsFiniteSet(St) /\ St \subseteq Nat
      /\ Cardinality(A) \in Nat
  <2>1. IsFiniteSet(Children(frames, p))
    BY FrameFacts
  <2>2. Children(frames, p) \subseteq Nat
    BY FrameFacts DEF Children
  <2>3. A \subseteq Children(frames, p) /\ St \subseteq Children(frames, p)
    BY DEF UnderWay, Promotes
  <2> HIDE DEF A, St
  <2>4. IsFiniteSet(A) /\ IsFiniteSet(St)
    BY <2>1, <2>3, FS_Subset
  <2> QED
    BY <2>1, <2>2, <2>3, <2>4, FS_CardinalityType
<1>2. CASE St = {}
  <2>1. A \cup St = A
    BY <1>2
  <2> QED
    BY <2>1
<1>3. CASE St # {}
  <2>1. PICK m \in St : \A y \in St : m >= y
    <3> HIDE DEF St
    <3> QED
      BY <1>1, <1>3, HighestName
  <2> DEFINE B == Before(p, m)
  <2>2. St \subseteq B \cup {m}
    <3> SUFFICES ASSUME NEW y \in St, y # m
                 PROVE  y \in B
      OBVIOUS
    <3>1. y \in Nat /\ m \in Nat /\ m >= y
      BY <1>1, <2>1
    <3>2. y \in Children(frames, p) /\ frames[y].status = "PENDING"
      BY DEF Promotes
    <3> QED
      BY <3>1, <3>2 DEF Before
  <2>3. Cardinality(A) + Cardinality(B) < L
    BY DEF Promotes
  <2>4. B \subseteq Children(frames, p)
    BY DEF Before
  <2> HIDE DEF A, St, L, B, C
  <2>5. IsFiniteSet(B) /\ Cardinality(B) \in Nat
    BY <1>1, <2>4, FS_Subset, FS_CardinalityType
  <2>6. IsFiniteSet(B \cup {m}) /\ Cardinality(B \cup {m}) <= Cardinality(B) + 1
    <3>1. /\ IsFiniteSet(B \cup {m})
          /\ Cardinality(B \cup {m}) = IF m \in B THEN Cardinality(B) ELSE Cardinality(B) + 1
      BY <2>5, FS_AddElement
    <3> QED
      BY <2>5, <3>1
  <2>7. Cardinality(St) <= Cardinality(B \cup {m}) /\ Cardinality(St) \in Nat
        /\ Cardinality(B \cup {m}) \in Nat
    BY <1>1, <2>2, <2>6, FS_Subset, FS_CardinalityType
  <2>8. /\ Cardinality(A \cup St) = Cardinality(A) + Cardinality(St) - Cardinality(A \cap St)
        /\ Cardinality(A \cap St) \in Nat
    <3>1. IsFiniteSet(A \cap St)
      BY <1>1, FS_Subset
    <3> QED
      BY <1>1, <3>1, FS_Union, FS_CardinalityType
  <2>9. Cardinality(A \cup St) <= C
    BY <1>0, <1>1, <2>3, <2>5, <2>6, <2>7, <2>8
  <2> QED
    BY <2>9 DEF A, St, C
<1> QED
  BY <1>2, <1>3

\* PromotePending keeps the tree, the joins and the limit.
LEMMA PromotedFit ==
  ASSUME FramesFit(frames), NEW p \in DOMAIN frames
  PROVE  /\ SameTree(frames, Promoted(p))
         /\ \A k \in DOMAIN frames :
              \/ Promoted(p)[k] = frames[k]
              \/ /\ frames[k].status = "PENDING" /\ Promoted(p)[k].status = "RUNNABLE"
                 /\ Promoted(p)[k].token = frames[k].token
                 /\ Promoted(p)[k].state = frames[k].state
         /\ JoinsEnded(frames) => JoinsEnded(Promoted(p))
         /\ WithinLimits(frames) => WithinLimits(Promoted(p))
<1> DEFINE fs == frames
           gs == Promoted(p)
<1>1. /\ DOMAIN gs = DOMAIN fs
      /\ \A k \in DOMAIN fs :
           gs[k] = IF k \in Promotes(p) THEN [fs[k] EXCEPT !.status = "RUNNABLE"] ELSE fs[k]
  BY PromotedIs
<1>2. \A k \in Promotes(p) : k \in Children(fs, p) /\ k \in DOMAIN fs /\ fs[k].status = "PENDING"
  BY DEF Promotes, Children
<1>3. ASSUME NEW f \in FrameRecord
      PROVE  LET g == [f EXCEPT !.status = "RUNNABLE"]
             IN  /\ g \in FrameRecord /\ SamePlace(f, g) /\ g.status = "RUNNABLE"
                 /\ g.token = f.token /\ g.state = f.state
  BY DEF FrameRecord, FrameStatus, SamePlace
<1>4. \A k \in DOMAIN fs : fs[k] \in FrameRecord
  BY FrameFacts
<1> HIDE DEF gs
<1>5. \A k \in DOMAIN fs : gs[k] \in FrameRecord /\ SamePlace(fs[k], gs[k])
  BY <1>1, <1>3, <1>4 DEF SamePlace
<1>6. \A k \in DOMAIN fs :
        \/ gs[k] = fs[k]
        \/ /\ fs[k].status = "PENDING" /\ gs[k].status = "RUNNABLE"
           /\ gs[k].token = fs[k].token /\ gs[k].state = fs[k].state
  <2> SUFFICES ASSUME NEW k \in DOMAIN fs, k \in Promotes(p)
               PROVE  /\ fs[k].status = "PENDING" /\ gs[k].status = "RUNNABLE"
                      /\ gs[k].token = fs[k].token /\ gs[k].state = fs[k].state
    BY <1>1
  <2>1. gs[k] = [fs[k] EXCEPT !.status = "RUNNABLE"]
    BY <1>1
  <2> QED
    BY <1>2, <1>3, <1>4, <2>1
<1>7. SameTree(fs, gs)
  <2>1. gs = [k \in DOMAIN fs |-> gs[k]]
    BY DEF gs, Promoted
  <2>2. gs \in [DOMAIN fs -> FrameRecord]
    BY <1>5, <2>1
  <2> QED
    BY <1>5, <2>2, MappedTree DEF SamePlace
<1>8. JoinsEnded(fs) => JoinsEnded(gs)
  BY <1>6, <1>7, EndedStays DEF Terminal
<1>9. ASSUME WithinLimits(fs) PROVE WithinLimits(gs)
  <2> SUFFICES ASSUME NEW q \in DOMAIN fs, gs[q].status = "JOIN", Def[gs[q].state].limit > 0
               PROVE  Cardinality(UnderWay(gs, q)) <= Ceiling(gs[q].state)
    BY <1>1 DEF WithinLimits
  <2>1. Children(gs, q) = Children(fs, q)
    BY <1>7, SameTreeFits
  <2>2. gs[q] = fs[q]
    BY <1>6
  <2>3. Ceiling(fs[q].state) \in Nat
    <3>1. fs[q].state \in Names
      BY <1>4 DEF FrameRecord
    <3> QED
      BY <3>1, CeilingIs
  <2>4. Cardinality(UnderWay(fs, q)) <= Ceiling(fs[q].state)
    BY <1>9, <2>2 DEF WithinLimits
  <2>5. CASE q # p
    <3>1. \A k \in Children(fs, q) : k \in DOMAIN fs /\ gs[k] = fs[k]
      BY <1>1, <1>2, <2>5 DEF Children
    <3>2. UnderWay(gs, q) = UnderWay(fs, q)
      BY <2>1, <3>1 DEF UnderWay
    <3> QED
      BY <2>2, <2>4, <3>2
  <2>6. CASE q = p
    <3>1. UnderWay(gs, p) \subseteq UnderWay(fs, p) \cup Promotes(p)
      <4> SUFFICES ASSUME NEW k \in UnderWay(gs, p), k \notin Promotes(p)
                   PROVE  k \in UnderWay(fs, p)
        OBVIOUS
      <4>1. k \in Children(fs, p) /\ k \in DOMAIN fs
        BY <2>1, <2>6 DEF UnderWay, Children
      <4>2. gs[k] = fs[k]
        BY <1>1, <4>1
      <4> QED
        BY <4>1, <4>2 DEF UnderWay
    <3>2. Cardinality(UnderWay(fs, p) \cup Promotes(p)) <= Ceiling(fs[p].state)
      BY <2>2, <2>4, <2>6, StartedFit
    <3>3. IsFiniteSet(UnderWay(fs, p) \cup Promotes(p))
      <4>1. UnderWay(fs, p) \cup Promotes(p) \subseteq Children(fs, p)
        BY DEF UnderWay, Promotes
      <4> QED
        BY <4>1, FrameFacts, FS_Subset
    <3>4. /\ Cardinality(UnderWay(gs, p)) <= Cardinality(UnderWay(fs, p) \cup Promotes(p))
          /\ Cardinality(UnderWay(gs, p)) \in Nat
          /\ Cardinality(UnderWay(fs, p) \cup Promotes(p)) \in Nat
      BY <3>1, <3>3, FS_Subset, FS_CardinalityType
    <3> QED
      BY <2>2, <2>3, <2>6, <3>2, <3>4
  <2> QED
    BY <2>5, <2>6
<1> QED
  BY <1>6, <1>7, <1>8, <1>9 DEF gs

\* A join that ends fails the branches that are left, and the frame goes on.
LEMMA JoinedFit ==
  ASSUME NEW fs, FramesFit(fs), NEW p \in DOMAIN fs, fs[p].status = "JOIN", NEW ok \in BOOLEAN,
         NEW g \in Delivered(fs[p], ok)
  PROVE  LET as == Abandoned(fs, p)
             gs == [as EXCEPT ![p] = g]
         IN  /\ SameTree(fs, gs) /\ as[p] = fs[p] /\ gs[p] = g
             /\ \A k \in DOMAIN fs : k # p =>
                  \/ gs[k] = fs[k]
                  \/ /\ k \in Children(fs, p) /\ gs[k].status = "FAILED"
                     /\ gs[k].token = fs[k].token /\ gs[k].state = fs[k].state
             /\ JoinsEnded(fs) => JoinsEnded(gs)
             /\ WithinLimits(fs) => WithinLimits(gs)
<1> DEFINE as == Abandoned(fs, p)
           gs == [as EXCEPT ![p] = g]
           Left(k) == k \in Children(fs, p) /\ ~Terminal(fs[k])
<1>1. /\ DOMAIN as = DOMAIN fs
      /\ \A k \in DOMAIN fs : as[k] = IF Left(k) THEN [fs[k] EXCEPT !.status = "FAILED"] ELSE fs[k]
  BY DEF Abandoned
<1>2. \A k \in DOMAIN fs : fs[k] \in FrameRecord
  BY FrameFacts
<1>3. p \notin Children(fs, p)
  BY FrameFacts
<1>4. as[p] = fs[p]
  BY <1>1, <1>3
<1>5. gs = [k \in DOMAIN fs |-> IF k = p THEN g ELSE as[k]]
  BY <1>1, <1>4
<1>6. /\ g \in FrameRecord /\ SamePlace(fs[p], g)
      /\ g.status \in {"RUNNABLE", "RETRY_WAIT", "DONE", "FAILED"}
  BY <1>2, DeliveredFrame DEF Moved
<1>7. ASSUME NEW f \in FrameRecord
      PROVE  LET h == [f EXCEPT !.status = "FAILED"]
             IN  /\ h \in FrameRecord /\ SamePlace(f, h) /\ h.status = "FAILED"
                 /\ h.token = f.token /\ h.state = f.state
  BY DEF FrameRecord, FrameStatus, SamePlace
<1> HIDE DEF as, gs
<1>8. ASSUME NEW k \in DOMAIN fs, k # p
      PROVE  /\ gs[k] \in FrameRecord /\ SamePlace(fs[k], gs[k])
             /\ ~Left(k) => gs[k] = fs[k]
             /\ Left(k) => /\ gs[k].status = "FAILED" /\ gs[k].token = fs[k].token
                           /\ gs[k].state = fs[k].state
  <2>1. CASE Left(k)
    <3>1. gs[k] = [fs[k] EXCEPT !.status = "FAILED"]
      BY <1>1, <1>5, <1>8, <2>1
    <3> HIDE DEF Left
    <3> QED
      BY <1>2, <1>7, <2>1, <3>1
  <2>2. CASE ~Left(k)
    <3>1. gs[k] = fs[k]
      BY <1>1, <1>5, <1>8, <2>2
    <3> QED
      BY <1>2, <2>2, <3>1 DEF SamePlace
  <2> QED
    BY <2>1, <2>2
<1>9. gs[p] = g
  BY <1>5
<1>10. SameTree(fs, gs)
  <2>1. \A k \in DOMAIN fs : gs[k] \in FrameRecord /\ SamePlace(fs[k], gs[k])
    BY <1>6, <1>8, <1>9
  <2>2. gs \in [DOMAIN fs -> FrameRecord]
    BY <1>5, <2>1
  <2> QED
    BY <2>1, <2>2, MappedTree DEF SamePlace
<1>11. \A k \in DOMAIN fs : Terminal(fs[k]) => gs[k] = fs[k]
  BY <1>8 DEF Terminal
<1>12. \A k \in DOMAIN fs : gs[k].status = "JOIN" => fs[k].status = "JOIN" /\ gs[k] = fs[k]
  BY <1>6, <1>8, <1>9
<1>13. \A k \in Children(fs, p) : k \in DOMAIN fs /\ Terminal(gs[k])
  BY <1>3, <1>8 DEF Children, Terminal
<1>14. ASSUME NEW q \in DOMAIN fs, fs[q].status = "JOIN", gs[q].status # "JOIN"
       PROVE  CutIn(gs, q) \/ \A k \in Children(fs, q) : Terminal(gs[k])
  <2>1. CASE q = p
    BY <1>13, <2>1
  <2>2. CASE q # p
    <3>1. Left(q) /\ gs[q].status = "FAILED" /\ SamePlace(fs[q], gs[q])
      BY <1>8, <1>14, <2>2
    <3>2. fs[q].parent = p
      BY <3>1 DEF Children
    <3>3. q # 1
      BY <3>2, FrameFacts DEF FramesFit
    <3>4. gs[q].parent = p /\ gs[p].status # "JOIN"
      BY <1>6, <1>9, <3>1, <3>2 DEF SamePlace
    <3> QED
      BY <3>1, <3>3, <3>4 DEF CutIn
  <2> QED
    BY <2>1, <2>2
<1>15. JoinsEnded(fs) => JoinsEnded(gs)
  BY <1>10, <1>11, <1>12, <1>14, EndedStays
<1>16. \A k \in DOMAIN fs : ~Terminal(gs[k]) /\ gs[k].status # "PENDING" =>
         ~Terminal(fs[k]) /\ fs[k].status # "PENDING"
  BY <1>8 DEF Terminal
<1>17. WithinLimits(fs) => WithinLimits(gs)
  BY <1>10, <1>12, <1>16, BoundedStays
<1>18. \A k \in DOMAIN fs : k # p =>
         \/ gs[k] = fs[k]
         \/ /\ k \in Children(fs, p) /\ gs[k].status = "FAILED"
            /\ gs[k].token = fs[k].token /\ gs[k].state = fs[k].state
  BY <1>8
<1> QED
  BY <1>4, <1>9, <1>10, <1>15, <1>17, <1>18 DEF as, gs

-----------------------------------------------------------------------------
(* The inductive invariant of an execution.                                *)

\* The tokens of frames: a frame has one only while it waits at a token state
\* or when it settled there, and while it waits the token leads to it.
Held(fs, toks, n) ==
  \A i \in DOMAIN fs :
    fs[i].token # 0 =>
      /\ fs[i].token < n /\ Def[fs[i].state].type = "token"
      /\ fs[i].status \in {"PARKED", "RETRY_WAIT", "DONE", "FAILED"}
      /\ fs[i].status \in {"PARKED", "RETRY_WAIT"} =>
           fs[i].token \in DOMAIN toks /\ toks[fs[i].token] = i

\* What the driver holds between its steps, and what others hold.
DriverFits ==
  /\ status \in {"RUNNING", "SUCCEEDED", "FAILED", "ABORTED"}
  /\ nudged \in BOOLEAN /\ busy \in BOOLEAN
  /\ nextCall \in Nat \ {0} /\ redrives \in Nat
  /\ joining \in {0} \cup DOMAIN frames
  /\ joining # 0 => busy /\ frames[joining].status = "JOIN"

OthersFit ==
  /\ inbox \subseteq Delivery /\ \A d \in inbox : d.frame \in DOMAIN frames
  /\ \A c \in calls : /\ c.frame \in DOMAIN frames /\ c.call \in Nat
                      /\ c.token \in Nat /\ c.attempt \in Nat
  /\ \A t \in DOMAIN tokens : tokens[t] \in DOMAIN frames /\ t \in Nat

SfnInv ==
  /\ FramesFit(frames) /\ DriverFits /\ OthersFit
  /\ Held(frames, tokens, nextCall)
  /\ redrives = 0 => JoinsEnded(frames) /\ WithinLimits(frames)

\* What ends a step of the driver.
LEMMA SaveFits ==
  ASSUME NEW fs, FramesFit(fs), NEW toJoin, Save(fs, toJoin),
         toJoin # 0 => toJoin \in DOMAIN fs /\ fs[toJoin].status = "JOIN"
  PROVE  /\ frames' = fs /\ status' \in {"RUNNING", "SUCCEEDED", "FAILED"}
         /\ busy' \in BOOLEAN /\ joining' \in {0} \cup DOMAIN fs
         /\ joining' # 0 => busy' /\ fs[joining'].status = "JOIN"
  BY DEF Save, StatusAfter

\* The parent whose join a settled frame leaves to be looked at.
LEMMA SettledJoins ==
  ASSUME NEW fs, FramesFit(fs), NEW i \in DOMAIN fs, SettledParent(fs, i) # 0
  PROVE  /\ SettledParent(fs, i) \in DOMAIN fs
         /\ fs[SettledParent(fs, i)].status = "JOIN"
  BY FrameFacts DEF SettledParent

\* The tokens of frames that keep theirs, lose it, or fail with it.
LEMMA HeldStays ==
  ASSUME NEW fs, NEW gs, NEW toks, NEW n, Held(fs, toks, n), DOMAIN fs \subseteq DOMAIN gs,
         \A k \in DOMAIN gs :
           \/ gs[k].token = 0
           \/ /\ k \in DOMAIN fs /\ gs[k].token = fs[k].token /\ gs[k].state = fs[k].state
              /\ gs[k].status = fs[k].status \/ gs[k].status \in {"DONE", "FAILED"}
  PROVE  Held(gs, toks, n)
<1> SUFFICES ASSUME NEW k \in DOMAIN gs, gs[k].token # 0
             PROVE  /\ gs[k].token < n /\ Def[gs[k].state].type = "token"
                    /\ gs[k].status \in {"PARKED", "RETRY_WAIT", "DONE", "FAILED"}
                    /\ gs[k].status \in {"PARKED", "RETRY_WAIT"} =>
                         gs[k].token \in DOMAIN toks /\ toks[gs[k].token] = k
  BY DEF Held
<1>1. k \in DOMAIN fs /\ gs[k].token = fs[k].token /\ gs[k].state = fs[k].state
  OBVIOUS
<1>2. /\ fs[k].token < n /\ Def[fs[k].state].type = "token"
      /\ fs[k].status \in {"PARKED", "RETRY_WAIT", "DONE", "FAILED"}
      /\ fs[k].status \in {"PARKED", "RETRY_WAIT"} =>
           fs[k].token \in DOMAIN toks /\ toks[fs[k].token] = k
  BY <1>1 DEF Held
<1> QED
  BY <1>1, <1>2

\* The tokens after a result.
LEMMA HeldAfter ==
  ASSUME NEW fs, FramesFit(fs), NEW n, Held(fs, tokens, n), NEW i \in DOMAIN fs,
         ~Terminal(fs[i]), NEW g, Moved(fs[i], g)
  PROVE  /\ Held([fs EXCEPT ![i] = g], TokensAfter(fs[i], g), n)
         /\ DOMAIN TokensAfter(fs[i], g) \subseteq DOMAIN tokens
         /\ \A t \in DOMAIN TokensAfter(fs[i], g) : TokensAfter(fs[i], g)[t] = tokens[t]
<1> DEFINE f == fs[i]
           toks == TokensAfter(f, g)
           gs == [fs EXCEPT ![i] = g]
<1>1. /\ g.status \in {"RUNNABLE", "RETRY_WAIT", "DONE", "FAILED"}
      /\ \/ g.token = 0
         \/ g.token = f.token /\ g.state = f.state /\ g.status # "RUNNABLE"
  BY DEF Moved
<1>2. gs[i] = g /\ DOMAIN gs = DOMAIN fs /\ \A j \in DOMAIN fs : j # i => gs[j] = fs[j]
  OBVIOUS
<1> HIDE DEF gs
<1>3. toks = IF f.token # 0 /\ (g.token # f.token \/ Terminal(g))
             THEN [t \in DOMAIN tokens \ {f.token} |-> tokens[t]] ELSE tokens
  BY DEF TokensAfter
<1>4. /\ DOMAIN toks \subseteq DOMAIN tokens /\ \A t \in DOMAIN toks : toks[t] = tokens[t]
      /\ \A t \in DOMAIN tokens : t # f.token \/ f.token = 0 => t \in DOMAIN toks
      /\ g.token = f.token /\ ~Terminal(g) => toks = tokens
  BY <1>3
<1> HIDE DEF toks
<1>5. f.token # 0 => /\ f.token < n /\ Def[f.state].type = "token"
                     /\ f.token \in DOMAIN tokens /\ tokens[f.token] = i
  BY DEF Held, Terminal
<1>6. ASSUME NEW j \in DOMAIN gs, gs[j].token # 0
      PROVE  /\ gs[j].token < n /\ Def[gs[j].state].type = "token"
             /\ gs[j].status \in {"PARKED", "RETRY_WAIT", "DONE", "FAILED"}
             /\ gs[j].status \in {"PARKED", "RETRY_WAIT"} =>
                  gs[j].token \in DOMAIN toks /\ toks[gs[j].token] = j
  <2>1. CASE j = i
    <3>1. gs[j] = g /\ g.token = f.token /\ g.state = f.state /\ f.token # 0
      BY <1>1, <1>2, <1>6, <2>1
    <3>2. g.status \in {"RETRY_WAIT", "DONE", "FAILED"}
      BY <1>1, <3>1
    <3>3. g.status = "RETRY_WAIT" => toks = tokens
      BY <1>4, <3>1 DEF Terminal
    <3> QED
      BY <1>5, <2>1, <3>1, <3>2, <3>3
  <2>2. CASE j # i
    <3>1. gs[j] = fs[j] /\ j \in DOMAIN fs
      BY <1>2, <1>6, <2>2
    <3>2. /\ fs[j].token < n /\ Def[fs[j].state].type = "token"
          /\ fs[j].status \in {"PARKED", "RETRY_WAIT", "DONE", "FAILED"}
          /\ fs[j].status \in {"PARKED", "RETRY_WAIT"} =>
               fs[j].token \in DOMAIN tokens /\ tokens[fs[j].token] = j
      BY <1>6, <3>1 DEF Held
    <3>3. fs[j].status \in {"PARKED", "RETRY_WAIT"} => fs[j].token # f.token
      BY <1>5, <1>6, <2>2, <3>1, <3>2
    <3>4. fs[j].status \in {"PARKED", "RETRY_WAIT"} =>
            fs[j].token \in DOMAIN toks /\ toks[fs[j].token] = j
      BY <1>4, <3>2, <3>3
    <3> QED
      BY <3>1, <3>2, <3>4
  <2> QED
    BY <2>1, <2>2
<1>7. Held(gs, toks, n)
  BY <1>6 DEF Held
<1> QED
  BY <1>4, <1>7 DEF gs, toks

\* A step of the driver that ends with its save.
LEMMA DriverStep ==
  ASSUME SfnInv, NEW gs, FramesFit(gs), DOMAIN frames \subseteq DOMAIN gs,
         NEW toJoin, Save(gs, toJoin),
         toJoin # 0 => toJoin \in DOMAIN gs /\ gs[toJoin].status = "JOIN",
         UNCHANGED <<nudged, redrives>>, inbox' \subseteq inbox, nextCall' \in Nat \ {0},
         \A c \in calls' : \/ c \in calls
                           \/ /\ c.frame \in DOMAIN gs /\ c.call \in Nat
                              /\ c.token \in Nat /\ c.attempt \in Nat,
         \A t \in DOMAIN tokens' : \/ t \in DOMAIN tokens /\ tokens'[t] = tokens[t]
                                   \/ t \in Nat /\ tokens'[t] \in DOMAIN gs,
         Held(gs, tokens', nextCall'),
         redrives = 0 => JoinsEnded(gs) /\ WithinLimits(gs)
  PROVE  SfnInv'
<1>1. /\ frames' = gs /\ status' \in {"RUNNING", "SUCCEEDED", "FAILED"}
      /\ busy' \in BOOLEAN /\ joining' \in {0} \cup DOMAIN gs
      /\ joining' # 0 => busy' /\ gs[joining'].status = "JOIN"
  BY SaveFits
<1>2. DriverFits'
  BY <1>1 DEF SfnInv, DriverFits
<1>3. OthersFit'
  <2>1. inbox' \subseteq Delivery /\ \A d \in inbox' : d.frame \in DOMAIN gs
    BY DEF SfnInv, OthersFit
  <2>2. \A c \in calls' : /\ c.frame \in DOMAIN gs /\ c.call \in Nat
                          /\ c.token \in Nat /\ c.attempt \in Nat
    BY DEF SfnInv, OthersFit
  <2>3. \A t \in DOMAIN tokens' : tokens'[t] \in DOMAIN gs /\ t \in Nat
    BY DEF SfnInv, OthersFit
  <2> QED
    BY <1>1, <2>1, <2>2, <2>3 DEF OthersFit
<1>4. FramesFit(frames') /\ Held(frames', tokens', nextCall')
      /\ (redrives' = 0 => JoinsEnded(frames') /\ WithinLimits(frames'))
  BY <1>1
<1> QED
  BY <1>2, <1>3, <1>4 DEF SfnInv

\* The first state.
LEMMA SfnInitInv == SfnInit => SfnInv
<1> SUFFICES ASSUME SfnInit PROVE SfnInv
  OBVIOUS
<1> DEFINE f == At(First, "RUNNABLE", 0, 0)
<1>1. /\ f \in FrameRecord /\ f.parent = 0 /\ f.gen = 0 /\ f.token = 0
      /\ f.status = "RUNNABLE" /\ f.spawnGen = 0
  BY SfnAssumption DEF At, FrameRecord, FrameStatus
<1> HIDE DEF f
<1>2. frames = <<f>>
  BY DEF SfnInit, f
<1>3. frames \in Seq(FrameRecord) /\ Len(frames) = 1 /\ DOMAIN frames = {1} /\ frames[1] = f
  BY <1>1, <1>2
<1>4. FramesFit(frames)
  BY <1>1, <1>3, SfnAssumption DEF FramesFit
<1>5. \A p \in DOMAIN frames : Children(frames, p) = {}
  BY <1>1, <1>3 DEF Children
<1>6. JoinsEnded(frames) /\ WithinLimits(frames)
  <2>1. JoinsEnded(frames)
    BY <1>5 DEF JoinsEnded
  <2>2. WithinLimits(frames)
    BY <1>1, <1>3 DEF WithinLimits
  <2> QED
    BY <2>1, <2>2
<1>7. Held(frames, tokens, nextCall)
  BY <1>1, <1>3 DEF Held
<1>8. DriverFits /\ OthersFit
  <2>1. DriverFits
    <3>1. /\ status = "RUNNING" /\ nudged = TRUE /\ busy = FALSE /\ joining = 0
          /\ nextCall = 1 /\ redrives = 0
      BY DEF SfnInit
    <3>2. nextCall \in Nat \ {0} /\ redrives \in Nat
      BY <3>1
    <3>3. nudged \in BOOLEAN /\ busy \in BOOLEAN
      BY <3>1, Zenon
    <3> QED
      BY <3>1, <3>2, <3>3 DEF DriverFits
  <2>2. DOMAIN tokens = {}
    BY DEF SfnInit
  <2>3. OthersFit
    BY <2>2 DEF SfnInit, OthersFit
  <2> QED
    BY <2>1, <2>3
<1> QED
  BY <1>4, <1>6, <1>7, <1>8 DEF SfnInv

\* A result goes into a frame that waits for one.
LEMMA DeliverInv ==
  ASSUME SfnInv, NEW i \in DOMAIN frames, ~Terminal(frames[i]),
         frames[i].status \notin {"PENDING", "JOIN"}, NEW ok \in BOOLEAN,
         Deliver(frames, i, ok), UNCHANGED <<nudged, calls, nextCall, redrives>>,
         inbox' \subseteq inbox
  PROVE  SfnInv'
<1>0. PICK g \in Delivered(frames[i], ok) :
        /\ tokens' = TokensAfter(frames[i], g)
        /\ Save([frames EXCEPT ![i] = g], SettledParent([frames EXCEPT ![i] = g], i))
  BY DEF Deliver
<1> DEFINE gs == [frames EXCEPT ![i] = g]
<1>1. FramesFit(frames) /\ Held(frames, tokens, nextCall) /\ nextCall \in Nat \ {0}
  BY DEF SfnInv, DriverFits
<1>2. /\ Moved(frames[i], g) /\ g \in FrameRecord /\ SamePlace(frames[i], g)
      /\ g.status \in {"RUNNABLE", "RETRY_WAIT", "DONE", "FAILED"}
  <2>1. frames[i] \in FrameRecord
    BY <1>1, FrameFacts
  <2> QED
    BY <2>1, DeliveredFrame DEF Moved
<1>3. tokens' = TokensAfter(frames[i], g) /\ Save(gs, SettledParent(gs, i))
  BY <1>0
<1>4. /\ Held(gs, TokensAfter(frames[i], g), nextCall)
      /\ DOMAIN TokensAfter(frames[i], g) \subseteq DOMAIN tokens
      /\ \A t \in DOMAIN TokensAfter(frames[i], g) : TokensAfter(frames[i], g)[t] = tokens[t]
  BY <1>1, <1>2, HeldAfter
<1>5. /\ FramesFit(gs) /\ SameTree(frames, gs)
      /\ JoinsEnded(frames) => JoinsEnded(gs)
      /\ WithinLimits(frames) => WithinLimits(gs)
  BY <1>1, <1>2, FrameMoves
<1>6. DOMAIN gs = DOMAIN frames
  OBVIOUS
<1> HIDE DEF gs
<1>7. SettledParent(gs, i) # 0 =>
        SettledParent(gs, i) \in DOMAIN gs /\ gs[SettledParent(gs, i)].status = "JOIN"
  BY <1>5, <1>6, SettledJoins
<1>8. redrives = 0 => JoinsEnded(gs) /\ WithinLimits(gs)
  BY <1>5 DEF SfnInv
<1>9. \A t \in DOMAIN tokens' : t \in DOMAIN tokens /\ tokens'[t] = tokens[t]
  BY <1>3, <1>4
<1>10. Held(gs, tokens', nextCall')
  BY <1>3, <1>4
<1> QED
  BY <1>1, <1>3, <1>5, <1>6, <1>7, <1>8, <1>9, <1>10, DriverStep

\* A frame calls its task.
LEMMA DispatchInv ==
  ASSUME SfnInv, NEW i \in DOMAIN frames, NEW f \in FrameRecord, SamePlace(frames[i], f),
         ~Terminal(frames[i]), frames[i].status \notin {"PENDING", "JOIN"},
         f.status \in {"CALLING", "PARKED"},
         f.token # 0 => /\ f.status = "PARKED" /\ Def[f.state].type = "token"
                        /\ f.token \in {frames[i].token, nextCall},
         Dispatch(i, f), UNCHANGED <<nudged, inbox, redrives>>
  PROVE  SfnInv'
<1> DEFINE gs == [frames EXCEPT ![i] = f]
<1>1. FramesFit(frames) /\ Held(frames, tokens, nextCall) /\ nextCall \in Nat \ {0}
  BY DEF SfnInv, DriverFits
<1>2. /\ calls' = calls \cup {CallOf(i, f)} /\ nextCall' = nextCall + 1 /\ Save(gs, 0)
      /\ tokens' = IF f.token = 0 THEN tokens
                   ELSE [t \in DOMAIN tokens \cup {f.token} |->
                           IF t = f.token THEN i ELSE tokens[t]]
  BY DEF Dispatch
<1>3. /\ FramesFit(gs) /\ SameTree(frames, gs)
      /\ JoinsEnded(frames) => JoinsEnded(gs)
      /\ WithinLimits(frames) => WithinLimits(gs)
  BY <1>1, FrameMoves
<1>4. DOMAIN gs = DOMAIN frames /\ gs[i] = f /\ \A j \in DOMAIN frames : j # i => gs[j] = frames[j]
  OBVIOUS
<1> HIDE DEF gs
<1>5. \A c \in calls' : \/ c \in calls
                        \/ /\ c.frame \in DOMAIN gs /\ c.call \in Nat
                           /\ c.token \in Nat /\ c.attempt \in Nat
  <2>1. /\ CallOf(i, f).frame = i /\ CallOf(i, f).call \in Nat
        /\ CallOf(i, f).token \in Nat /\ CallOf(i, f).attempt \in Nat
    BY <1>1 DEF CallOf, FrameRecord
  <2> QED
    BY <1>2, <1>4, <2>1
<1>6. \A t \in DOMAIN tokens' : \/ t \in DOMAIN tokens /\ tokens'[t] = tokens[t]
                                \/ t \in Nat /\ tokens'[t] \in DOMAIN gs
  <2>1. f.token \in Nat
    BY DEF FrameRecord
  <2> QED
    BY <1>2, <1>4, <2>1
<1>7. ASSUME NEW j \in DOMAIN gs, gs[j].token # 0
      PROVE  /\ gs[j].token < nextCall' /\ Def[gs[j].state].type = "token"
             /\ gs[j].status \in {"PARKED", "RETRY_WAIT", "DONE", "FAILED"}
             /\ gs[j].status \in {"PARKED", "RETRY_WAIT"} =>
                  gs[j].token \in DOMAIN tokens' /\ tokens'[gs[j].token] = j
  <2>1. CASE j = i
    <3>1. gs[j] = f /\ f.token # 0 /\ f.status = "PARKED" /\ Def[f.state].type = "token"
      BY <1>4, <1>7, <2>1
    <3>2. f.token \in DOMAIN tokens' /\ tokens'[f.token] = i
      BY <1>2, <3>1
    <3>3. f.token < nextCall + 1
      <4>1. CASE f.token = nextCall
        BY <1>1, <4>1
      <4>2. CASE f.token = frames[i].token
        <5>1. f.token < nextCall /\ f.token \in Nat
          BY <1>1, <3>1, <4>2 DEF Held, FrameRecord
        <5> QED
          BY <1>1, <5>1
      <4> QED
        BY <3>1, <4>1, <4>2
    <3> QED
      BY <1>2, <2>1, <3>1, <3>2, <3>3
  <2>2. CASE j # i
    <3>1. gs[j] = frames[j] /\ j \in DOMAIN frames
      BY <1>4, <1>7, <2>2
    <3>2. /\ frames[j].token < nextCall /\ Def[frames[j].state].type = "token"
          /\ frames[j].status \in {"PARKED", "RETRY_WAIT", "DONE", "FAILED"}
          /\ frames[j].status \in {"PARKED", "RETRY_WAIT"} =>
               frames[j].token \in DOMAIN tokens /\ tokens[frames[j].token] = j
      BY <1>1, <1>7, <3>1 DEF Held
    <3>3. frames[j].token \in Nat
      <4>1. frames[j] \in FrameRecord
        BY <1>1, <3>1, FrameFacts
      <4> QED
        BY <4>1 DEF FrameRecord
    <3>4. frames[j].status \in {"PARKED", "RETRY_WAIT"} => frames[j].token # f.token
      <4> SUFFICES ASSUME frames[j].status \in {"PARKED", "RETRY_WAIT"},
                          frames[j].token = f.token
                   PROVE  FALSE
        OBVIOUS
      <4>1. f.token # 0 /\ f.token # nextCall
        BY <1>1, <1>7, <3>1, <3>2, <3>3
      <4>2. f.token = frames[i].token
        BY <4>1
      <4>3. tokens[f.token] = i
        BY <1>1, <4>1, <4>2 DEF Held, Terminal
      <4> QED
        BY <2>2, <3>2, <4>3
    <3>5. frames[j].status \in {"PARKED", "RETRY_WAIT"} =>
            frames[j].token \in DOMAIN tokens' /\ tokens'[frames[j].token] = j
      BY <1>2, <3>2, <3>4
    <3>6. frames[j].token < nextCall'
      BY <1>1, <1>2, <3>2, <3>3
    <3> QED
      BY <3>1, <3>2, <3>5, <3>6
  <2> QED
    BY <2>1, <2>2
<1>8. Held(gs, tokens', nextCall')
  BY <1>7 DEF Held
<1>9. redrives = 0 => JoinsEnded(gs) /\ WithinLimits(gs)
  BY <1>3 DEF SfnInv
<1>10. nextCall' \in Nat \ {0}
  BY <1>1, <1>2
<1> QED
  BY <1>2, <1>3, <1>4, <1>5, <1>6, <1>8, <1>9, <1>10, DriverStep

\* A step that moves one frame under way, which has no token, and sets none.
LEMMA MoveInv ==
  ASSUME SfnInv, NEW i \in DOMAIN frames, NEW g \in FrameRecord, SamePlace(frames[i], g),
         ~Terminal(frames[i]), frames[i].status \notin {"PENDING", "JOIN"}, g.status # "JOIN",
         g.token = 0, NEW toJoin, Save([frames EXCEPT ![i] = g], toJoin),
         toJoin \in {0, SettledParent([frames EXCEPT ![i] = g], i)},
         UNCHANGED <<tokens, calls, nextCall, nudged, inbox, redrives>>
  PROVE  SfnInv'
<1> DEFINE gs == [frames EXCEPT ![i] = g]
<1>1. FramesFit(frames) /\ Held(frames, tokens, nextCall) /\ nextCall \in Nat \ {0}
  BY DEF SfnInv, DriverFits
<1>2. /\ FramesFit(gs) /\ SameTree(frames, gs)
      /\ JoinsEnded(frames) => JoinsEnded(gs)
      /\ WithinLimits(frames) => WithinLimits(gs)
  BY <1>1, FrameMoves
<1>3. DOMAIN gs = DOMAIN frames /\ gs[i] = g /\ \A j \in DOMAIN frames : j # i => gs[j] = frames[j]
  OBVIOUS
<1>4. Save(gs, toJoin) /\ toJoin \in {0, SettledParent(gs, i)}
  OBVIOUS
<1> HIDE DEF gs
<1>5. Held(gs, tokens, nextCall)
  BY <1>1, <1>3, HeldStays
<1>6. toJoin # 0 => toJoin \in DOMAIN gs /\ gs[toJoin].status = "JOIN"
  BY <1>2, <1>3, <1>4, SettledJoins
<1>7. redrives = 0 => JoinsEnded(gs) /\ WithinLimits(gs)
  BY <1>2 DEF SfnInv
<1> QED
  BY <1>1, <1>2, <1>3, <1>4, <1>5, <1>6, <1>7, DriverStep

\* The frame that advances is the first that is runnable.
LEMMA FirstRunnable ==
  ASSUME FramesFit(frames), Runnable(frames) # {}
  PROVE  LET i == CHOOSE n \in Runnable(frames) : \A m \in Runnable(frames) : n <= m
         IN  i \in DOMAIN frames /\ frames[i].status = "RUNNABLE"
<1>1. Runnable(frames) \in SUBSET Nat
  BY FrameFacts DEF Runnable
<1>2. \E n \in Runnable(frames) : \A m \in Runnable(frames) : n <= m
  BY <1>1, LowestName
<1> QED
  BY <1>2 DEF Runnable

\* A frame that opens a generation and has not joined yet.
LEMMA OpensFrame ==
  ASSUME NEW f \in FrameRecord
  PROVE  LET g == [f EXCEPT !.spawnGen = @ + 1]
         IN  /\ g \in FrameRecord /\ g.spawnGen = f.spawnGen + 1 /\ g.token = f.token
             /\ g.parent = f.parent /\ g.gen = f.gen /\ g.stray = f.stray
<1>1. f.spawnGen \in Nat
  BY DEF FrameRecord
<1>2. ASSUME NEW n \in Nat
      PROVE  [f EXCEPT !.spawnGen = n] \in FrameRecord
  BY DEF FrameRecord
<1>3. LET g == [f EXCEPT !.spawnGen = @ + 1]
      IN  /\ g.spawnGen = f.spawnGen + 1 /\ g.token = f.token
          /\ g.parent = f.parent /\ g.gen = f.gen /\ g.stray = f.stray
  BY DEF FrameRecord
<1>4. f.spawnGen + 1 \in Nat
  BY <1>1
<1> QED
  BY <1>2, <1>3, <1>4

\* A step that spawns frames.
LEMMA SpawnInv ==
  ASSUME SfnInv, NEW i \in DOMAIN frames, frames[i].status = "RUNNABLE",
         Def[frames[i].state].type = "map",
         NEW q \in Nat, Len(frames) + q <= MaxFrames, NEW stray \in BOOLEAN,
         NEW h \in FrameRecord, h.spawnGen = frames[i].spawnGen + 1, h.token = 0,
         h.parent = frames[i].parent, h.gen = frames[i].gen, h.stray = frames[i].stray,
         \/ h.status = "JOIN" /\ h.state = frames[i].state
         \/ h.status # "JOIN" /\ stray,
         NEW toJoin, Save(Fanned(i, h, q, stray), toJoin),
         toJoin # 0 => /\ toJoin \in DOMAIN Fanned(i, h, q, stray)
                       /\ Fanned(i, h, q, stray)[toJoin].status = "JOIN",
         UNCHANGED <<tokens, calls, nextCall, nudged, inbox, redrives>>
  PROVE  SfnInv'
<1>1. FramesFit(frames) /\ Held(frames, tokens, nextCall) /\ nextCall \in Nat \ {0}
  BY DEF SfnInv, DriverFits
<1> DEFINE gs == Fanned(i, h, q, stray)
<1>2. /\ FramesFit(gs) /\ DOMAIN frames \subseteq DOMAIN gs /\ gs[i] = h
      /\ \A j \in DOMAIN frames : j # i => gs[j] = frames[j]
      /\ \A j \in DOMAIN gs \ DOMAIN frames : gs[j].token = 0
      /\ JoinsEnded(frames) => JoinsEnded(gs)
      /\ WithinLimits(frames) => WithinLimits(gs)
  BY <1>1, SpawnedFit
<1> HIDE DEF gs
<1>3. Held(gs, tokens, nextCall)
  <2>1. \A k \in DOMAIN gs : gs[k].token = 0 \/ (k \in DOMAIN frames /\ gs[k] = frames[k])
    BY <1>2
  <2> QED
    BY <1>1, <1>2, <2>1, HeldStays
<1>4. redrives = 0 => JoinsEnded(gs) /\ WithinLimits(gs)
  BY <1>2 DEF SfnInv
<1>5. Held(gs, tokens', nextCall')
  BY <1>3
<1>6. /\ Save(gs, toJoin)
      /\ toJoin # 0 => toJoin \in DOMAIN gs /\ gs[toJoin].status = "JOIN"
  BY DEF gs
<1> QED
  BY <1>1, <1>2, <1>4, <1>5, <1>6, DriverStep

\* drive.
LEMMA AdvanceInv == ASSUME SfnInv, Advance PROVE SfnInv'
<1> DEFINE i == CHOOSE n \in Runnable(frames) : \A m \in Runnable(frames) : n <= m
           f == frames[i]
           s == Def[f.state]
<1>1. FramesFit(frames) /\ Held(frames, tokens, nextCall) /\ nextCall \in Nat \ {0}
  BY DEF SfnInv, DriverFits
<1>2. /\ busy /\ joining = 0 /\ Runnable(frames) # {}
      /\ \/ /\ s.type = "task"
            /\ Dispatch(i, [f EXCEPT !.status = "CALLING"])
         \/ /\ s.type = "token"
            /\ Dispatch(i, [f EXCEPT !.status = "PARKED", !.token = nextCall])
         \/ /\ s.type = "wait"
            /\ Save([frames EXCEPT ![i] = [f EXCEPT !.status = "SLEEPING"]], 0)
            /\ UNCHANGED <<tokens, calls, nextCall>>
         \/ /\ s.type = "map"
            /\ Len(frames) + s.items <= MaxFrames
            /\ Save([frames EXCEPT ![i] = [f EXCEPT !.status = "JOIN", !.spawnGen = @ + 1]]
                      \o Spawned(i, s.items, FALSE),
                    IF s.items = 0 THEN i ELSE 0)
            /\ UNCHANGED <<tokens, calls, nextCall>>
         \/ EntryFails(i)
         \/ SpawnFails(i)
      /\ UNCHANGED <<nudged, inbox, restarts, redrives>>
  BY DEF Advance
<1>3. i \in DOMAIN frames /\ f.status = "RUNNABLE"
  BY <1>1, <1>2, FirstRunnable
<1> HIDE DEF i
<1>4. f \in FrameRecord /\ f.token = 0 /\ ~Terminal(f)
  BY <1>1, <1>3, FrameFacts DEF Held, Terminal
<1>5. ASSUME NEW st \in {"CALLING", "SLEEPING"}
      PROVE  LET g == [f EXCEPT !.status = st]
             IN  /\ g \in FrameRecord /\ SamePlace(f, g) /\ g.status = st
                 /\ g.token = f.token
  BY <1>4 DEF FrameRecord, FrameStatus, SamePlace
<1>6. CASE s.type = "task" /\ Dispatch(i, [f EXCEPT !.status = "CALLING"])
  <2> DEFINE g == [f EXCEPT !.status = "CALLING"]
  <2>1. g \in FrameRecord /\ SamePlace(f, g) /\ g.status = "CALLING" /\ g.token = 0
    BY <1>4, <1>5
  <2>2. Dispatch(i, g)
    BY <1>6
  <2> HIDE DEF g
  <2> QED
    BY <1>2, <1>3, <1>4, <2>1, <2>2, DispatchInv
<1>7. CASE s.type = "token" /\ Dispatch(i, [f EXCEPT !.status = "PARKED", !.token = nextCall])
  <2> DEFINE g == [f EXCEPT !.status = "PARKED", !.token = nextCall]
  <2>1. g \in FrameRecord
    BY <1>1, <1>4 DEF FrameRecord, FrameStatus
  <2>2. SamePlace(f, g) /\ g.status = "PARKED" /\ g.token = nextCall /\ g.state = f.state
    BY <1>4 DEF FrameRecord, SamePlace
  <2>3. Dispatch(i, g) /\ Def[g.state].type = "token"
    BY <1>7, <2>2
  <2> HIDE DEF g
  <2> QED
    BY <1>2, <1>3, <1>4, <2>1, <2>2, <2>3, DispatchInv
<1>8. CASE /\ s.type = "wait"
           /\ Save([frames EXCEPT ![i] = [f EXCEPT !.status = "SLEEPING"]], 0)
           /\ UNCHANGED <<tokens, calls, nextCall>>
  <2> DEFINE g == [f EXCEPT !.status = "SLEEPING"]
  <2>1. g \in FrameRecord /\ SamePlace(f, g) /\ g.status = "SLEEPING" /\ g.token = 0
    BY <1>4, <1>5
  <2>2. Save([frames EXCEPT ![i] = g], 0)
    BY <1>8
  <2> HIDE DEF g
  <2> QED
    BY <1>2, <1>3, <1>4, <1>8, <2>1, <2>2, MoveInv
<1>9. CASE /\ s.type = "map"
           /\ Len(frames) + s.items <= MaxFrames
           /\ Save([frames EXCEPT ![i] = [f EXCEPT !.status = "JOIN", !.spawnGen = @ + 1]]
                     \o Spawned(i, s.items, FALSE),
                   IF s.items = 0 THEN i ELSE 0)
           /\ UNCHANGED <<tokens, calls, nextCall>>
  <2> DEFINE h == [f EXCEPT !.status = "JOIN", !.spawnGen = @ + 1]
             gs == Fanned(i, h, s.items, FALSE)
             to == IF s.items = 0 THEN i ELSE 0
  <2>1. /\ h \in FrameRecord /\ h.status = "JOIN" /\ h.spawnGen = f.spawnGen + 1
        /\ h.parent = f.parent /\ h.gen = f.gen /\ h.state = f.state
        /\ h.token = 0 /\ h.stray = f.stray
    BY <1>4, JoinsFrame
  <2>2. Save(gs, to)
    BY <1>9 DEF Fanned
  <2>3. s.items \in Nat
    BY <1>4, SfnAssumption DEF FrameRecord, StateRecord
  <2>31. Len(frames) + s.items <= MaxFrames /\ s.type = "map"
    BY <1>9
  <2> HIDE DEF h
  <2>4. gs[i] = h /\ DOMAIN frames \subseteq DOMAIN gs
    <3> DEFINE q == s.items
    <3>1. q \in Nat /\ Len(frames) + q <= MaxFrames
      BY <2>3, <2>31
    <3> HIDE DEF q
    <3>2. \A stray \in BOOLEAN :
            /\ Fanned(i, h, q, stray)[i] = h
            /\ DOMAIN frames \subseteq DOMAIN Fanned(i, h, q, stray)
      BY <1>1, <1>3, <2>1, <2>31, <3>1, SpawnedFit
    <3> QED
      BY <3>2 DEF q
  <2>5. i \in DOMAIN gs /\ gs[i].status = "JOIN"
    BY <1>3, <2>1, <2>4
  <2>6. to # 0 => to \in DOMAIN gs /\ gs[to].status = "JOIN"
    BY <2>5
  <2> HIDE DEF to, gs
  <2>7. UNCHANGED <<tokens, calls, nextCall, nudged, inbox, redrives>>
    BY <1>2, <1>9
  <2> QED
    BY <1>3, <2>1, <2>2, <2>3, <2>31, <2>6, <2>7, SpawnInv DEF gs
<1>10. CASE EntryFails(i)
  <2>1. PICK g \in {FailFrame(f)} \cup Unwound(f) :
          Save([frames EXCEPT ![i] = g], SettledParent([frames EXCEPT ![i] = g], i))
    BY <1>10 DEF EntryFails
  <2>2. Moved(f, g)
    BY <1>4, <2>1, DeliveredFrame
  <2>3. g \in FrameRecord /\ SamePlace(f, g) /\ g.status # "JOIN" /\ g.token = 0
    BY <1>4, <2>2 DEF Moved
  <2>4. UNCHANGED <<tokens, calls, nextCall, nudged, inbox, redrives>>
    BY <1>2, <1>10 DEF EntryFails
  <2> QED
    BY <1>3, <1>4, <2>1, <2>3, <2>4, MoveInv
<1>11. CASE SpawnFails(i)
  <2> DEFINE o == [f EXCEPT !.spawnGen = @ + 1]
  <2>1. PICK n \in 0..(s.items - 1), g \in Unwound(o) :
          LET gs == [frames EXCEPT ![i] = g] \o Spawned(i, n, TRUE)
          IN  Len(frames) + n <= MaxFrames /\ Save(gs, SettledParent(gs, i))
    BY <1>11 DEF SpawnFails
  <2>2. s.items \in Nat /\ s.type = "map"
    BY <1>4, <1>11, SfnAssumption DEF FrameRecord, StateRecord, SpawnFails
  <2>3. o \in FrameRecord /\ o.spawnGen = f.spawnGen + 1 /\ o.token = 0 /\ o.parent = f.parent
        /\ o.gen = f.gen /\ o.stray = f.stray
    BY <1>4, OpensFrame
  <2> HIDE DEF o
  <2>4. Moved(o, g)
    BY <2>3, DeliveredFrame
  <2>5. /\ g \in FrameRecord /\ g.status # "JOIN" /\ g.token = 0
        /\ g.spawnGen = f.spawnGen + 1 /\ g.parent = f.parent /\ g.gen = f.gen
        /\ g.stray = f.stray
    BY <2>3, <2>4 DEF Moved, SamePlace
  <2> DEFINE gs == Fanned(i, g, n, TRUE)
  <2>6. n \in Nat /\ Len(frames) + n <= MaxFrames /\ Save(gs, SettledParent(gs, i))
    <3>1. n \in Nat
      BY <2>2
    <3> QED
      BY <2>1, <3>1 DEF Fanned
  <2>7. FramesFit(gs) /\ DOMAIN frames \subseteq DOMAIN gs
    BY <1>1, <1>3, <2>2, <2>5, <2>6, SpawnedFit
  <2>8. UNCHANGED <<tokens, calls, nextCall, nudged, inbox, redrives>>
    BY <1>2, <1>11 DEF SpawnFails
  <2> DEFINE to == SettledParent(gs, i)
  <2>9. to # 0 => to \in DOMAIN gs /\ gs[to].status = "JOIN"
    <3> HIDE DEF gs
    <3> QED
      BY <1>3, <2>7, SettledJoins
  <2>10. Save(gs, to)
    BY <2>6
  <2> HIDE DEF gs, to
  <2> QED
    BY <1>1, <1>3, <2>2, <2>5, <2>6, <2>8, <2>9, <2>10, SpawnInv DEF gs
<1> QED
  BY <1>2, <1>6, <1>7, <1>8, <1>9, <1>10, <1>11

\* childSettled, after the child's outcome is stored.
LEMMA JoinInv == ASSUME SfnInv, Join PROVE SfnInv'
<1> DEFINE p == joining
           fs == Promoted(p)
<1>1. FramesFit(frames) /\ Held(frames, tokens, nextCall) /\ nextCall \in Nat \ {0}
  BY DEF SfnInv, DriverFits
<1>2. p \in DOMAIN frames /\ frames[p].status = "JOIN"
  BY DEF Join, SfnInv, DriverFits
<1>3. /\ \/ JoinDone(fs, p) /\ Deliver(Abandoned(fs, p), p, ~JoinFailed(fs, p))
         \/ ~JoinDone(fs, p) /\ Save(fs, 0) /\ UNCHANGED tokens
      /\ UNCHANGED <<nudged, calls, inbox, nextCall, restarts, redrives>>
  BY DEF Join
<1>4. /\ SameTree(frames, fs)
      /\ \A k \in DOMAIN frames :
           \/ fs[k] = frames[k]
           \/ /\ frames[k].status = "PENDING" /\ fs[k].status = "RUNNABLE"
              /\ fs[k].token = frames[k].token /\ fs[k].state = frames[k].state
      /\ JoinsEnded(frames) => JoinsEnded(fs)
      /\ WithinLimits(frames) => WithinLimits(fs)
  BY <1>1, <1>2, PromotedFit
<1> HIDE DEF fs
<1>5. FramesFit(fs) /\ DOMAIN fs = DOMAIN frames
  BY <1>1, <1>4, SameTreeFits
<1>6. fs[p] = frames[p] /\ fs[p].token = 0
  BY <1>1, <1>2, <1>4 DEF Held
<1>7. Held(fs, tokens, nextCall)
  <2>1. \A k \in DOMAIN frames : frames[k].status = "PENDING" => frames[k].token = 0
    BY <1>1 DEF Held
  <2>2. \A k \in DOMAIN fs : \/ fs[k].token = 0
                             \/ k \in DOMAIN frames /\ fs[k] = frames[k]
    BY <1>4, <1>5, <2>1
  <2> QED
    BY <1>1, <1>5, <2>2, HeldStays
<1>8. redrives = 0 => JoinsEnded(fs) /\ WithinLimits(fs)
  BY <1>4 DEF SfnInv
<1>9. /\ UNCHANGED <<nudged, redrives>> /\ inbox' \subseteq inbox
      /\ nextCall' = nextCall /\ calls' = calls
  BY <1>3
<1>10. CASE ~JoinDone(fs, p) /\ Save(fs, 0) /\ UNCHANGED tokens
  BY <1>1, <1>5, <1>7, <1>8, <1>9, <1>10, DriverStep
<1>11. CASE JoinDone(fs, p) /\ Deliver(Abandoned(fs, p), p, ~JoinFailed(fs, p))
  <2> DEFINE ok == ~JoinFailed(fs, p)
             as == Abandoned(fs, p)
  <2>1. ok \in BOOLEAN /\ p \in DOMAIN fs /\ fs[p].status = "JOIN"
    BY <1>2, <1>5, <1>6
  <2>0. as[p] = fs[p]
    <3>1. p \in DOMAIN fs /\ p \notin Children(fs, p)
      BY <1>5, <2>1, FrameFacts
    <3> QED
      BY <3>1 DEF Abandoned
  <2>2. PICK g \in Delivered(fs[p], ok) :
          /\ tokens' = TokensAfter(fs[p], g)
          /\ Save([as EXCEPT ![p] = g], SettledParent([as EXCEPT ![p] = g], p))
    BY <1>11, <2>0 DEF Deliver
  <2> HIDE DEF ok
  <2> DEFINE gs == [as EXCEPT ![p] = g]
  <2>3. /\ SameTree(fs, gs) /\ gs[p] = g
        /\ \A k \in DOMAIN fs : k # p =>
             \/ gs[k] = fs[k]
             \/ /\ gs[k].status = "FAILED" /\ gs[k].token = fs[k].token
                /\ gs[k].state = fs[k].state
        /\ JoinsEnded(fs) => JoinsEnded(gs)
        /\ WithinLimits(fs) => WithinLimits(gs)
    BY <1>5, <2>1, JoinedFit
  <2>31. Save(gs, SettledParent(gs, p))
    BY <2>2
  <2> HIDE DEF as, gs
  <2>4. tokens' = tokens
    BY <1>6, <2>2 DEF TokensAfter
  <2>5. FramesFit(gs) /\ DOMAIN gs = DOMAIN fs
    BY <1>5, <2>3, SameTreeFits
  <2>6. gs[p].token = 0
    <3>1. fs[p] \in FrameRecord
      BY <1>2, <1>5, FrameFacts
    <3> QED
      BY <1>6, <2>1, <2>2, <2>3, <3>1, DeliveredFrame DEF Moved
  <2>7. Held(gs, tokens, nextCall)
    BY <1>7, <2>3, <2>5, <2>6, HeldStays
  <2>8. SettledParent(gs, p) # 0 =>
          SettledParent(gs, p) \in DOMAIN gs /\ gs[SettledParent(gs, p)].status = "JOIN"
    BY <1>2, <1>5, <2>5, SettledJoins
  <2>9. redrives = 0 => JoinsEnded(gs) /\ WithinLimits(gs)
    BY <1>8, <2>3
  <2> QED
    BY <1>1, <1>5, <1>9, <2>31, <2>4, <2>5, <2>7, <2>8, <2>9, DriverStep
<1> QED
  BY <1>3, <1>10, <1>11

\* fireDue.
LEMMA TimerInv ==
  ASSUME SfnInv, NEW i \in DOMAIN frames, WakeFrame(i) \/ TimeOut(i)
  PROVE  SfnInv'
<1> DEFINE f == frames[i]
<1>1. /\ FramesFit(frames) /\ Held(frames, tokens, nextCall) /\ nextCall \in Nat \ {0}
      /\ f \in FrameRecord
  BY FrameFacts DEF SfnInv, DriverFits
<1>2. CASE TimeOut(i)
  BY <1>2, DeliverInv DEF TimeOut, Terminal
<1>3. CASE WakeFrame(i) /\ f.status = "SLEEPING"
  <2>1. PICK g \in {Exited(f), FailFrame(f)} :
          Save([frames EXCEPT ![i] = g], SettledParent([frames EXCEPT ![i] = g], i))
    BY <1>3 DEF WakeFrame
  <2>2. f.token = 0
    BY <1>1, <1>3 DEF Held
  <2>3. Moved(f, g)
    BY <1>1, <2>1, DeliveredFrame
  <2>4. g \in FrameRecord /\ SamePlace(f, g) /\ g.token = 0 /\ g.status # "JOIN"
    BY <2>2, <2>3 DEF Moved
  <2>5. UNCHANGED <<tokens, calls, nextCall, nudged, inbox, redrives>>
    BY <1>3 DEF WakeFrame
  <2> QED
    BY <1>3, <2>1, <2>4, <2>5, MoveInv DEF Terminal
<1>4. CASE WakeFrame(i) /\ f.status = "RETRY_WAIT"
  <2> DEFINE st == IF f.token = 0 THEN "CALLING" ELSE "PARKED"
             g == [f EXCEPT !.status = st]
  <2>1. st \in {"CALLING", "PARKED"} /\ (f.token # 0 => st = "PARKED")
    OBVIOUS
  <2>2. Dispatch(i, g) /\ UNCHANGED <<nudged, inbox, redrives>>
    BY <1>4 DEF WakeFrame
  <2> HIDE DEF st
  <2>3. g \in FrameRecord
    BY <1>1, <2>1 DEF FrameRecord, FrameStatus
  <2>4. SamePlace(f, g) /\ g.status = st /\ g.token = f.token /\ g.state = f.state
    BY <1>1 DEF FrameRecord, SamePlace
  <2> HIDE DEF g
  <2>5. g.token # 0 => Def[g.state].type = "token"
    BY <1>1, <2>4 DEF Held
  <2> QED
    BY <1>4, <2>1, <2>2, <2>3, <2>4, <2>5, DispatchInv DEF Terminal
<1> QED
  BY <1>2, <1>3, <1>4 DEF WakeFrame

\* A delivery, applied or dropped.
LEMMA DeliveryInv ==
  ASSUME SfnInv, NEW d \in inbox, ApplyDelivery(d)
  PROVE  SfnInv'
<1>1. d.frame \in DOMAIN frames /\ d.ok \in BOOLEAN
  BY DEF SfnInv, OthersFit, Delivery
<1>2. CASE /\ UNCHANGED <<status, frames, tokens, joining, busy>>
  BY <1>2 DEF ApplyDelivery, SfnInv, DriverFits, OthersFit
<1>3. CASE ~Stale(d) /\ Deliver(frames, d.frame, d.ok)
  <2>1. frames[d.frame].status \in {"CALLING", "PARKED"}
    BY <1>3 DEF Stale
  <2>2. inbox' \subseteq inbox /\ UNCHANGED <<nudged, calls, nextCall, redrives>>
    BY DEF ApplyDelivery
  <2> QED
    BY <1>1, <1>3, <2>1, <2>2, DeliverInv DEF Terminal
<1> QED
  BY <1>2, <1>3 DEF ApplyDelivery

\* The workers and the callers of SendTask.
LEMMA ReplyInv ==
  ASSUME SfnInv,
         \/ \E c \in calls, ok \in BOOLEAN : CallReturns(c, ok)
         \/ \E w \in Workers, t \in DOMAIN tokens, ok \in BOOLEAN : SendTask(w, t, ok)
  PROVE  SfnInv'
<1>1. PICK e : /\ inbox' \subseteq inbox \cup {e} /\ calls' \subseteq calls
               /\ e \in Delivery /\ e.frame \in DOMAIN frames
               /\ UNCHANGED <<status, frames, tokens, nudged, busy, joining, nextCall, redrives>>
  <2>1. ASSUME NEW c \in calls, NEW ok \in BOOLEAN, CallReturns(c, ok)
        PROVE  \E e : /\ inbox' \subseteq inbox \cup {e} /\ calls' \subseteq calls
                      /\ e \in Delivery /\ e.frame \in DOMAIN frames
                      /\ UNCHANGED <<status, frames, tokens, nudged, busy, joining, nextCall,
                                     redrives>>
    <3> DEFINE e == [frame |-> c.frame, call |-> c.call, token |-> c.token,
                     attempt |-> c.attempt, ok |-> ok, by |-> "engine"]
    <3>1. /\ c.frame \in DOMAIN frames /\ c.frame \in Nat /\ c.call \in Nat
          /\ c.token \in Nat /\ c.attempt \in Nat
      BY FrameFacts DEF SfnInv, OthersFit
    <3>2. e \in Delivery /\ e.frame = c.frame
      BY <3>1 DEF Delivery
    <3>3. inbox' \subseteq inbox \cup {e} /\ calls' \subseteq calls
      BY <2>1 DEF CallReturns
    <3>4. UNCHANGED <<status, frames, tokens, nudged, busy, joining, nextCall, redrives>>
      BY <2>1 DEF CallReturns
    <3> HIDE DEF e
    <3> QED
      BY <3>1, <3>2, <3>3, <3>4
  <2>2. ASSUME NEW w \in Workers, NEW t \in DOMAIN tokens, NEW ok \in BOOLEAN, SendTask(w, t, ok)
        PROVE  \E e : /\ inbox' \subseteq inbox \cup {e} /\ calls' \subseteq calls
                      /\ e \in Delivery /\ e.frame \in DOMAIN frames
                      /\ UNCHANGED <<status, frames, tokens, nudged, busy, joining, nextCall,
                                     redrives>>
    <3> DEFINE e == [frame |-> tokens[t], call |-> 0, token |-> t,
                     attempt |-> 0, ok |-> ok, by |-> w]
    <3>1. tokens[t] \in DOMAIN frames /\ tokens[t] \in Nat /\ t \in Nat
      BY FrameFacts DEF SfnInv, OthersFit
    <3>2. e \in Delivery /\ e.frame = tokens[t]
      BY <3>1 DEF Delivery
    <3>3. inbox' \subseteq inbox \cup {e} /\ calls' \subseteq calls
      BY <2>2 DEF SendTask
    <3>4. UNCHANGED <<status, frames, tokens, nudged, busy, joining, nextCall, redrives>>
      BY <2>2 DEF SendTask
    <3> HIDE DEF e
    <3> QED
      BY <3>1, <3>2, <3>3, <3>4
  <2> QED
    BY <2>1, <2>2
<1>2. OthersFit'
  BY <1>1 DEF SfnInv, OthersFit
<1>3. DriverFits'
  BY <1>1 DEF SfnInv, DriverFits
<1> QED
  BY <1>1, <1>2, <1>3 DEF SfnInv

\* RedriveExecution.
LEMMA RedriveInv == ASSUME SfnInv, Redrive PROVE SfnInv'
<1> DEFINE gs == [i \in DOMAIN frames |-> Redriven(i)]
<1>1. FramesFit(frames) /\ Held(frames, tokens, nextCall)
  BY DEF SfnInv
<1>2. ASSUME NEW i \in DOMAIN frames
      PROVE  /\ Redriven(i) \in FrameRecord /\ SamePlace(frames[i], Redriven(i))
             /\ \/ Redriven(i) = frames[i]
                \/ Redriven(i).token = 0
                \/ /\ Def[frames[i].state].type = "map" /\ Redriven(i).state = frames[i].state
                   /\ Redriven(i).token = frames[i].token
  <2> DEFINE f == frames[i]
  <2>1. f \in FrameRecord
    BY <1>1, FrameFacts
  <2>2. CASE Redriven(i) = f
    BY <2>1, <2>2 DEF SamePlace
  <2>3. CASE Redriven(i) = [f EXCEPT !.status = "JOIN"] /\ Def[f.state].type = "map"
    <3>1. [f EXCEPT !.status = "JOIN"] \in FrameRecord
      BY <2>1 DEF FrameRecord, FrameStatus
    <3>2. LET g == [f EXCEPT !.status = "JOIN"]
          IN  SamePlace(f, g) /\ g.state = f.state /\ g.token = f.token
      BY <2>1 DEF FrameRecord, SamePlace
    <3> QED
      BY <2>3, <3>1, <3>2
  <2>4. CASE Redriven(i) = [f EXCEPT !.status = "RUNNABLE", !.attempts = 0, !.token = 0]
    <3>1. [f EXCEPT !.status = "RUNNABLE", !.attempts = 0, !.token = 0] \in FrameRecord
      BY <2>1 DEF FrameRecord, FrameStatus
    <3>2. LET g == [f EXCEPT !.status = "RUNNABLE", !.attempts = 0, !.token = 0]
          IN  SamePlace(f, g) /\ g.token = 0
      BY <2>1 DEF FrameRecord, SamePlace
    <3> QED
      BY <2>4, <3>1, <3>2
  <2> QED
    BY <2>2, <2>3, <2>4 DEF Redriven
<1>3. SameTree(frames, gs)
  <2>1. gs \in [DOMAIN frames -> FrameRecord]
    BY <1>2
  <2>2. \A i \in DOMAIN frames : gs[i] = Redriven(i)
    OBVIOUS
  <2> HIDE DEF gs
  <2> QED
    BY <1>1, <1>2, <2>1, <2>2, MappedTree DEF SamePlace
<1>4. FramesFit(gs) /\ DOMAIN gs = DOMAIN frames
  BY <1>1, <1>3, SameTreeFits
<1>5. Held(gs, tokens, nextCall)
  <2>1. \A k \in DOMAIN gs : gs[k].token = 0 \/ (k \in DOMAIN frames /\ gs[k] = frames[k])
    BY <1>1, <1>2 DEF Held
  <2> HIDE DEF gs
  <2> QED
    BY <1>1, <1>4, <2>1, HeldStays
<1>6. frames' = gs /\ status' = "RUNNING" /\ redrives' = redrives + 1 /\ nudged' = TRUE
      /\ UNCHANGED <<tokens, busy, joining, calls, inbox, nextCall>> /\ ~busy
  BY DEF Redrive
<1> HIDE DEF gs
<1>7. joining = 0 /\ redrives' \in Nat /\ redrives' # 0
  BY <1>6 DEF SfnInv, DriverFits
<1>8. DriverFits'
  BY <1>6, <1>7 DEF SfnInv, DriverFits
<1>9. OthersFit'
  BY <1>4, <1>6 DEF SfnInv, OthersFit
<1> QED
  BY <1>4, <1>5, <1>6, <1>7, <1>8, <1>9 DEF SfnInv

\* Every step.
LEMMA SfnStep == SfnInv /\ [SfnNext]_sfnVars => SfnInv'
<1> SUFFICES ASSUME SfnInv, [SfnNext]_sfnVars PROVE SfnInv'
  OBVIOUS
<1>1. CASE UNCHANGED sfnVars
  BY <1>1 DEF sfnVars, SfnInv, DriverFits, OthersFit
<1>2. CASE TakeNudge \/ Abort
  <2>1. /\ UNCHANGED <<frames, tokens, joining, calls, inbox, nextCall, redrives>> /\ ~busy
        /\ nudged' \in BOOLEAN /\ busy' \in BOOLEAN
        /\ status' \in {"RUNNING", "SUCCEEDED", "FAILED", "ABORTED"}
    BY <1>2 DEF TakeNudge, Abort, SfnInv, DriverFits
  <2>2. DriverFits' /\ OthersFit'
    BY <2>1 DEF SfnInv, DriverFits, OthersFit
  <2> QED
    BY <2>1, <2>2 DEF SfnInv
<1>3. CASE Restart
  <2>1. /\ UNCHANGED <<status, frames, tokens, nextCall, redrives>>
        /\ calls' = {} /\ inbox' = {} /\ joining' = 0 /\ busy' = FALSE /\ nudged' \in BOOLEAN
    BY <1>3 DEF Restart
  <2>2. DriverFits' /\ OthersFit'
    BY <2>1 DEF SfnInv, DriverFits, OthersFit
  <2> QED
    BY <2>1, <2>2 DEF SfnInv
<1> QED
  BY <1>1, <1>2, <1>3, AdvanceInv, JoinInv, TimerInv, DeliveryInv, ReplyInv, RedriveInv
     DEF SfnNext, Driver

\* SfnTypeOK for every machine and every bound: the frames, tokens, calls and
\* deliveries stay what internal/asl and stepfunctions declare, whatever
\* results, timers, joins, redrives and restarts come.
THEOREM ExecutionTyped == SfnSpec => []SfnTypeOK
<1>1. ASSUME SfnInv PROVE SfnTypeOK
  <2>1. frames \in Seq(FrameRecord) /\ Len(frames) <= MaxFrames
    BY <1>1, SfnAssumption DEF SfnInv, FramesFit
  <2> QED
    BY <1>1, <2>1 DEF SfnTypeOK, SfnInv, DriverFits, OthersFit
<1> QED
  BY <1>1, SfnInitInv, SfnStep, PTL DEF SfnSpec

\* BranchesGoverned for every machine: until the execution is redriven, a map
\* never runs more branches than MaxConcurrency (PromotePending), and no frame
\* that has left its join, and was not itself abandoned, has a branch left
\* that runs (AbandonSiblings), but for the strays of a failing ItemSelector.
THEOREM JoinsGovern == SfnSpec => []BranchesGoverned
<1>1. ASSUME SfnInv PROVE BranchesGoverned
  <2>1. \A p : CutOff(p) <=> CutIn(frames, p)
    BY DEF CutOff, CutIn
  <2>2. NoBranchOutlivesJoin
    BY <1>1, <2>1 DEF NoBranchOutlivesJoin, SfnInv, JoinsEnded
  <2>3. ConcurrencyBound
    BY <1>1 DEF ConcurrencyBound, SfnInv, WithinLimits, UnderWay
  <2> QED
    BY <2>2, <2>3 DEF BranchesGoverned
<1> QED
  BY <1>1, SfnInitInv, SfnStep, PTL DEF SfnSpec

-----------------------------------------------------------------------------
(* What keeps a running execution going.                                   *)

\* A frame of a generation its parent has left.
Superseded(fs, i) == fs[i].parent # 0 /\ fs[i].gen # fs[fs[i].parent].spawnGen

\* An answer to the call of f, frame i, is on its way.
Replied(f, i, cs, ds) ==
  \/ \E c \in cs : c.frame = i /\ c.attempt = f.attempts /\ c.token = 0
  \/ \E d \in ds : d.frame = i /\ d.attempt = f.attempts /\ d.by = "engine"

\* Every frame that calls will be answered.
CallsAnswered(fs, cs, ds) ==
  \A i \in DOMAIN fs : fs[i].status = "CALLING" /\ ~Superseded(fs, i) => Replied(fs[i], i, cs, ds)

\* HeldBack, of given frames.
HeldIn(fs, p) ==
  /\ Def[fs[p].state].limit > 0 /\ Def[fs[p].state].kept = 0
  /\ \E k \in Children(fs, p) : fs[k].status = "PENDING"

\* Every join but the one the driver looks at has a branch under way, or holds
\* one back.
JoinsFed(fs, j) ==
  \A p \in DOMAIN fs :
    fs[p].status = "JOIN" /\ p # j => UnderWay(fs, p) # {} \/ HeldIn(fs, p)

\* What is held back stays so while its map and the pending frames do.
LEMMA HeldBackStays ==
  ASSUME NEW fs, NEW gs, NEW p, HeldIn(fs, p), gs[p].state = fs[p].state,
         Children(fs, p) \subseteq Children(gs, p),
         \A k \in Children(fs, p) : fs[k].status = "PENDING" => gs[k].status = "PENDING"
  PROVE  HeldIn(gs, p)
<1>1. PICK k \in Children(fs, p) : fs[k].status = "PENDING"
  BY DEF HeldIn
<1>2. k \in Children(gs, p) /\ gs[k].status = "PENDING"
  BY <1>1
<1>3. Def[gs[p].state].limit > 0 /\ Def[gs[p].state].kept = 0
  BY DEF HeldIn
<1> QED
  BY <1>2, <1>3 DEF HeldIn

\* Only a MaxConcurrency makes branches wait.
Limited(fs) ==
  \A p \in DOMAIN fs : fs[p].status = "JOIN" =>
    \A k \in Children(fs, p) : fs[k].status = "PENDING" => Def[fs[p].state].limit > 0

\* Every parked frame has a token.
ParkedHolds(fs) == \A i \in DOMAIN fs : fs[i].status = "PARKED" => fs[i].token # 0

SfnLive ==
  /\ status = "RUNNING" /\ ~busy /\ ~nudged => Runnable(frames) = {}
  /\ status \in {"RUNNING", "ABORTED"} => ~Terminal(frames[1])
  /\ status = "FAILED" => frames[1].status = "FAILED"
  /\ frames[1].status # "PENDING" /\ (busy => status = "RUNNING")
  /\ ParkedHolds(frames)
  /\ restarts = 0 /\ status = "RUNNING" => CallsAnswered(frames, calls, inbox)
  /\ redrives = 0 => Limited(frames)
  /\ restarts = 0 /\ redrives = 0 /\ status = "RUNNING" => JoinsFed(frames, joining)

\* A step of the driver that ends with its save.
LEMMA DriverLive ==
  ASSUME NEW gs, NEW toJoin, Save(gs, toJoin), UNCHANGED <<restarts, redrives>>,
         gs[1].status # "PENDING", ParkedHolds(gs),
         restarts = 0 => CallsAnswered(gs, calls', inbox'),
         redrives = 0 => Limited(gs),
         restarts = 0 /\ redrives = 0 => JoinsFed(gs, toJoin)
  PROVE  SfnLive'
<1>1. /\ frames' = gs /\ status' = StatusAfter(gs)
      /\ joining' = (IF status' = "RUNNING" THEN toJoin ELSE 0)
      /\ busy' = (status' = "RUNNING" /\ (joining' # 0 \/ Runnable(gs) # {}))
  BY DEF Save
<1>2. /\ status' \in {"RUNNING", "SUCCEEDED", "FAILED"}
      /\ status' = "RUNNING" => ~Terminal(gs[1])
      /\ status' = "FAILED" => gs[1].status = "FAILED"
  BY <1>1 DEF StatusAfter, Terminal
<1>3. status' = "RUNNING" /\ ~busy' => Runnable(gs) = {}
  BY <1>1
<1>4. busy' => status' = "RUNNING"
  BY <1>1
<1>5. status' = "RUNNING" => joining' = toJoin
  BY <1>1
<1>6. frames' = gs
  BY <1>1
<1>7. restarts' = restarts /\ redrives' = redrives
  OBVIOUS
<1>8. /\ (status = "RUNNING" /\ ~busy /\ ~nudged => Runnable(frames) = {})'
      /\ (status \in {"RUNNING", "ABORTED"} => ~Terminal(frames[1]))'
      /\ (status = "FAILED" => frames[1].status = "FAILED")'
      /\ (frames[1].status # "PENDING" /\ (busy => status = "RUNNING"))'
  BY <1>2, <1>3, <1>4, <1>6
<1>9. /\ ParkedHolds(frames')
      /\ restarts' = 0 /\ status' = "RUNNING" => CallsAnswered(frames', calls', inbox')
      /\ redrives' = 0 => Limited(frames')
      /\ restarts' = 0 /\ redrives' = 0 /\ status' = "RUNNING" => JoinsFed(frames', joining')
  BY <1>5, <1>6, <1>7
<1> QED
  BY <1>8, <1>9 DEF SfnLive

\* A frame under way that moves leaves every join with a branch under way, or
\* leaves the join to be looked at.
LEMMA FedStays ==
  ASSUME NEW fs, NEW gs, FramesFit(fs), FramesFit(gs), DOMAIN fs \subseteq DOMAIN gs,
         NEW i \in DOMAIN fs, gs[i].parent = fs[i].parent, gs[i].gen = fs[i].gen,
         \A j \in DOMAIN fs : j # i => gs[j] = fs[j],
         gs[i].status \notin {"JOIN", "PENDING"},
         fs[i].status # "PENDING", NEW p \in DOMAIN fs, p # i, fs[p].status = "JOIN",
         UnderWay(fs, p) # {} \/ HeldIn(fs, p)
  PROVE  UnderWay(gs, p) # {} \/ HeldIn(gs, p) \/ SettledParent(gs, i) = p
<1>0. CASE HeldIn(fs, p)
  <2>1. Children(fs, p) \subseteq Children(gs, p)
    BY DEF Children
  <2>2. \A k \in Children(fs, p) : fs[k].status = "PENDING" => gs[k].status = "PENDING"
    BY DEF Children
  <2> QED
    BY <1>0, <2>1, <2>2, HeldBackStays
<1> SUFFICES ASSUME UnderWay(fs, p) # {} PROVE UnderWay(gs, p) # {} \/ SettledParent(gs, i) = p
  BY <1>0
<1>1. PICK k \in UnderWay(fs, p) : TRUE
  OBVIOUS
<1>2. /\ k \in DOMAIN fs /\ fs[k].parent = p /\ fs[k].gen = fs[p].spawnGen
      /\ ~Terminal(fs[k]) /\ fs[k].status # "PENDING"
  BY <1>1 DEF UnderWay, Children
<1>3. gs[p] = fs[p] /\ k \in DOMAIN gs
  BY <1>2
<1>4. k \in Children(gs, p)
  BY <1>2, <1>3 DEF Children
<1>5. CASE k # i \/ ~Terminal(gs[i])
  <2>1. ~Terminal(gs[k]) /\ gs[k].status # "PENDING"
    BY <1>2, <1>5
  <2> QED
    BY <1>4, <2>1 DEF UnderWay
<1>6. CASE k = i /\ Terminal(gs[i])
  <2>1. i # 1
    <3>1. p \in Nat /\ p >= 1
      BY FrameFacts
    <3> QED
      BY <1>2, <1>6, <3>1 DEF FramesFit
  <2>2. gs[i].parent = p /\ gs[p].status = "JOIN"
    BY <1>2, <1>3, <1>6
  <2> QED
    BY <1>6, <2>1, <2>2 DEF SettledParent
<1> QED
  BY <1>5, <1>6

\* A step that moves one frame under way.
LEMMA MoveLive ==
  ASSUME SfnInv, SfnLive, status = "RUNNING", joining = 0,
         NEW i \in DOMAIN frames, NEW g \in FrameRecord, SamePlace(frames[i], g),
         ~Terminal(frames[i]), frames[i].status \notin {"PENDING", "JOIN"},
         g.status \notin {"PENDING", "JOIN"}, g.status = "PARKED" => g.token # 0,
         NEW toJoin, Save([frames EXCEPT ![i] = g], toJoin),
         \/ toJoin = SettledParent([frames EXCEPT ![i] = g], i)
         \/ toJoin = 0 /\ ~Terminal(g),
         UNCHANGED <<restarts, redrives>>,
         \A j \in DOMAIN frames : j # i /\ Replied(frames[j], j, calls, inbox) =>
           Replied(frames[j], j, calls', inbox'),
         g.status = "CALLING" => Replied(g, i, calls', inbox')
  PROVE  SfnLive'
<1> DEFINE gs == [frames EXCEPT ![i] = g]
<1>1. FramesFit(frames)
  BY DEF SfnInv
<1>2. /\ SameTree(frames, gs) /\ FramesFit(gs) /\ DOMAIN gs = DOMAIN frames
      /\ gs[i] = g /\ \A j \in DOMAIN frames : j # i => gs[j] = frames[j]
  BY <1>1, FrameMoves
<1>3. Save(gs, toJoin) /\ (toJoin = SettledParent(gs, i) \/ (toJoin = 0 /\ ~Terminal(g)))
  OBVIOUS
<1> HIDE DEF gs
<1>4. gs[1].status # "PENDING"
  <2>1. 1 \in DOMAIN frames
    BY <1>1, FrameFacts
  <2> QED
    BY <1>2, <2>1 DEF SfnLive
<1>5. ParkedHolds(gs)
  BY <1>2 DEF SfnLive, ParkedHolds
<1>6. ASSUME restarts = 0 PROVE CallsAnswered(gs, calls', inbox')
  <2> SUFFICES ASSUME NEW j \in DOMAIN frames, gs[j].status = "CALLING", ~Superseded(gs, j)
               PROVE  Replied(gs[j], j, calls', inbox')
    BY <1>2 DEF CallsAnswered
  <2>1. CASE j = i
    BY <1>2, <2>1
  <2>2. CASE j # i
    <3>1. j # 1 => frames[j].parent \in DOMAIN frames
      BY <1>1, FrameFacts
    <3>2. j = 1 => frames[j].parent = 0
      BY <1>1 DEF FramesFit
    <3>3. ~Superseded(frames, j)
      BY <1>2, <3>1, <3>2 DEF Superseded, SameTree
    <3>4. Replied(frames[j], j, calls, inbox)
      BY <1>2, <1>6, <2>2, <3>3 DEF SfnLive, CallsAnswered
    <3> QED
      BY <1>2, <2>2, <3>4
  <2> QED
    BY <2>1, <2>2
<1>7. ASSUME redrives = 0 PROVE Limited(gs)
  <2> SUFFICES ASSUME NEW p \in DOMAIN frames, gs[p].status = "JOIN",
                      NEW k \in Children(gs, p), gs[k].status = "PENDING"
               PROVE  Def[gs[p].state].limit > 0
    BY <1>2 DEF Limited
  <2>1. p # i /\ gs[p] = frames[p] /\ k \in Children(frames, p)
    BY <1>1, <1>2, SameTreeFits
  <2>2. k \in DOMAIN frames /\ gs[k] = frames[k]
    BY <1>2, <2>1 DEF Children
  <2> QED
    BY <1>7, <2>1, <2>2 DEF SfnLive, Limited
<1>8. ASSUME restarts = 0, redrives = 0 PROVE JoinsFed(gs, toJoin)
  <2> SUFFICES ASSUME NEW p \in DOMAIN frames, gs[p].status = "JOIN", p # toJoin
               PROVE  UnderWay(gs, p) # {} \/ HeldIn(gs, p)
    BY <1>2 DEF JoinsFed
  <2>1. p # i /\ p # 0 /\ frames[p].status = "JOIN"
    BY <1>1, <1>2, FrameFacts
  <2>2. UnderWay(frames, p) # {} \/ HeldIn(frames, p)
    BY <1>8, <2>1 DEF SfnLive, JoinsFed
  <2>3. UnderWay(gs, p) # {} \/ HeldIn(gs, p) \/ SettledParent(gs, i) = p
    BY <1>1, <1>2, <2>1, <2>2, FedStays DEF SamePlace
  <2>4. CASE toJoin = 0 /\ ~Terminal(g)
    <3>1. SettledParent(gs, i) = 0
      BY <1>2, <2>4 DEF SettledParent
    <3> QED
      BY <2>1, <2>3, <3>1
  <2> QED
    BY <1>3, <2>3, <2>4
<1> QED
  BY <1>3, <1>4, <1>5, <1>6, <1>7, <1>8, DriverLive

\* A step that spawns frames.
LEMMA SpawnLive ==
  ASSUME SfnInv, SfnLive, status = "RUNNING", joining = 0,
         NEW i \in DOMAIN frames, frames[i].status = "RUNNABLE",
         Def[frames[i].state].type = "map",
         NEW q \in Nat, Len(frames) + q <= MaxFrames, NEW stray \in BOOLEAN,
         NEW h \in FrameRecord, h.spawnGen = frames[i].spawnGen + 1,
         h.parent = frames[i].parent, h.gen = frames[i].gen, h.stray = frames[i].stray,
         h.status \notin {"PENDING", "PARKED", "CALLING"},
         \/ h.status = "JOIN" /\ h.state = frames[i].state
         \/ h.status # "JOIN" /\ stray,
         NEW toJoin, Save(Fanned(i, h, q, stray), toJoin),
         h.status # "JOIN" => toJoin = SettledParent(Fanned(i, h, q, stray), i),
         h.status = "JOIN" => toJoin = (IF q = 0 THEN i ELSE 0),
         UNCHANGED <<calls, inbox, restarts, redrives>>
  PROVE  SfnLive'
<1> DEFINE gs == Fanned(i, h, q, stray)
           new == DOMAIN gs \ DOMAIN frames
<1>1. FramesFit(frames)
  BY DEF SfnInv
<1>2. /\ FramesFit(gs) /\ DOMAIN frames \subseteq DOMAIN gs /\ gs[i] = h
      /\ \A j \in DOMAIN frames : j # i => gs[j] = frames[j]
      /\ \A j \in new : /\ gs[j].status \in {"PENDING", "RUNNABLE"}
                        /\ gs[j].parent = i /\ gs[j].gen = h.spawnGen
      /\ \A p \in DOMAIN frames : p # i => Children(gs, p) = Children(frames, p)
      /\ Children(gs, i) = new
      /\ \A k \in new : gs[k].status = "PENDING" => Def[frames[i].state].limit > 0
      /\ q > 0 => \E k \in new : gs[k].status = "RUNNABLE"
  <2>1. /\ FramesFit(gs) /\ DOMAIN frames \subseteq DOMAIN gs /\ gs[i] = h
        /\ \A j \in DOMAIN frames : j # i => gs[j] = frames[j]
    BY <1>1, SpawnedFit
  <2>2. \A j \in new : /\ gs[j].status \in {"PENDING", "RUNNABLE"}
                        /\ gs[j].parent = i /\ gs[j].gen = h.spawnGen
    BY <1>1, SpawnedFit
  <2>3. /\ \A p \in DOMAIN frames : p # i => Children(gs, p) = Children(frames, p)
        /\ Children(gs, i) = new
    BY <1>1, SpawnedFit
  <2>4. \A k \in new : gs[k].status = "PENDING" => Def[frames[i].state].limit > 0
    BY <1>1, SpawnedFit
  <2>5. q > 0 => \E k \in new : gs[k].status = "RUNNABLE"
    BY <1>1, SpawnedFit
  <2> QED
    BY <2>1, <2>2, <2>3, <2>4, <2>5
<1>3. /\ Save(gs, toJoin)
      /\ h.status # "JOIN" => toJoin = SettledParent(gs, i)
      /\ h.status = "JOIN" => toJoin = (IF q = 0 THEN i ELSE 0)
  OBVIOUS
<1> HIDE DEF gs
<1>4. gs[1].status # "PENDING"
  <2>1. 1 \in DOMAIN frames
    BY <1>1, FrameFacts
  <2> QED
    BY <1>2, <2>1 DEF SfnLive
<1>5. ParkedHolds(gs)
  BY <1>2 DEF SfnLive, ParkedHolds
<1>6. ASSUME restarts = 0 PROVE CallsAnswered(gs, calls', inbox')
  <2> SUFFICES ASSUME NEW j \in DOMAIN gs, gs[j].status = "CALLING", ~Superseded(gs, j)
               PROVE  Replied(gs[j], j, calls, inbox)
    BY <1>2 DEF CallsAnswered
  <2>1. j \in DOMAIN frames /\ j # i /\ gs[j] = frames[j]
    BY <1>2
  <2>2. ~Superseded(frames, j)
    <3> DEFINE u == frames[j].parent
    <3>1. CASE j = 1
      <4>1. u = 0
        BY <1>1, <2>1, <3>1 DEF FramesFit
      <4> QED
        BY <4>1 DEF Superseded
    <3>2. CASE j # 1 /\ u # i
      <4>1. u \in DOMAIN frames /\ u # 0
        BY <1>1, <2>1, <3>2, FrameFacts
      <4>2. gs[u] = frames[u]
        BY <1>2, <3>2, <4>1
      <4> QED
        BY <2>1, <4>1, <4>2 DEF Superseded
    <3>3. CASE j # 1 /\ u = i
      <4>1. frames[j].gen \in 1..frames[i].spawnGen
        BY <1>1, <2>1, <3>3 DEF FramesFit
      <4>2. gs[i].spawnGen = frames[i].spawnGen + 1
        BY <1>2
      <4>3. frames[i] \in FrameRecord /\ i # 0
        BY <1>1, FrameFacts
      <4>4. frames[i].spawnGen \in Nat
        BY <4>3 DEF FrameRecord
      <4>5. Superseded(gs, j)
        BY <2>1, <3>3, <4>1, <4>2, <4>3, <4>4 DEF Superseded
      <4> QED
        BY <4>5
    <3> QED
      BY <3>1, <3>2, <3>3
  <2> QED
    BY <1>6, <2>1, <2>2 DEF SfnLive, CallsAnswered
<1>7. ASSUME redrives = 0 PROVE Limited(gs)
  <2> SUFFICES ASSUME NEW p \in DOMAIN gs, gs[p].status = "JOIN",
                      NEW k \in Children(gs, p), gs[k].status = "PENDING"
               PROVE  Def[gs[p].state].limit > 0
    BY DEF Limited
  <2>1. p \in DOMAIN frames
    BY <1>2
  <2>2. CASE p = i
    <3>1. Def[frames[i].state].limit > 0 /\ gs[p].state = frames[i].state
      BY <1>2, <2>2
    <3> QED
      BY <3>1
  <2>3. CASE p # i
    <3>1. gs[p] = frames[p] /\ k \in Children(frames, p)
      BY <1>2, <2>1, <2>3
    <3>2. k \in DOMAIN frames /\ k # i /\ gs[k] = frames[k]
      BY <1>2, <3>1 DEF Children
    <3> QED
      BY <1>7, <2>1, <3>1, <3>2 DEF SfnLive, Limited
  <2> QED
    BY <2>2, <2>3
<1>8. ASSUME restarts = 0, redrives = 0 PROVE JoinsFed(gs, toJoin)
  <2> SUFFICES ASSUME NEW p \in DOMAIN gs, gs[p].status = "JOIN", p # toJoin
               PROVE  UnderWay(gs, p) # {} \/ HeldIn(gs, p)
    BY DEF JoinsFed
  <2>1. p \in DOMAIN frames
    BY <1>2
  <2>2. CASE p = i
    <3>1. q # 0
      BY <1>2, <1>3, <2>2
    <3>2. PICK k \in new : gs[k].status = "RUNNABLE"
      BY <1>2, <3>1
    <3>3. k \in UnderWay(gs, p)
      BY <1>2, <2>2, <3>2 DEF UnderWay, Terminal
    <3> QED
      BY <3>3
  <2>3. CASE p # i
    <3>1. p # 0 /\ frames[p].status = "JOIN"
      BY <1>1, <1>2, <2>1, <2>3, FrameFacts
    <3>2. UnderWay(frames, p) # {} \/ HeldIn(frames, p)
      BY <1>8, <2>1, <3>1 DEF SfnLive, JoinsFed
    <3>3. CASE h.status # "JOIN"
      <4>1. UnderWay(gs, p) # {} \/ HeldIn(gs, p) \/ SettledParent(gs, i) = p
        BY <1>1, <1>2, <2>1, <2>3, <3>1, <3>2, <3>3, FedStays
      <4> QED
        BY <1>3, <3>3, <4>1
    <3>4. CASE HeldIn(frames, p)
      <4>1. gs[p] = frames[p] /\ Children(frames, p) = Children(gs, p)
        BY <1>2, <2>1, <2>3
      <4>2. \A k \in Children(frames, p) :
              frames[k].status = "PENDING" => gs[k].status = "PENDING"
        BY <1>2 DEF Children
      <4> QED
        BY <3>4, <4>1, <4>2, HeldBackStays
    <3>5. CASE h.status = "JOIN" /\ UnderWay(frames, p) # {}
      <4>1. PICK k \in UnderWay(frames, p) : TRUE
        BY <3>5
      <4>2. k \in DOMAIN frames /\ k \in Children(gs, p)
        BY <1>2, <2>1, <2>3, <4>1 DEF UnderWay, Children
      <4>3. ~Terminal(gs[k]) /\ gs[k].status # "PENDING"
        BY <1>2, <3>5, <4>1, <4>2 DEF UnderWay, Terminal
      <4> QED
        BY <4>2, <4>3 DEF UnderWay
    <3> QED
      BY <3>2, <3>3, <3>4, <3>5
  <2> QED
    BY <2>2, <2>3
<1> QED
  BY <1>3, <1>4, <1>5, <1>6, <1>7, <1>8, DriverLive

\* A frame calls its task.
LEMMA DispatchLive ==
  ASSUME SfnInv, SfnLive, status = "RUNNING", joining = 0,
         NEW i \in DOMAIN frames, NEW f \in FrameRecord, SamePlace(frames[i], f),
         ~Terminal(frames[i]), frames[i].status \notin {"PENDING", "JOIN"},
         \/ f.status = "CALLING" /\ f.token = 0
         \/ f.status = "PARKED" /\ f.token # 0,
         Dispatch(i, f), UNCHANGED <<inbox, restarts, redrives>>
  PROVE  SfnLive'
<1>1. calls' = calls \cup {CallOf(i, f)} /\ Save([frames EXCEPT ![i] = f], 0)
  BY DEF Dispatch
<1>2. /\ CallOf(i, f).frame = i /\ CallOf(i, f).attempt = f.attempts
      /\ CallOf(i, f).token = f.token
  BY DEF CallOf
<1>3. f.status = "CALLING" => Replied(f, i, calls', inbox')
  BY <1>1, <1>2 DEF Replied
<1>4. \A j \in DOMAIN frames :
        Replied(frames[j], j, calls, inbox) => Replied(frames[j], j, calls', inbox')
  BY <1>1 DEF Replied
<1>5. f.status \notin {"PENDING", "JOIN"} /\ (f.status = "PARKED" => f.token # 0) /\ ~Terminal(f)
  BY DEF Terminal
<1> QED
  BY <1>1, <1>3, <1>4, <1>5, MoveLive

\* drive.
LEMMA AdvanceLive == ASSUME SfnInv, SfnLive, Advance PROVE SfnLive'
<1> DEFINE i == CHOOSE n \in Runnable(frames) : \A m \in Runnable(frames) : n <= m
           f == frames[i]
           s == Def[f.state]
<1>1. FramesFit(frames) /\ Held(frames, tokens, nextCall) /\ nextCall \in Nat \ {0}
  BY DEF SfnInv, DriverFits
<1>2. /\ busy /\ joining = 0 /\ Runnable(frames) # {}
      /\ \/ /\ s.type = "task"
            /\ Dispatch(i, [f EXCEPT !.status = "CALLING"])
         \/ /\ s.type = "token"
            /\ Dispatch(i, [f EXCEPT !.status = "PARKED", !.token = nextCall])
         \/ /\ s.type = "wait"
            /\ Save([frames EXCEPT ![i] = [f EXCEPT !.status = "SLEEPING"]], 0)
            /\ UNCHANGED <<tokens, calls, nextCall>>
         \/ /\ s.type = "map"
            /\ Len(frames) + s.items <= MaxFrames
            /\ Save([frames EXCEPT ![i] = [f EXCEPT !.status = "JOIN", !.spawnGen = @ + 1]]
                      \o Spawned(i, s.items, FALSE),
                    IF s.items = 0 THEN i ELSE 0)
            /\ UNCHANGED <<tokens, calls, nextCall>>
         \/ EntryFails(i)
         \/ SpawnFails(i)
      /\ UNCHANGED <<nudged, inbox, restarts, redrives>>
  BY DEF Advance
<1>3. i \in DOMAIN frames /\ f.status = "RUNNABLE"
  BY <1>1, <1>2, FirstRunnable
<1> HIDE DEF i
<1>4. f \in FrameRecord /\ f.token = 0 /\ ~Terminal(f)
  BY <1>1, <1>3, FrameFacts DEF Held, Terminal
<1>5. ASSUME NEW st \in {"CALLING", "SLEEPING"}
      PROVE  LET g == [f EXCEPT !.status = st]
             IN  /\ g \in FrameRecord /\ SamePlace(f, g) /\ g.status = st
                 /\ g.token = f.token
  BY <1>4 DEF FrameRecord, FrameStatus, SamePlace
<1>50. status = "RUNNING" /\ joining = 0 /\ UNCHANGED <<inbox, restarts, redrives>>
  BY <1>2 DEF SfnLive
<1>6. CASE s.type = "task" /\ Dispatch(i, [f EXCEPT !.status = "CALLING"])
  <2> DEFINE g == [f EXCEPT !.status = "CALLING"]
  <2>1. g \in FrameRecord /\ SamePlace(f, g) /\ g.status = "CALLING" /\ g.token = 0
    BY <1>4, <1>5
  <2>2. Dispatch(i, g)
    BY <1>6
  <2> HIDE DEF g
  <2> QED
    BY <1>3, <1>4, <1>50, <2>1, <2>2, DispatchLive
<1>7. CASE s.type = "token" /\ Dispatch(i, [f EXCEPT !.status = "PARKED", !.token = nextCall])
  <2> DEFINE g == [f EXCEPT !.status = "PARKED", !.token = nextCall]
  <2>1. g \in FrameRecord
    BY <1>1, <1>4 DEF FrameRecord, FrameStatus
  <2>2. SamePlace(f, g) /\ g.status = "PARKED" /\ g.token = nextCall
    BY <1>4 DEF FrameRecord, SamePlace
  <2>3. Dispatch(i, g) /\ g.token # 0
    BY <1>1, <1>7, <2>2
  <2> HIDE DEF g
  <2> QED
    BY <1>3, <1>4, <1>50, <2>1, <2>2, <2>3, DispatchLive
<1>8. CASE /\ s.type = "wait"
           /\ Save([frames EXCEPT ![i] = [f EXCEPT !.status = "SLEEPING"]], 0)
           /\ UNCHANGED <<tokens, calls, nextCall>>
  <2> DEFINE g == [f EXCEPT !.status = "SLEEPING"]
  <2>1. g \in FrameRecord /\ SamePlace(f, g) /\ g.status = "SLEEPING" /\ ~Terminal(g)
    BY <1>4, <1>5 DEF Terminal
  <2>2. Save([frames EXCEPT ![i] = g], 0)
    BY <1>8
  <2> HIDE DEF g
  <2> QED
    BY <1>3, <1>4, <1>50, <1>8, <2>1, <2>2, MoveLive
<1>9. CASE /\ s.type = "map"
           /\ Len(frames) + s.items <= MaxFrames
           /\ Save([frames EXCEPT ![i] = [f EXCEPT !.status = "JOIN", !.spawnGen = @ + 1]]
                     \o Spawned(i, s.items, FALSE),
                   IF s.items = 0 THEN i ELSE 0)
           /\ UNCHANGED <<tokens, calls, nextCall>>
  <2> DEFINE h == [f EXCEPT !.status = "JOIN", !.spawnGen = @ + 1]
             q == s.items
             to == IF q = 0 THEN i ELSE 0
  <2>1. /\ h \in FrameRecord /\ h.status = "JOIN" /\ h.spawnGen = f.spawnGen + 1
        /\ h.parent = f.parent /\ h.gen = f.gen /\ h.state = f.state
        /\ h.stray = f.stray
    BY <1>4, JoinsFrame
  <2>2. Save(Fanned(i, h, q, FALSE), to)
    BY <1>9 DEF Fanned
  <2>3. s.items \in Nat
    BY <1>4, SfnAssumption DEF FrameRecord, StateRecord
  <2>4. q \in Nat /\ Len(frames) + q <= MaxFrames /\ s.type = "map"
    BY <1>9, <2>3
  <2>5. UNCHANGED <<calls, inbox, restarts, redrives>>
    BY <1>2, <1>9
  <2> HIDE DEF h, q
  <2>6. to = (IF q = 0 THEN i ELSE 0)
    OBVIOUS
  <2> HIDE DEF to
  <2>7. \A stray \in BOOLEAN : Save(Fanned(i, h, q, stray), to) => SfnLive'
    BY <1>3, <1>50, <2>1, <2>4, <2>5, <2>6, SpawnLive
  <2> QED
    BY <2>2, <2>7
<1>10. CASE EntryFails(i)
  <2>1. PICK g \in {FailFrame(f)} \cup Unwound(f) :
          Save([frames EXCEPT ![i] = g], SettledParent([frames EXCEPT ![i] = g], i))
    BY <1>10 DEF EntryFails
  <2>2. Moved(f, g)
    BY <1>4, <2>1, DeliveredFrame
  <2>3. /\ g \in FrameRecord /\ SamePlace(f, g)
        /\ g.status \notin {"JOIN", "PENDING", "PARKED", "CALLING"}
    BY <2>2 DEF Moved
  <2>4. UNCHANGED <<calls, inbox, restarts, redrives>>
    BY <1>2, <1>10 DEF EntryFails
  <2> QED
    BY <1>3, <1>4, <1>50, <2>1, <2>3, <2>4, MoveLive
<1>11. CASE SpawnFails(i)
  <2> DEFINE o == [f EXCEPT !.spawnGen = @ + 1]
  <2>1. PICK n \in 0..(s.items - 1), g \in Unwound(o) :
          LET gs == [frames EXCEPT ![i] = g] \o Spawned(i, n, TRUE)
          IN  Len(frames) + n <= MaxFrames /\ Save(gs, SettledParent(gs, i))
    BY <1>11 DEF SpawnFails
  <2>2. s.items \in Nat /\ s.type = "map"
    BY <1>4, <1>11, SfnAssumption DEF FrameRecord, StateRecord, SpawnFails
  <2>3. o \in FrameRecord /\ o.spawnGen = f.spawnGen + 1 /\ o.parent = f.parent
        /\ o.gen = f.gen /\ o.stray = f.stray
    BY <1>4, OpensFrame
  <2> HIDE DEF o
  <2>4. Moved(o, g)
    BY <2>3, DeliveredFrame
  <2>5. /\ g \in FrameRecord /\ g.status \notin {"JOIN", "PENDING", "PARKED", "CALLING"}
        /\ g.spawnGen = f.spawnGen + 1 /\ g.parent = f.parent /\ g.gen = f.gen
        /\ g.stray = f.stray
    BY <2>3, <2>4 DEF Moved, SamePlace
  <2> DEFINE gs == Fanned(i, g, n, TRUE)
  <2>6. n \in Nat /\ Len(frames) + n <= MaxFrames /\ Save(gs, SettledParent(gs, i))
    <3>1. n \in Nat
      BY <2>2
    <3> QED
      BY <2>1, <3>1 DEF Fanned
  <2>7. UNCHANGED <<calls, inbox, restarts, redrives>>
    BY <1>2, <1>11 DEF SpawnFails
  <2> QED
    BY <1>3, <1>50, <2>2, <2>5, <2>6, <2>7, SpawnLive
<1> QED
  BY <1>2, <1>6, <1>7, <1>8, <1>9, <1>10, <1>11

\* Frames that start, settle or back off ask for no answer and join nothing.
LEMMA SettlingLive ==
  ASSUME SfnInv, SfnLive, status = "RUNNING", NEW gs, SameTree(frames, gs),
         \A k \in DOMAIN frames :
           \/ gs[k] = frames[k]
           \/ gs[k].status \in {"RUNNABLE", "RETRY_WAIT", "DONE", "FAILED"}
  PROVE  /\ gs[1].status # "PENDING" /\ ParkedHolds(gs)
         /\ restarts = 0 => CallsAnswered(gs, calls, inbox)
         /\ redrives = 0 => Limited(gs)
<1>1. FramesFit(frames)
  BY DEF SfnInv
<1>2. /\ FramesFit(gs) /\ DOMAIN gs = DOMAIN frames
      /\ \A p \in DOMAIN frames : Children(gs, p) = Children(frames, p)
  BY <1>1, SameTreeFits
<1>3. gs[1].status # "PENDING"
  <2>1. 1 \in DOMAIN frames
    BY <1>1, FrameFacts
  <2> QED
    BY <2>1 DEF SfnLive
<1>4. ParkedHolds(gs)
  BY <1>2 DEF ParkedHolds, SfnLive
<1>5. ASSUME restarts = 0 PROVE CallsAnswered(gs, calls, inbox)
  <2> SUFFICES ASSUME NEW j \in DOMAIN frames, gs[j].status = "CALLING", ~Superseded(gs, j)
               PROVE  Replied(gs[j], j, calls, inbox)
    BY <1>2 DEF CallsAnswered
  <2>1. gs[j] = frames[j]
    OBVIOUS
  <2>2. j # 1 => frames[j].parent \in DOMAIN frames
    BY <1>1, FrameFacts
  <2>3. j = 1 => frames[j].parent = 0
    BY <1>1 DEF FramesFit
  <2>4. ~Superseded(frames, j)
    BY <2>1, <2>2, <2>3 DEF Superseded, SameTree
  <2> QED
    BY <1>5, <2>1, <2>4 DEF SfnLive, CallsAnswered
<1>6. ASSUME redrives = 0 PROVE Limited(gs)
  <2> SUFFICES ASSUME NEW p \in DOMAIN frames, gs[p].status = "JOIN",
                      NEW k \in Children(frames, p), gs[k].status = "PENDING"
               PROVE  Def[gs[p].state].limit > 0
    BY <1>2 DEF Limited
  <2>1. gs[p] = frames[p] /\ k \in DOMAIN frames /\ gs[k] = frames[k]
    BY DEF Children
  <2> QED
    BY <1>6, <2>1 DEF SfnLive, Limited
<1> QED
  BY <1>3, <1>4, <1>5, <1>6

\* A join that goes on has a branch under way or holds one back: PromotePending
\* starts the first that waits when none is, unless it finds no limit.
LEMMA PromotedFeeds ==
  ASSUME FramesFit(frames), Limited(frames), NEW p \in DOMAIN frames,
         frames[p].status = "JOIN", ~JoinDone(Promoted(p), p)
  PROVE  UnderWay(Promoted(p), p) # {} \/ HeldIn(Promoted(p), p)
<1> DEFINE fs == Promoted(p)
           wait == {k \in Children(frames, p) : frames[k].status = "PENDING"}
<1>1. /\ DOMAIN fs = DOMAIN frames
      /\ \A k \in DOMAIN frames :
           fs[k] = IF k \in Promotes(p) THEN [frames[k] EXCEPT !.status = "RUNNABLE"] ELSE frames[k]
  BY PromotedIs
<1>2. SameTree(frames, fs)
  BY PromotedFit
<1>3. PICK k \in Children(fs, p) : ~Terminal(fs[k])
  BY DEF JoinDone
<1> HIDE DEF fs
<1>4. Children(fs, p) = Children(frames, p)
  BY <1>2, SameTreeFits
<1>5. \A j \in Promotes(p) : j \in Children(frames, p) /\ frames[j].status = "PENDING"
  BY DEF Promotes
<1>6. \A j \in DOMAIN frames : frames[j] \in FrameRecord
  BY FrameFacts
<1>7. \A j \in Promotes(p) : j \in UnderWay(fs, p)
  <2> SUFFICES ASSUME NEW j \in Promotes(p) PROVE j \in UnderWay(fs, p)
    OBVIOUS
  <2>1. j \in DOMAIN frames /\ j \in Children(frames, p)
    BY <1>5 DEF Children
  <2>2. fs[j] = [frames[j] EXCEPT !.status = "RUNNABLE"] /\ frames[j] \in FrameRecord
    BY <1>1, <1>6, <2>1
  <2>3. fs[j].status = "RUNNABLE"
    BY <2>2 DEF FrameRecord
  <2> QED
    BY <1>4, <2>1, <2>3 DEF UnderWay, Terminal
<1>8. \A j \in UnderWay(frames, p) : j \in UnderWay(fs, p)
  <2> SUFFICES ASSUME NEW j \in UnderWay(frames, p) PROVE j \in UnderWay(fs, p)
    OBVIOUS
  <2>1. j \in Children(frames, p) /\ j \in DOMAIN frames /\ ~Terminal(frames[j])
        /\ frames[j].status # "PENDING"
    BY DEF UnderWay, Children
  <2>2. fs[j] = frames[j]
    BY <1>1, <1>5, <2>1
  <2> QED
    BY <1>4, <2>1, <2>2 DEF UnderWay
<1>9. CASE UnderWay(frames, p) # {}
  BY <1>8, <1>9 DEF fs
<1>10. CASE UnderWay(frames, p) = {}
  <2>1. k \in Children(frames, p) /\ k \in DOMAIN frames
    BY <1>3, <1>4 DEF Children
  <2>2. frames[k].status = "PENDING"
    <3>1. CASE k \in Promotes(p)
      BY <1>5, <3>1
    <3>2. CASE k \notin Promotes(p)
      <4>1. fs[k] = frames[k]
        BY <1>1, <2>1, <3>2
      <4> QED
        BY <1>3, <1>10, <2>1, <4>1 DEF UnderWay
    <3> QED
      BY <3>1, <3>2
  <2>3. wait # {} /\ wait \in SUBSET Nat
    BY <2>1, <2>2, FrameFacts DEF Children
  <2>4. PICK m \in wait : \A j \in wait : m <= j
    <3> HIDE DEF wait
    <3> QED
      BY <2>3, LowestName
  <2>5. Before(p, m) = {}
    <3>1. \A j \in wait : ~(j < m)
      BY <2>3, <2>4
    <3> QED
      BY <3>1 DEF Before
  <2>6. Def[frames[p].state].limit > 0 /\ Def[frames[p].state].kept \in Nat
    <3>1. frames[p].state \in Names
      BY <1>6 DEF FrameRecord
    <3> QED
      BY <2>4, <3>1, SfnAssumption DEF Limited, StateRecord
  <2>7. Cardinality(UnderWay(frames, p)) = 0 /\ Cardinality(Before(p, m)) = 0
    BY <1>10, <2>5, FS_EmptySet
  <2>8. CASE Def[frames[p].state].kept > 0
    <3>1. m \in Promotes(p)
      BY <2>4, <2>6, <2>7, <2>8 DEF Promotes
    <3> QED
      BY <1>7, <3>1 DEF fs
  <2>9. CASE Def[frames[p].state].kept = 0
    <3>1. Promotes(p) = {}
      BY <2>9 DEF Promotes
    <3>2. fs[p] = frames[p] /\ m \in Children(fs, p)
      BY <1>1, <1>4, <2>4, <3>1
    <3>3. fs[m].status = "PENDING"
      BY <1>1, <2>4, <3>1 DEF Children
    <3>4. HeldIn(fs, p)
      BY <2>6, <2>9, <3>2, <3>3 DEF HeldIn
    <3> QED
      BY <3>4 DEF fs
  <2> QED
    BY <2>6, <2>8, <2>9
<1> QED
  BY <1>9, <1>10 DEF fs

\* childSettled, after the child's outcome is stored.
LEMMA JoinLive == ASSUME SfnInv, SfnLive, Join PROVE SfnLive'
<1> DEFINE p == joining
           fs == Promoted(p)
<1>1. FramesFit(frames) /\ status = "RUNNING"
  BY DEF SfnInv, SfnLive, Join
<1>2. p \in DOMAIN frames /\ frames[p].status = "JOIN" /\ p # 0
  BY DEF Join, SfnInv, DriverFits
<1>3. /\ \/ JoinDone(fs, p) /\ Deliver(Abandoned(fs, p), p, ~JoinFailed(fs, p))
         \/ ~JoinDone(fs, p) /\ Save(fs, 0) /\ UNCHANGED tokens
      /\ UNCHANGED <<nudged, calls, inbox, nextCall, restarts, redrives>>
  BY DEF Join
<1>4. /\ SameTree(frames, fs)
      /\ \A k \in DOMAIN frames :
           \/ fs[k] = frames[k]
           \/ frames[k].status = "PENDING" /\ fs[k].status = "RUNNABLE"
      /\ \A k \in DOMAIN frames : fs[k] # frames[k] => k \in Children(frames, p)
  <2>1. \A k \in DOMAIN frames : fs[k] # frames[k] => k \in Children(frames, p)
    BY <1>1, <1>2, PromotedIs DEF Promotes
  <2> QED
    BY <1>1, <1>2, <2>1, PromotedFit
<1>5. ASSUME redrives = 0, ~JoinDone(fs, p) PROVE UnderWay(fs, p) # {} \/ HeldIn(fs, p)
  BY <1>1, <1>2, <1>5, PromotedFeeds DEF SfnLive
<1> HIDE DEF fs
<1>6. /\ FramesFit(fs) /\ DOMAIN fs = DOMAIN frames
      /\ \A q \in DOMAIN frames : Children(fs, q) = Children(frames, q)
  BY <1>1, <1>4, SameTreeFits
<1>7. ASSUME restarts = 0, redrives = 0, NEW q \in DOMAIN frames, q # p, fs[q].status = "JOIN"
      PROVE  UnderWay(fs, q) # {} \/ HeldIn(fs, q)
  <2>1. frames[q].status = "JOIN" /\ fs[q] = frames[q]
    BY <1>4, <1>7
  <2>2. UnderWay(frames, q) # {} \/ HeldIn(frames, q)
    BY <1>1, <1>7, <2>1 DEF SfnLive, JoinsFed
  <2>6. CASE HeldIn(frames, q)
    <3>1. \A k \in Children(frames, q) : fs[k] = frames[k]
      BY <1>4, <1>7 DEF Children
    <3> QED
      BY <1>6, <2>1, <2>6, <3>1, HeldBackStays
  <2> SUFFICES ASSUME UnderWay(frames, q) # {} PROVE UnderWay(fs, q) # {}
    BY <2>2, <2>6
  <2>3. PICK k \in UnderWay(frames, q) : TRUE
    OBVIOUS
  <2>4. k \in DOMAIN frames /\ k \in Children(frames, q) /\ fs[k] = frames[k]
    BY <1>4, <2>3 DEF UnderWay, Children
  <2>5. k \in UnderWay(fs, q)
    BY <1>6, <1>7, <2>3, <2>4 DEF UnderWay
  <2> QED
    BY <2>5
<1>8. calls' = calls /\ inbox' = inbox /\ UNCHANGED <<restarts, redrives>>
  BY <1>3
<1>9. CASE ~JoinDone(fs, p) /\ Save(fs, 0)
  <2>1. /\ fs[1].status # "PENDING" /\ ParkedHolds(fs)
        /\ restarts = 0 => CallsAnswered(fs, calls, inbox)
        /\ redrives = 0 => Limited(fs)
    BY <1>1, <1>4, SettlingLive
  <2>2. restarts = 0 /\ redrives = 0 => JoinsFed(fs, 0)
    BY <1>5, <1>6, <1>7, <1>9 DEF JoinsFed
  <2> QED
    BY <1>8, <1>9, <2>1, <2>2, DriverLive
<1>10. CASE JoinDone(fs, p) /\ Deliver(Abandoned(fs, p), p, ~JoinFailed(fs, p))
  <2> DEFINE ok == ~JoinFailed(fs, p)
             as == Abandoned(fs, p)
  <2>1. ok \in BOOLEAN /\ p \in DOMAIN fs /\ fs[p].status = "JOIN" /\ fs[p] = frames[p]
    BY <1>2, <1>4, <1>6
  <2>2. as[p] = fs[p]
    <3>1. p \in DOMAIN fs /\ p \notin Children(fs, p)
      BY <1>6, <2>1, FrameFacts
    <3> QED
      BY <3>1 DEF Abandoned
  <2>3. PICK g \in Delivered(fs[p], ok) :
          Save([as EXCEPT ![p] = g], SettledParent([as EXCEPT ![p] = g], p))
    BY <1>10, <2>2 DEF Deliver
  <2> HIDE DEF ok
  <2> DEFINE gs == [as EXCEPT ![p] = g]
  <2>4. /\ SameTree(fs, gs) /\ gs[p] = g
        /\ \A k \in DOMAIN fs : k # p =>
             \/ gs[k] = fs[k]
             \/ k \in Children(fs, p) /\ gs[k].status = "FAILED"
    BY <1>6, <2>1, JoinedFit
  <2>5. Save(gs, SettledParent(gs, p))
    BY <2>3
  <2> HIDE DEF as, gs
  <2>6. g.status \in {"RUNNABLE", "RETRY_WAIT", "DONE", "FAILED"}
    <3>1. fs[p] \in FrameRecord
      BY <1>2, <1>6, FrameFacts
    <3> QED
      BY <2>1, <2>3, <3>1, DeliveredFrame DEF Moved
  <2>7. SameTree(frames, gs)
    BY <1>4, <1>6, <2>4 DEF SameTree
  <2>8. \A k \in DOMAIN frames :
          \/ gs[k] = frames[k]
          \/ gs[k].status \in {"RUNNABLE", "RETRY_WAIT", "DONE", "FAILED"}
    BY <1>4, <1>6, <2>4, <2>6
  <2>9. /\ gs[1].status # "PENDING" /\ ParkedHolds(gs)
        /\ restarts = 0 => CallsAnswered(gs, calls, inbox)
        /\ redrives = 0 => Limited(gs)
    BY <1>1, <2>7, <2>8, SettlingLive
  <2>10. /\ FramesFit(gs) /\ DOMAIN gs = DOMAIN fs
         /\ \A q \in DOMAIN fs : Children(gs, q) = Children(fs, q)
    BY <1>6, <2>4, SameTreeFits
  <2>11. ASSUME restarts = 0, redrives = 0,
                NEW q \in DOMAIN frames, gs[q].status = "JOIN", q # SettledParent(gs, p)
         PROVE  UnderWay(gs, q) # {} \/ HeldIn(gs, q)
    <3>1. q # p /\ fs[q].status = "JOIN" /\ gs[q] = fs[q]
      BY <1>6, <2>4, <2>6, <2>11
    <3>6. CASE HeldIn(fs, q)
      <4>1. \A k \in Children(fs, q) :
              (k # p /\ k \in DOMAIN fs /\ k \notin Children(fs, p)) \/ fs[k].status # "PENDING"
        BY <2>1, <3>1 DEF Children
      <4>2. \A k \in Children(fs, q) : fs[k].status = "PENDING" => gs[k].status = "PENDING"
        BY <2>4, <4>1
      <4>3. Children(gs, q) = Children(fs, q)
        BY <1>6, <2>10
      <4> QED
        BY <3>1, <3>6, <4>2, <4>3, HeldBackStays
    <3> SUFFICES ASSUME ~HeldIn(fs, q) PROVE UnderWay(gs, q) # {}
      BY <3>6
    <3>2. PICK k \in UnderWay(fs, q) : TRUE
      BY <1>7, <2>11, <3>1
    <3>3. /\ k \in DOMAIN fs /\ k \in Children(fs, q) /\ fs[k].parent = q
          /\ ~Terminal(fs[k]) /\ fs[k].status # "PENDING"
      BY <3>2 DEF UnderWay, Children
    <3>4. CASE k # p
      <4>1. k \notin Children(fs, p)
        BY <3>1, <3>3 DEF Children
      <4>2. gs[k] = fs[k]
        BY <2>4, <3>3, <3>4, <4>1
      <4>3. k \in UnderWay(gs, q)
        BY <1>6, <2>10, <3>3, <4>2 DEF UnderWay
      <4> QED
        BY <4>3
    <3>5. CASE k = p
      <4>1. gs[p].parent = q /\ p # 1 /\ gs[q].status = "JOIN"
        <5>1. gs[p].parent = fs[p].parent
          BY <2>1, <2>4 DEF SameTree
        <5>2. q # 0
          BY <1>1, FrameFacts
        <5> QED
          BY <1>6, <2>11, <3>3, <3>5, <5>1, <5>2 DEF FramesFit
      <4>2. ~Terminal(gs[p])
        BY <2>11, <4>1 DEF SettledParent
      <4>3. p \in UnderWay(gs, q)
        BY <1>6, <2>4, <2>6, <2>10, <3>3, <3>5, <4>2 DEF UnderWay
      <4> QED
        BY <4>3
    <3> QED
      BY <3>4, <3>5
  <2>12. restarts = 0 /\ redrives = 0 => JoinsFed(gs, SettledParent(gs, p))
    BY <1>6, <2>10, <2>11 DEF JoinsFed
  <2> QED
    BY <1>8, <2>5, <2>9, <2>12, DriverLive
<1> QED
  BY <1>3, <1>9, <1>10

\* A result goes into a frame that waits for one.
LEMMA DeliverLive ==
  ASSUME SfnInv, SfnLive, status = "RUNNING", joining = 0,
         NEW i \in DOMAIN frames, ~Terminal(frames[i]),
         frames[i].status \notin {"PENDING", "JOIN"}, NEW ok \in BOOLEAN,
         Deliver(frames, i, ok), UNCHANGED <<calls, restarts, redrives>>,
         \A d \in inbox : d \in inbox' \/ d.frame = i
  PROVE  SfnLive'
<1>1. PICK g \in Delivered(frames[i], ok) :
        Save([frames EXCEPT ![i] = g], SettledParent([frames EXCEPT ![i] = g], i))
  BY DEF Deliver
<1>2. frames[i] \in FrameRecord
  BY FrameFacts DEF SfnInv
<1>3. /\ g \in FrameRecord /\ SamePlace(frames[i], g)
      /\ g.status \notin {"PENDING", "JOIN", "PARKED", "CALLING"}
  BY <1>1, <1>2, DeliveredFrame DEF Moved
<1>4. \A j \in DOMAIN frames : j # i /\ Replied(frames[j], j, calls, inbox) =>
        Replied(frames[j], j, calls', inbox')
  BY DEF Replied
<1> QED
  BY <1>1, <1>3, <1>4, MoveLive

\* fireDue.
LEMMA TimerLive ==
  ASSUME SfnInv, SfnLive, NEW i \in DOMAIN frames, WakeFrame(i) \/ TimeOut(i)
  PROVE  SfnLive'
<1> DEFINE f == frames[i]
<1>1. f \in FrameRecord /\ Held(frames, tokens, nextCall)
  BY FrameFacts DEF SfnInv
<1>2. status = "RUNNING" /\ joining = 0 /\ UNCHANGED <<inbox, restarts, redrives>>
  BY DEF WakeFrame, TimeOut, SfnInv, DriverFits
<1>3. CASE TimeOut(i)
  BY <1>2, <1>3, DeliverLive DEF TimeOut, Terminal
<1>4. CASE WakeFrame(i) /\ f.status = "SLEEPING"
  <2>1. PICK g \in {Exited(f), FailFrame(f)} :
          Save([frames EXCEPT ![i] = g], SettledParent([frames EXCEPT ![i] = g], i))
    BY <1>4 DEF WakeFrame
  <2>2. Moved(f, g)
    BY <1>1, <2>1, DeliveredFrame
  <2>3. /\ g \in FrameRecord /\ SamePlace(f, g)
        /\ g.status \notin {"PENDING", "JOIN", "PARKED", "CALLING"}
    BY <2>2 DEF Moved
  <2>4. UNCHANGED calls
    BY <1>4 DEF WakeFrame
  <2> QED
    BY <1>2, <1>4, <2>1, <2>3, <2>4, MoveLive DEF Terminal
<1>5. CASE WakeFrame(i) /\ f.status = "RETRY_WAIT"
  <2> DEFINE st == IF f.token = 0 THEN "CALLING" ELSE "PARKED"
             g == [f EXCEPT !.status = st]
  <2>1. /\ st \in {"CALLING", "PARKED"}
        /\ (st = "CALLING" /\ f.token = 0) \/ (st = "PARKED" /\ f.token # 0)
    OBVIOUS
  <2>2. Dispatch(i, g)
    BY <1>5 DEF WakeFrame
  <2> HIDE DEF st
  <2>3. g \in FrameRecord
    BY <1>1, <2>1 DEF FrameRecord, FrameStatus
  <2>4. SamePlace(f, g) /\ g.status = st /\ g.token = f.token
    BY <1>1 DEF FrameRecord, SamePlace
  <2> HIDE DEF g
  <2> QED
    BY <1>2, <1>5, <2>1, <2>2, <2>3, <2>4, DispatchLive DEF Terminal
<1> QED
  BY <1>3, <1>4, <1>5 DEF WakeFrame

\* A delivery, applied or dropped: a dropped one answers no call.
LEMMA DeliveryLive ==
  ASSUME SfnInv, SfnLive, NEW d \in inbox, ApplyDelivery(d)
  PROVE  SfnLive'
<1>1. d.frame \in DOMAIN frames /\ d.ok \in BOOLEAN
  BY DEF SfnInv, OthersFit, Delivery
<1>2. inbox' = inbox \ {d} /\ UNCHANGED <<nudged, calls, nextCall, restarts, redrives>> /\ ~busy
  BY DEF ApplyDelivery
<1>3. CASE /\ status # "RUNNING" \/ Stale(d)
           /\ UNCHANGED <<status, frames, tokens, joining, busy>>
  <2>1. restarts = 0 /\ status = "RUNNING" => CallsAnswered(frames, calls, inbox')
    <3> SUFFICES ASSUME restarts = 0, status = "RUNNING", NEW i \in DOMAIN frames,
                        frames[i].status = "CALLING", ~Superseded(frames, i)
                 PROVE  Replied(frames[i], i, calls, inbox')
      BY DEF CallsAnswered
    <3>1. Replied(frames[i], i, calls, inbox)
      BY DEF SfnLive, CallsAnswered
    <3>2. ~(d.frame = i /\ d.attempt = frames[i].attempts /\ d.by = "engine")
      BY <1>3 DEF Stale
    <3> QED
      BY <1>2, <3>1, <3>2 DEF Replied
  <2> QED
    BY <1>2, <1>3, <2>1 DEF SfnLive
<1>4. CASE status = "RUNNING" /\ ~Stale(d) /\ Deliver(frames, d.frame, d.ok)
  <2>1. frames[d.frame].status \in {"CALLING", "PARKED"}
    BY <1>4 DEF Stale
  <2>2. joining = 0
    BY <1>2 DEF SfnInv, DriverFits
  <2>3. \A e \in inbox : e \in inbox' \/ e.frame = d.frame
    BY <1>2
  <2> QED
    BY <1>1, <1>2, <1>4, <2>1, <2>2, <2>3, DeliverLive DEF Terminal
<1> QED
  BY <1>3, <1>4 DEF ApplyDelivery

\* The workers and the callers of SendTask.
LEMMA ReplyLive ==
  ASSUME SfnInv, SfnLive,
         \/ \E c \in calls, ok \in BOOLEAN : CallReturns(c, ok)
         \/ \E w \in Workers, t \in DOMAIN tokens, ok \in BOOLEAN : SendTask(w, t, ok)
  PROVE  SfnLive'
<1>1. UNCHANGED <<status, frames, nudged, busy, joining, restarts, redrives>>
  BY DEF CallReturns, SendTask
<1>2. \A i \in DOMAIN frames :
        Replied(frames[i], i, calls, inbox) => Replied(frames[i], i, calls', inbox')
  <2>1. ASSUME NEW c \in calls, NEW ok \in BOOLEAN, CallReturns(c, ok),
               NEW i \in DOMAIN frames, Replied(frames[i], i, calls, inbox)
        PROVE  Replied(frames[i], i, calls', inbox')
    <3> DEFINE e == [frame |-> c.frame, call |-> c.call, token |-> c.token,
                     attempt |-> c.attempt, ok |-> ok, by |-> "engine"]
    <3>1. e.frame = c.frame /\ e.attempt = c.attempt /\ e.by = "engine"
      OBVIOUS
    <3>2. calls' = calls \ {c} /\ inbox' = IF c.token # 0 /\ ok THEN inbox ELSE inbox \cup {e}
      BY <2>1 DEF CallReturns
    <3> HIDE DEF e
    <3>3. CASE c.frame = i /\ c.attempt = frames[i].attempts /\ c.token = 0
      BY <3>1, <3>2, <3>3 DEF Replied
    <3>4. CASE ~(c.frame = i /\ c.attempt = frames[i].attempts /\ c.token = 0)
      BY <2>1, <3>2, <3>4 DEF Replied
    <3> QED
      BY <3>3, <3>4
  <2>2. ASSUME NEW w \in Workers, NEW t \in DOMAIN tokens, NEW ok \in BOOLEAN, SendTask(w, t, ok),
               NEW i \in DOMAIN frames, Replied(frames[i], i, calls, inbox)
        PROVE  Replied(frames[i], i, calls', inbox')
    <3>1. calls' = calls /\ inbox \subseteq inbox'
      BY <2>2 DEF SendTask
    <3> QED
      BY <2>2, <3>1 DEF Replied
  <2> QED
    BY <2>1, <2>2
<1>3. restarts = 0 /\ status = "RUNNING" => CallsAnswered(frames, calls', inbox')
  BY <1>2 DEF SfnLive, CallsAnswered
<1> QED
  BY <1>1, <1>3 DEF SfnLive

\* RedriveExecution: the root runs again, and no frame of a generation that is
\* not old still waits for a call.
LEMMA RedriveLive == ASSUME SfnInv, SfnLive, Redrive PROVE SfnLive'
<1> DEFINE gs == [i \in DOMAIN frames |-> Redriven(i)]
<1>1. FramesFit(frames)
  BY DEF SfnInv
<1>2. /\ frames' = gs /\ status' = "RUNNING" /\ redrives' = redrives + 1 /\ nudged' = TRUE
      /\ UNCHANGED <<busy, joining, restarts>> /\ ~busy /\ status \in {"FAILED", "ABORTED"}
  BY DEF Redrive
<1>3. ASSUME NEW i \in DOMAIN frames
      PROVE  \/ /\ Redriven(i) = frames[i]
                /\ \/ frames[i].status \in {"DONE", "PENDING", "RUNNABLE", "JOIN"}
                   \/ Superseded(frames, i)
             \/ /\ Redriven(i).status \in {"JOIN", "RUNNABLE"} /\ SamePlace(frames[i], Redriven(i))
  <2> DEFINE f == frames[i]
  <2>1. f \in FrameRecord
    BY <1>1, FrameFacts
  <2>2. \/ /\ Redriven(i) = f
           /\ f.status \in {"DONE", "PENDING", "RUNNABLE", "JOIN"} \/ Superseded(frames, i)
        \/ Redriven(i) = [f EXCEPT !.status = "JOIN"]
        \/ Redriven(i) = [f EXCEPT !.status = "RUNNABLE", !.attempts = 0, !.token = 0]
    BY DEF Redriven, Superseded
  <2>3. CASE Redriven(i) = [f EXCEPT !.status = "JOIN"]
    BY <2>1, <2>3 DEF FrameRecord, SamePlace
  <2>4. CASE Redriven(i) = [f EXCEPT !.status = "RUNNABLE", !.attempts = 0, !.token = 0]
    BY <2>1, <2>4 DEF FrameRecord, SamePlace
  <2> QED
    BY <2>2, <2>3, <2>4
<1>4. \A i \in DOMAIN frames : gs[i] = Redriven(i)
  OBVIOUS
<1>5. DOMAIN gs = DOMAIN frames
  OBVIOUS
<1> HIDE DEF gs
<1>6. ~Terminal(gs[1]) /\ gs[1].status # "PENDING"
  <2>1. 1 \in DOMAIN frames /\ frames[1].parent = 0
    BY <1>1, FrameFacts DEF FramesFit
  <2>2. ~Superseded(frames, 1)
    BY <2>1 DEF Superseded
  <2>3. frames[1].status \notin {"DONE", "PENDING"}
    BY <1>2 DEF SfnLive, Terminal
  <2> QED
    BY <1>3, <1>4, <2>1, <2>2, <2>3 DEF Terminal
<1>7. ParkedHolds(gs)
  BY <1>3, <1>4, <1>5 DEF SfnLive, ParkedHolds
<1>8. CallsAnswered(gs, calls', inbox')
  <2> SUFFICES ASSUME NEW j \in DOMAIN frames, gs[j].status = "CALLING"
               PROVE  Superseded(gs, j)
    BY <1>5 DEF CallsAnswered
  <2>1. gs[j] = frames[j] /\ Superseded(frames, j)
    BY <1>3, <1>4
  <2>2. frames[j].parent # 0 /\ frames[j].gen # frames[frames[j].parent].spawnGen
    BY <2>1 DEF Superseded
  <2>3. frames[j].parent \in DOMAIN frames
    BY <1>1, <2>2, FrameFacts DEF FramesFit
  <2>4. gs[frames[j].parent].spawnGen = frames[frames[j].parent].spawnGen
    BY <1>3, <1>4, <2>3 DEF SamePlace
  <2> QED
    BY <2>1, <2>2, <2>4 DEF Superseded
<1>9. redrives' # 0
  BY <1>2 DEF SfnInv, DriverFits
<1> QED
  BY <1>2, <1>6, <1>7, <1>8, <1>9 DEF SfnLive

\* The first state.
LEMMA SfnInitLive == SfnInit => SfnLive
<1> SUFFICES ASSUME SfnInit PROVE SfnLive
  OBVIOUS
<1> DEFINE f == At(First, "RUNNABLE", 0, 0)
<1>1. f.status = "RUNNABLE"
  BY DEF At
<1> HIDE DEF f
<1>2. DOMAIN frames = {1} /\ frames[1] = f
  BY DEF SfnInit, f
<1>3. /\ status = "RUNNING" /\ nudged = TRUE /\ busy = FALSE /\ joining = 0
  BY DEF SfnInit
<1>4. ParkedHolds(frames) /\ CallsAnswered(frames, calls, inbox) /\ Limited(frames)
      /\ JoinsFed(frames, joining)
  BY <1>1, <1>2 DEF ParkedHolds, CallsAnswered, Limited, JoinsFed
<1> QED
  BY <1>1, <1>2, <1>3, <1>4 DEF SfnLive, Terminal

RestartCount == restarts \in Nat

\* The restarts are counted.
LEMMA RestartsCounted == RestartCount /\ [SfnNext]_sfnVars => RestartCount'
<1> SUFFICES ASSUME restarts \in Nat, [SfnNext]_sfnVars, restarts' # restarts
             PROVE  restarts' \in Nat
  BY DEF RestartCount
<1>1. Restart
  BY DEF sfnVars, SfnNext, Driver, Advance, Join, TakeNudge, ApplyDelivery, WakeFrame, TimeOut,
         Abort, CallReturns, SendTask, Redrive
<1> QED
  BY <1>1 DEF Restart

\* Every step.
LEMMA SfnLiveStep ==
  SfnInv /\ SfnLive /\ RestartCount /\ [SfnNext]_sfnVars => SfnLive'
<1> SUFFICES ASSUME SfnInv, SfnLive, restarts \in Nat, [SfnNext]_sfnVars PROVE SfnLive'
  BY DEF RestartCount
<1>1. CASE UNCHANGED sfnVars
  BY <1>1 DEF sfnVars, SfnLive
<1>2. CASE TakeNudge
  <2>1. /\ UNCHANGED <<status, frames, joining, calls, inbox, restarts, redrives>> /\ ~busy
        /\ busy' = (status = "RUNNING" /\ Runnable(frames) # {})
    BY <1>2 DEF TakeNudge
  <2>2. (busy' => status = "RUNNING") /\ (status = "RUNNING" /\ ~busy' => Runnable(frames) = {})
    BY <2>1
  <2> QED
    BY <2>1, <2>2 DEF SfnLive
<1>3. CASE Abort
  BY <1>3 DEF Abort, SfnLive
<1>4. CASE Restart
  <2>1. /\ UNCHANGED <<status, frames, redrives>> /\ busy' = FALSE
        /\ nudged' = (status = "RUNNING") /\ restarts' = restarts + 1
    BY <1>4 DEF Restart
  <2>2. restarts' # 0
    BY <2>1
  <2>3. (status = "RUNNING" => nudged') /\ ~busy'
    BY <2>1, Zenon
  <2> QED
    BY <2>1, <2>2, <2>3 DEF SfnLive
<1> QED
  BY <1>1, <1>2, <1>3, <1>4, AdvanceLive, JoinLive, TimerLive, DeliveryLive, ReplyLive,
     RedriveLive DEF SfnNext, Driver

\* A running execution that the driver has left has a frame that something
\* moves, or a join that was left.
LEMMA NotStuck == ASSUME SfnInv, SfnLive PROVE NeverStuck
<1> SUFFICES ASSUME restarts = 0, status = "RUNNING", ~nudged, ~busy,
                    \A p \in DOMAIN frames : JoinLeft(p) => ~(redrives > 0) /\ ~HeldBack(p)
             PROVE  \E i \in DOMAIN frames : Awaited(i)
  BY DEF NeverStuck, Moving
<1> DEFINE A == {i \in DOMAIN frames : /\ ~Terminal(frames[i]) /\ frames[i].status # "PENDING"
                                       /\ ~Superseded(frames, i)}
<1>1. FramesFit(frames) /\ Held(frames, tokens, nextCall) /\ joining = 0 /\ redrives \in Nat
  BY DEF SfnInv, DriverFits
<1>2. Runnable(frames) = {} /\ ParkedHolds(frames) /\ CallsAnswered(frames, calls, inbox)
      /\ (redrives = 0 => JoinsFed(frames, joining))
  BY DEF SfnLive
<1>3. 1 \in A
  <2>1. 1 \in DOMAIN frames /\ frames[1].parent = 0
    BY <1>1, FrameFacts DEF FramesFit
  <2> QED
    BY <2>1 DEF SfnLive, Superseded
<1>4. IsFiniteSet(A) /\ A \subseteq Nat
  <2>1. A \subseteq 1..Len(frames) /\ Len(frames) \in Nat
    BY <1>1, FrameFacts
  <2> HIDE DEF A
  <2>2. IsFiniteSet(1..Len(frames)) /\ 1..Len(frames) \subseteq Nat
    BY <2>1, FS_Interval
  <2> QED
    BY <2>1, <2>2, FS_Subset
<1>5. PICK i \in A : \A j \in A : i >= j
  <2> HIDE DEF A
  <2> QED
    BY <1>3, <1>4, HighestName
<1>6. i \in DOMAIN frames /\ frames[i] \in FrameRecord
  BY <1>1, <1>5, FrameFacts
<1>7. frames[i].status \in {"SLEEPING", "CALLING", "PARKED", "RETRY_WAIT", "JOIN"}
  BY <1>2, <1>5, <1>6 DEF FrameRecord, FrameStatus, Terminal, Runnable
<1>8. CASE frames[i].status \in {"SLEEPING", "RETRY_WAIT"}
  BY <1>6, <1>8 DEF Awaited
<1>9. CASE frames[i].status = "CALLING"
  <2>1. Replied(frames[i], i, calls, inbox)
    BY <1>2, <1>5, <1>6, <1>9 DEF CallsAnswered
  <2>2. \E m \in calls \cup inbox : m.frame = i /\ m.attempt = frames[i].attempts
    BY <2>1 DEF Replied
  <2> QED
    BY <1>6, <1>9, <2>2 DEF Awaited
<1>10. CASE frames[i].status = "PARKED"
  BY <1>1, <1>2, <1>6, <1>10 DEF Awaited, Held, ParkedHolds
<1>11. CASE frames[i].status = "JOIN"
  <2>1. \A k \in Children(frames, i) : Terminal(frames[k]) \/ frames[k].status = "PENDING"
    <3> SUFFICES ASSUME NEW k \in Children(frames, i),
                        ~Terminal(frames[k]), frames[k].status # "PENDING"
                 PROVE  FALSE
      OBVIOUS
    <3>1. k \in DOMAIN frames /\ frames[k].parent = i /\ frames[k].gen = frames[i].spawnGen
      BY DEF Children
    <3>2. k \in A
      BY <3>1 DEF Superseded
    <3>3. k \in Nat /\ i \in Nat /\ i < k
      BY <1>1, <1>6, <3>1, FrameFacts
    <3> HIDE DEF A
    <3> QED
      BY <1>5, <3>2, <3>3
  <2>2. i # joining
    BY <1>1, <1>6, FrameFacts
  <2>3. JoinLeft(i)
    BY <1>11, <2>1, <2>2 DEF JoinLeft
  <2>4. redrives = 0 /\ ~HeldIn(frames, i)
    BY <1>1, <1>6, <2>3 DEF HeldBack, HeldIn
  <2>5. UnderWay(frames, i) = {}
    BY <2>1 DEF UnderWay
  <2> QED
    BY <1>2, <1>6, <1>11, <2>2, <2>4, <2>5 DEF JoinsFed
<1> QED
  BY <1>7, <1>8, <1>9, <1>10, <1>11

\* ExecutionMoves for every machine: while the process lives, no order of
\* results, timeouts, retries, catches, failing expressions, joins and stops
\* leaves a RUNNING execution with nothing to wait for, but for the join that a
\* redrive may leave and the items a map holds back by a MaxConcurrencyPath
\* that PromotePending does not know of; and every token that a frame waits for
\* leads to it (driver.go, exec.go, spawn.go, store_tokens.go).
THEOREM ExecutionNeverStuck == SfnSpec => []ExecutionMoves
<1>1. ASSUME SfnInv, SfnLive PROVE ExecutionMoves
  <2>1. TokensRedeemable
    BY <1>1 DEF TokensRedeemable, SfnInv, Held
  <2> QED
    BY <1>1, <2>1, NotStuck DEF ExecutionMoves
<1>2. SfnInit => RestartCount
  BY DEF SfnInit, RestartCount
<1> QED
  BY <1>1, <1>2, SfnInitInv, SfnStep, SfnInitLive, RestartsCounted, SfnLiveStep, PTL DEF SfnSpec

-----------------------------------------------------------------------------
(* All the parts together.                                                 *)

\* A step of the whole is a step of each part, or leaves it alone.
LEMMA ComputePartStep ==
  [ComputeNext]_computeVars =>
    /\ [PoolNext]_poolVars /\ [RunnerNext]_runnerVars /\ [MappingNext]_mappingVars
    /\ [SfnNext]_sfnVars /\ [CfnNext]_cfnVars /\ [BoltNext]_boltVars
<1>1. [ComputeNext]_computeVars => [PoolNext]_poolVars
  BY DEF ComputeNext, computeVars, LambdaNext, lambdaVars, BaseNext, baseVars
<1>2. [ComputeNext]_computeVars => [RunnerNext]_runnerVars
  BY DEF ComputeNext, computeVars, LambdaNext, lambdaVars, BaseNext, baseVars
<1>3. [ComputeNext]_computeVars => [MappingNext]_mappingVars
  BY DEF ComputeNext, computeVars, LambdaNext, lambdaVars, BaseNext, baseVars
<1>4. [ComputeNext]_computeVars => [SfnNext]_sfnVars
  BY DEF ComputeNext, computeVars, LambdaNext, lambdaVars, BaseNext, baseVars
<1>5. [ComputeNext]_computeVars => [CfnNext]_cfnVars
  BY DEF ComputeNext, computeVars, LambdaNext, lambdaVars, BaseNext, baseVars
<1>6. [ComputeNext]_computeVars => [BoltNext]_boltVars
  BY DEF ComputeNext, computeVars, LambdaNext, lambdaVars, BaseNext, baseVars
<1> QED
  BY <1>1, <1>2, <1>3, <1>4, <1>5, <1>6

\* ComputeTypeOK for every value of the constants: the pools, runners and
\* mappings of Lambda, the frames of Step Functions, the stacks of
\* CloudFormation and the handles of lazybolt stay what the code declares.
THEOREM ComputeTyped == ComputeSpec => []ComputeTypeOK
<1>1. ComputeInit => /\ PoolInit /\ RunnerInit /\ MappingInit
                     /\ SfnInit /\ CfnInit /\ BoltInit
  BY DEF ComputeInit
<1>2. ComputeSpec => PoolSpec /\ RunnerSpec /\ MappingSpec
  BY <1>1, ComputePartStep, PTL DEF ComputeSpec, PoolSpec, RunnerSpec, MappingSpec
<1>3. ComputeSpec => SfnSpec /\ CfnSpec /\ BoltSpec
  BY <1>1, ComputePartStep, PTL DEF ComputeSpec, SfnSpec, CfnSpec, BoltSpec
<1>4. /\ PoolTypeOK /\ RunnerTypeOK /\ MappingTypeOK
      /\ SfnTypeOK /\ CfnTypeOK /\ BoltTypeOK
      => ComputeTypeOK
  BY DEF ComputeTypeOK
<1> QED
  BY <1>2, <1>3, <1>4, PoolTyped, RunnerTyped, MappingsTyped, ExecutionTyped, StacksTyped,
     HandlesTyped, PTL
=============================================================================
