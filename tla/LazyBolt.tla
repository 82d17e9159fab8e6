------------------------------ MODULE LazyBolt ------------------------------
(***************************************************************************)
(* The database behind every store (internal/lazybolt): a bbolt file that  *)
(* is opened by its first use.  A caller looks for the handle under the    *)
(* read lock, opens the file under the write lock when there is none, and  *)
(* runs its transaction with no lock held.  Close may come at any time.    *)
(***************************************************************************)
EXTENDS Integers, FiniteSets

CONSTANTS
  Callers,     \* goroutines that use the database
  MaxHandles   \* bound: handles ever opened

VARIABLES
  fileThere,   \* the file exists
  boltState,   \* the bbolt handles: "open" or "shut", by number
  ensured,     \* handles on which ensure has succeeded
  current,     \* DB.db: a handle, or 0
  dbClosed,    \* DB.closed
  closing,     \* Close holds the lock and waits for transactions
  caller       \* the callers: what they are about to do and with which handle

boltVars == <<fileThere, boltState, ensured, current, dbClosed, closing, caller>>

ASSUME BoltAssumption == IsFiniteSet(Callers) /\ MaxHandles \in Nat \ {0}

NoHandle == 0

UserAt(pc, h) == [pc |-> pc, h |-> h]

Resting == UserAt("rest", NoHandle)

OpenHandles == {h \in DOMAIN boltState : boltState[h] = "open"}

InTx(h) == {c \in Callers : caller[c] = UserAt("tx", h)}

BoltTypeOK ==
  /\ fileThere \in BOOLEAN /\ dbClosed \in BOOLEAN /\ closing \in BOOLEAN
  /\ DOMAIN boltState \subseteq 1..MaxHandles
  /\ \A h \in DOMAIN boltState : boltState[h] \in {"open", "shut"}
  /\ ensured \subseteq DOMAIN boltState
  /\ current \in {NoHandle} \cup DOMAIN boltState
  /\ caller \in [Callers -> [pc : {"rest", "lock", "use", "tx"},
                             h : {NoHandle} \cup DOMAIN boltState]]

\* Open: a file that is there is opened at once.
BoltInit ==
  /\ fileThere \in BOOLEAN
  /\ current = IF fileThere THEN 1 ELSE NoHandle
  /\ boltState = [h \in {current} \ {NoHandle} |-> "open"]
  /\ ensured = {current} \ {NoHandle}
  /\ dbClosed = FALSE /\ closing = FALSE
  /\ caller = [c \in Callers |-> Resting]

-----------------------------------------------------------------------------
Becomes(c, x) == caller' = [caller EXCEPT ![c] = x]

\* The first half of handle, under the read lock, of Update, View and Sync.
LookForHandle(c) ==
  /\ caller[c] = Resting /\ ~closing /\ ~dbClosed
  /\ Becomes(c, IF current = NoHandle THEN UserAt("lock", NoHandle)
                ELSE UserAt("use", current))
  /\ UNCHANGED <<fileThere, boltState, ensured, current, dbClosed, closing>>

\* ViewIfExists never opens.
ViewIfExists(c) ==
  /\ caller[c] = Resting /\ ~closing /\ ~dbClosed /\ current # NoHandle
  /\ Becomes(c, UserAt("use", current))
  /\ UNCHANGED <<fileThere, boltState, ensured, current, dbClosed, closing>>

Fresh == Cardinality(DOMAIN boltState) + 1

\* bolt.Open fails, or it makes the file; when ensure then fails the handle is
\* closed again.
Opens(c) ==
  \/ /\ Becomes(c, Resting)
     /\ UNCHANGED <<fileThere, boltState, ensured, current>>
  \/ /\ Fresh <= MaxHandles
     /\ fileThere' = TRUE
     /\ \E works \in BOOLEAN :
          /\ boltState' = [h \in DOMAIN boltState \cup {Fresh} |->
                             IF h # Fresh THEN boltState[h]
                             ELSE IF works THEN "open" ELSE "shut"]
          /\ ensured' = IF works THEN ensured \cup {Fresh} ELSE ensured
          /\ current' = IF works THEN Fresh ELSE current
          /\ Becomes(c, IF works THEN UserAt("use", Fresh) ELSE Resting)

\* Weakened form of UnderLock: whether someone else has opened it meanwhile is
\* not asked again.
UnderLockUnchecked(c) ==
  /\ caller[c].pc = "lock" /\ ~closing
  /\ \/ /\ dbClosed /\ Becomes(c, Resting)
        /\ UNCHANGED <<fileThere, boltState, ensured, current>>
     \/ ~dbClosed /\ Opens(c)
  /\ UNCHANGED <<dbClosed, closing>>

\* The second half, under the write lock: closed and db are looked at again,
\* and only then is the file opened.
UnderLock(c) ==
  /\ caller[c].pc = "lock" /\ ~closing
  /\ \/ /\ dbClosed /\ Becomes(c, Resting)
        /\ UNCHANGED <<fileThere, boltState, ensured, current>>
     \/ /\ ~dbClosed /\ current # NoHandle /\ Becomes(c, UserAt("use", current))
        /\ UNCHANGED <<fileThere, boltState, ensured, current>>
     \/ ~dbClosed /\ current = NoHandle /\ Opens(c)
  /\ UNCHANGED <<dbClosed, closing>>

\* The transaction begins on the handle the caller has.  bbolt refuses one on
\* a handle that was closed meanwhile.
BeginTx(c) ==
  /\ caller[c].pc = "use"
  /\ Becomes(c, IF boltState[caller[c].h] = "open" THEN UserAt("tx", caller[c].h)
                ELSE Resting)
  /\ UNCHANGED <<fileThere, boltState, ensured, current, dbClosed, closing>>

EndTx(c) ==
  /\ caller[c].pc = "tx"
  /\ Becomes(c, Resting)
  /\ UNCHANGED <<fileThere, boltState, ensured, current, dbClosed, closing>>

\* Close takes the write lock, sets closed, and holds the lock while bbolt
\* waits for the transactions.
ShutBegins ==
  /\ ~dbClosed
  /\ dbClosed' = TRUE /\ closing' = (current # NoHandle)
  /\ UNCHANGED <<fileThere, boltState, ensured, current, caller>>

ShutEnds ==
  /\ closing /\ InTx(current) = {}
  /\ boltState' = [boltState EXCEPT ![current] = "shut"]
  /\ current' = NoHandle /\ closing' = FALSE
  /\ UNCHANGED <<fileThere, ensured, dbClosed, caller>>

BoltNext ==
  \/ \E c \in Callers :
       \/ LookForHandle(c) \/ ViewIfExists(c) \/ UnderLock(c)
       \/ BeginTx(c) \/ EndTx(c)
  \/ ShutBegins \/ ShutEnds

BoltSpec == BoltInit /\ [][BoltNext]_boltVars

-----------------------------------------------------------------------------
(* Properties.                                                             *)

\* "only the first may create the file", and a straggler after shutdown must
\* not "silently CREATE the database again and leak the handle": however
\* callers and Close interleave, no handle is open but the one the next Close
\* shuts, every transaction runs on that one, and ensure has succeeded on it.
NoHandleLeaks ==
  /\ OpenHandles = {current} \ {NoHandle}
  /\ \A c \in Callers : caller[c].pc = "tx" => caller[c].h \in OpenHandles \cap ensured
  /\ dbClosed /\ ~closing => OpenHandles = {}

=============================================================================
