--------------------------- MODULE LambdaMappings ---------------------------
(***************************************************************************)
(* One Lambda event source mapping (lambda/extras.go): its stored record,  *)
(* the table of pollers, the poller goroutines, and the requests that      *)
(* create, update and delete it.  A handler does its store call and its    *)
(* poller calls one after the other with nothing held between them, so     *)
(* each is a step; startPoller and stopPoller are atomic under s.mu.       *)
(***************************************************************************)
EXTENDS Integers, FiniteSets

CONSTANTS
  Handlers,     \* requests that may be under way at once
  BatchSizes,   \* the batch sizes asked for
  MaxStarts     \* bound: pollers started in one life of the process

VARIABLES
  stored,    \* the stored mapping
  known,     \* s.mappings: the number of its poller
  poller,    \* the poller goroutines started since the boot
  handler,   \* the requests
  made,      \* the mapping has been created; its UUID is never used again
  clash      \* history: two requests have overlapped since the boot

mappingVars == <<stored, known, poller, handler, made, clash>>

ASSUME MappingAssumption ==
  /\ IsFiniteSet(Handlers) /\ BatchSizes # {} /\ MaxStarts \in Nat \ {0}

NoMapping == [there |-> FALSE]

Row == [there : {TRUE}, enabled : BOOLEAN, batch : BatchSizes]

NoPoller == 0

Stage(pc, m) == [pc |-> pc, copy |-> m]

Ready == Stage("ready", NoMapping)

MappingTypeOK ==
  /\ stored \in Row \cup {NoMapping}
  /\ known \in {NoPoller} \cup DOMAIN poller
  /\ DOMAIN poller \subseteq 1..MaxStarts
  /\ poller \in [DOMAIN poller ->
                   [stop : BOOLEAN, running : BOOLEAN, batch : BatchSizes]]
  /\ handler \in [Handlers ->
       [pc : {"ready", "create", "put", "stop", "start", "drop", "delete"},
        copy : Row \cup {NoMapping}]]
  /\ made \in BOOLEAN /\ clash \in BOOLEAN

MappingInit ==
  /\ stored = NoMapping /\ known = NoPoller /\ poller = [n \in {} |-> {}]
  /\ handler = [h \in Handlers |-> Ready]
  /\ made = FALSE /\ clash = FALSE

-----------------------------------------------------------------------------
Goes(h, at) == handler' = [handler EXCEPT ![h] = at]

Alone(h) == \A g \in Handlers \ {h} : handler[g] = Ready

Begins(h, at) ==
  /\ handler[h] = Ready
  /\ Goes(h, at)
  /\ clash' = (clash \/ ~Alone(h))

\* An enabled copy goes on to startPoller.
StartIf(m) == IF m.enabled THEN Stage("start", m) ELSE Ready

\* PutMapping.  A new mapping has no poller to stop.
PutMapping(h) ==
  LET m == handler[h].copy
  IN  /\ handler[h].pc \in {"create", "put"}
      /\ stored' = m
      /\ Goes(h, IF handler[h].pc = "put" THEN Stage("stop", m) ELSE StartIf(m))
      /\ UNCHANGED <<known, poller, made, clash>>

\* createMapping, under a fresh UUID.
CreateMapping(h) ==
  /\ ~made /\ made' = TRUE
  /\ \E e \in BOOLEAN, b \in BatchSizes :
       Begins(h, Stage("create", [there |-> TRUE, enabled |-> e, batch |-> b]))
  /\ UNCHANGED <<stored, known, poller>>

\* updateMapping: reads the record, changes what the request names.
UpdateMapping(h) ==
  /\ stored.there
  /\ \E e \in BOOLEAN, b \in BatchSizes :
       Begins(h, Stage("put", [stored EXCEPT !.enabled = e, !.batch = b]))
  /\ UNCHANGED <<stored, known, poller, made>>

StoppedAt(n) ==
  [m \in DOMAIN poller |-> [poller[m] EXCEPT !.stop = @ \/ m = n]]

\* stopPoller, of an update and of a deletion.
StopPoller(h) ==
  /\ handler[h].pc \in {"stop", "drop"}
  /\ poller' = StoppedAt(known)
  /\ known' = NoPoller
  /\ Goes(h, IF handler[h].pc = "drop" THEN Stage("delete", NoMapping)
             ELSE StartIf(handler[h].copy))
  /\ UNCHANGED <<stored, made, clash>>

Polling(m) == [stop |-> FALSE, running |-> TRUE, batch |-> m.batch]

Started(m) ==
  LET n == Cardinality(DOMAIN poller) + 1
  IN  /\ n <= MaxStarts
      /\ known' = n
      /\ poller' = [k \in DOMAIN poller \cup {n} |->
                      IF k = n THEN Polling(m) ELSE poller[k]]

\* Weakened form of StartPoller: one that is in the table is not looked for.
StartPollerAnyway(h) ==
  /\ handler[h].pc = "start"
  /\ Started(handler[h].copy)
  /\ Goes(h, Ready)
  /\ UNCHANGED <<stored, made, clash>>

\* startPoller: one that is in the table already stays.
StartPoller(h) ==
  /\ handler[h].pc = "start"
  /\ \/ known = NoPoller /\ Started(handler[h].copy)
     \/ known # NoPoller /\ UNCHANGED <<known, poller>>
  /\ Goes(h, Ready)
  /\ UNCHANGED <<stored, made, clash>>

\* deleteMapping: stops the poller first.  It does not ask whether the mapping
\* exists.
DeleteMapping(h) ==
  /\ made
  /\ Begins(h, Stage("drop", NoMapping))
  /\ UNCHANGED <<stored, known, poller, made>>

DropsRow(h) ==
  /\ handler[h].pc = "delete"
  /\ stored' = NoMapping
  /\ Goes(h, Ready)
  /\ UNCHANGED <<known, poller, made, clash>>

\* A poller looks at its channel between batches.
PollerLeaves(n) ==
  /\ poller[n].running /\ poller[n].stop
  /\ poller' = [poller EXCEPT ![n].running = FALSE]
  /\ UNCHANGED <<stored, known, handler, made, clash>>

\* The process dies wherever it is and New resumes what is stored as Enabled.
Reboot ==
  LET resumed == IF stored.there /\ stored.enabled THEN {1} ELSE {}
  IN  /\ handler' = [h \in Handlers |-> Ready]
      /\ clash' = FALSE
      /\ known' = IF resumed = {} THEN NoPoller ELSE 1
      /\ poller' = [n \in resumed |-> Polling(stored)]
      /\ UNCHANGED <<stored, made>>

MappingNext ==
  \/ \E h \in Handlers :
       \/ CreateMapping(h) \/ UpdateMapping(h) \/ DeleteMapping(h)
       \/ PutMapping(h) \/ StopPoller(h) \/ StartPoller(h) \/ DropsRow(h)
  \/ \E n \in DOMAIN poller : PollerLeaves(n)
  \/ Reboot

MappingSpec == MappingInit /\ [][MappingNext]_mappingVars

-----------------------------------------------------------------------------
(* Properties.                                                             *)

\* A poller that has not been told to stop is the one in the table: however
\* updates, deletions and reboots interleave, there is never a second one and
\* never one that a later request or Close could not stop.
OnePoller ==
  \A n \in DOMAIN poller : poller[n].running /\ ~poller[n].stop => n = known

\* Between requests that did not overlap the poller is what the stored mapping
\* says, also when the process died between storing the mapping and changing
\* the poller.
PollerAsStored ==
  ~clash /\ (\A h \in Handlers : handler[h] = Ready) =>
    IF stored.there /\ stored.enabled
    THEN known # NoPoller /\ poller[known] = Polling(stored)
    ELSE known = NoPoller

\* Pollers never multiply, and between requests that did not overlap they are
\* those the stored mappings ask for.
PollersTracked == OnePoller /\ PollerAsStored

=============================================================================
