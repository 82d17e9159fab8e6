---------------------------- MODULE LambdaProofs ----------------------------
(***************************************************************************)
(* Proofs about the Lambda runtime: the pool of a function, one of its     *)
(* runners and one of its event source mappings, for every number of       *)
(* callers, invocations and handlers and every value of the bounds.        *)
(***************************************************************************)
EXTENDS LambdaPool, LambdaRunner, LambdaMappings, TLAPS, FiniteSetTheorems,
        SequenceTheorems, WellFoundedInduction

-----------------------------------------------------------------------------
(* The event source mappings.                                              *)

\* What a request carries from one step to the next.
CopiesFit ==
  \A h \in Handlers :
    /\ handler[h].pc \in {"create", "put", "stop", "start"} => handler[h].copy \in Row
    /\ handler[h].pc \in {"ready", "drop", "delete"} => handler[h].copy = NoMapping

\* Pollers are numbered without a gap, and the one in the table is at work.
PollersNumbered ==
  /\ \E n \in 0..MaxStarts : DOMAIN poller = 1..n
  /\ known # NoPoller => poller[known].running /\ ~poller[known].stop

\* Before the mapping is created there is nothing to update, poll or delete.
NothingBefore ==
  ~made => /\ stored = NoMapping /\ known = NoPoller
           /\ \A h \in Handlers : handler[h] = Ready

AsStored ==
  IF stored.there /\ stored.enabled
  THEN known # NoPoller /\ poller[known] = Polling(stored)
  ELSE known = NoPoller

\* How far the one request under way has come, when requests do not overlap:
\* what it has stored and whether it has stopped the poller.
OneAtATime ==
  ~clash =>
    /\ \A g, h \in Handlers : handler[g] # Ready /\ handler[h] # Ready => g = h
    /\ (\A h \in Handlers : handler[h].pc = "ready") => AsStored
    /\ \A h \in Handlers :
         /\ handler[h].pc \in {"put", "drop"} => AsStored
         /\ handler[h].pc \in {"create", "start", "delete"} => known = NoPoller
         /\ handler[h].pc \in {"stop", "start"} => stored = handler[h].copy
         /\ handler[h].pc = "start" => stored.enabled

\* The inductive invariant of the mapping.
MappingInv ==
  /\ MappingTypeOK /\ CopiesFit /\ PollersNumbered
  /\ OnePoller /\ NothingBefore /\ OneAtATime

\* No mapping and no poller.
LEMMA MappingInitInv == MappingInit => MappingInv
<1> SUFFICES ASSUME MappingInit
             PROVE  MappingInv
  OBVIOUS
<1> USE MappingAssumption DEF MappingInit, NoPoller, Ready, Stage, NoMapping
<1>1. MappingTypeOK
  BY DEF MappingTypeOK
<1>2. PollersNumbered
  <2>1. DOMAIN poller = 1..0
    OBVIOUS
  <2> QED
    BY <2>1 DEF PollersNumbered
<1>3. CopiesFit /\ OnePoller /\ NothingBefore
  BY DEF CopiesFit, OnePoller, NothingBefore
<1>4. OneAtATime
  BY DEF OneAtATime, AsStored
<1> QED
  BY <1>1, <1>2, <1>3, <1>4 DEF MappingInv

\* A stored mapping is a whole row.
LEMMA RowThere == MappingTypeOK /\ stored.there => stored \in Row
<1>1. NoMapping.there = FALSE
  BY DEF NoMapping
<1> QED
  BY <1>1 DEF MappingTypeOK

\* The requests begin.
LEMMA BeginsInv ==
  ASSUME MappingInv, NEW h \in Handlers, NEW pc, NEW m,
         \/ pc \in {"create", "put"} /\ m \in Row
         \/ pc = "drop" /\ m = NoMapping,
         Begins(h, Stage(pc, m)),
         made' = (made \/ pc = "create"), pc = "create" => ~made, ~made => pc = "create",
         UNCHANGED <<stored, known, poller>>
  PROVE  MappingInv'
<1> USE DEF MappingInv, Stage, Ready, Begins, Goes
<1>1. MappingTypeOK'
  BY DEF MappingTypeOK
<1>2. /\ handler'[h] = Stage(pc, m)
      /\ \A g \in Handlers \ {h} : handler'[g] = handler[g]
      /\ handler[h] = Ready
  BY DEF MappingTypeOK
<1>3. CopiesFit'
  BY <1>2 DEF CopiesFit
<1>4. PollersNumbered' /\ OnePoller' /\ NothingBefore'
  BY DEF PollersNumbered, OnePoller, NothingBefore, Polling
<1>5. OneAtATime'
  <2> SUFFICES ASSUME ~clash'
               PROVE  OneAtATime'
    BY DEF OneAtATime
  <2>1. ~clash /\ \A g \in Handlers : handler[g] = Ready
    BY <1>2 DEF Alone, MappingTypeOK
  <2>2. AsStored /\ AsStored'
    BY <2>1 DEF OneAtATime, AsStored, Polling
  <2>3. pc = "create" => known = NoPoller
    BY DEF NothingBefore
  <2> QED
    BY <1>2, <2>1, <2>2, <2>3 DEF OneAtATime
<1> QED
  BY <1>1, <1>3, <1>4, <1>5

\* Every step of a request, of the scan at start and of the stop keeps the
\* copies the handlers carry and the pollers that run in their place.
LEMMA MappingStep == MappingInv /\ [MappingNext]_mappingVars => MappingInv'
<1> SUFFICES ASSUME MappingInv, [MappingNext]_mappingVars
             PROVE  MappingInv'
  OBVIOUS
<1> USE DEF MappingInv
<1>1. ASSUME NEW h \in Handlers, CreateMapping(h)
      PROVE  MappingInv'
  <2>1. PICK e \in BOOLEAN, b \in BatchSizes :
          Begins(h, Stage("create", [there |-> TRUE, enabled |-> e, batch |-> b]))
    BY <1>1 DEF CreateMapping
  <2>2. [there |-> TRUE, enabled |-> e, batch |-> b] \in Row
    BY DEF Row
  <2> QED
    BY <1>1, <2>1, <2>2, BeginsInv DEF CreateMapping
<1>2. ASSUME NEW h \in Handlers, UpdateMapping(h)
      PROVE  MappingInv'
  <2>1. PICK e \in BOOLEAN, b \in BatchSizes :
          Begins(h, Stage("put", [stored EXCEPT !.enabled = e, !.batch = b]))
    BY <1>2 DEF UpdateMapping
  <2> DEFINE m == [stored EXCEPT !.enabled = e, !.batch = b]
  <2>2. m \in Row
    BY <1>2, RowThere DEF UpdateMapping, Row
  <2>3. made
    BY <1>2 DEF UpdateMapping, NothingBefore, NoMapping
  <2>4. made' = (made \/ "put" = "create")
    BY <1>2, <2>3 DEF UpdateMapping
  <2>5. Begins(h, Stage("put", m)) /\ UNCHANGED <<stored, known, poller>>
    BY <1>2, <2>1 DEF UpdateMapping
  <2> HIDE DEF m
  <2> QED
    BY <2>2, <2>3, <2>4, <2>5, BeginsInv
<1>3. ASSUME NEW h \in Handlers, DeleteMapping(h)
      PROVE  MappingInv'
  <2>1. made /\ Begins(h, Stage("drop", NoMapping))
    BY <1>3 DEF DeleteMapping
  <2>2. made' = (made \/ "drop" = "create")
    BY <1>3 DEF DeleteMapping
  <2> QED
    BY <1>3, <2>1, <2>2, BeginsInv DEF DeleteMapping
<1>4. ASSUME NEW h \in Handlers, PutMapping(h)
      PROVE  MappingInv'
  <2> DEFINE m == handler[h].copy
  <2>1. m \in Row /\ m.enabled \in BOOLEAN
    BY <1>4 DEF PutMapping, CopiesFit, Row
  <2>2. /\ stored' = m /\ UNCHANGED <<known, poller, made, clash>>
        /\ handler'[h] = IF handler[h].pc = "put" THEN Stage("stop", m) ELSE StartIf(m)
        /\ \A g \in Handlers \ {h} : handler'[g] = handler[g]
        /\ handler[h] # Ready
    BY <1>4 DEF PutMapping, Goes, MappingTypeOK, Ready, Stage
  <2>3. MappingTypeOK'
    BY <1>4, <2>1 DEF PutMapping, Goes, MappingTypeOK, Ready, Stage, StartIf
  <2>4. CopiesFit' /\ PollersNumbered' /\ OnePoller' /\ NothingBefore'
    BY <2>1, <2>2 DEF CopiesFit, PollersNumbered, OnePoller, NothingBefore, Stage, StartIf, Ready
  <2>5. OneAtATime'
    <3> SUFFICES ASSUME ~clash
                 PROVE  OneAtATime'
      BY <2>2 DEF OneAtATime
    <3>1. \A g \in Handlers \ {h} : handler[g] = Ready
      BY <2>2 DEF OneAtATime
    <3>2. handler[h].pc = "create" => known = NoPoller
      BY DEF OneAtATime
    <3>3. handler[h].pc # "put" => handler[h].pc = "create"
      BY <1>4 DEF PutMapping
    <3>4. handler'[h].pc = "ready" => AsStored'
      BY <2>1, <2>2, <3>2, <3>3 DEF AsStored, Stage, StartIf
    <3> QED
      BY <2>1, <2>2, <3>1, <3>2, <3>3, <3>4 DEF OneAtATime, Stage, StartIf, Ready
  <2> QED
    BY <2>3, <2>4, <2>5
<1>5. ASSUME NEW h \in Handlers, StopPoller(h)
      PROVE  MappingInv'
  <2> DEFINE m == handler[h].copy
  <2>1. /\ known' = NoPoller /\ poller' = StoppedAt(known) /\ UNCHANGED <<stored, made, clash>>
        /\ handler'[h] = IF handler[h].pc = "drop" THEN Stage("delete", NoMapping) ELSE StartIf(m)
        /\ \A g \in Handlers \ {h} : handler'[g] = handler[g]
        /\ handler[h] # Ready /\ handler[h].pc \in {"stop", "drop"}
    BY <1>5 DEF StopPoller, Goes, MappingTypeOK, Ready, Stage
  <2>2. handler[h].pc = "stop" => m \in Row /\ m.enabled \in BOOLEAN
    BY DEF CopiesFit, Row
  <2>3. /\ DOMAIN poller' = DOMAIN poller
        /\ \A n \in DOMAIN poller :
             /\ poller'[n].running = poller[n].running
             /\ poller'[n].batch = poller[n].batch
             /\ poller'[n].stop = (poller[n].stop \/ n = known)
             /\ poller'[n] \in [stop : BOOLEAN, running : BOOLEAN, batch : BatchSizes]
    BY <2>1 DEF StoppedAt, MappingTypeOK
  <2>4. MappingTypeOK'
    <3>1. poller' \in [DOMAIN poller' ->
                         [stop : BOOLEAN, running : BOOLEAN, batch : BatchSizes]]
      BY <2>1, <2>3 DEF StoppedAt
    <3>2. handler' \in [Handlers ->
       [pc : {"ready", "create", "put", "stop", "start", "drop", "delete"},
        copy : Row \cup {NoMapping}]]
      BY <1>5, <2>1, <2>2 DEF StopPoller, Goes, MappingTypeOK, Ready, Stage, StartIf
    <3> QED
      BY <2>1, <2>3, <3>1, <3>2 DEF MappingTypeOK
  <2>5. CopiesFit' /\ NothingBefore'
    BY <2>1, <2>2 DEF CopiesFit, NothingBefore, Stage, StartIf, Ready
  <2>6. PollersNumbered' /\ OnePoller'
    BY <2>1, <2>3 DEF PollersNumbered, OnePoller
  <2>7. OneAtATime'
    <3> SUFFICES ASSUME ~clash
                 PROVE  OneAtATime'
      BY <2>1 DEF OneAtATime
    <3>1. \A g \in Handlers \ {h} : handler[g] = Ready
      BY <2>1 DEF OneAtATime
    <3>2. handler[h].pc = "stop" => stored = m
      BY DEF OneAtATime
    <3>3. handler'[h].pc = "ready" => AsStored'
      BY <2>1, <2>2, <3>2 DEF AsStored, Stage, StartIf
    <3> QED
      BY <2>1, <2>2, <3>1, <3>2, <3>3 DEF OneAtATime, Stage, StartIf, Ready
  <2> QED
    BY <2>4, <2>5, <2>6, <2>7
<1>6. ASSUME NEW h \in Handlers, StartPoller(h)
      PROVE  MappingInv'
  <2> DEFINE m == handler[h].copy
  <2>1. /\ UNCHANGED <<stored, made, clash>>
        /\ handler'[h] = Ready
        /\ \A g \in Handlers \ {h} : handler'[g] = handler[g]
        /\ handler[h] # Ready /\ handler[h].pc = "start" /\ m \in Row
    BY <1>6 DEF StartPoller, Goes, MappingTypeOK, Ready, Stage, CopiesFit
  <2>2. /\ CopiesFit' /\ NothingBefore'
        /\ handler' \in [Handlers ->
             [pc : {"ready", "create", "put", "stop", "start", "drop", "delete"},
              copy : Row \cup {NoMapping}]]
    BY <1>6, <2>1 DEF CopiesFit, NothingBefore, Stage, Ready, StartPoller, Goes, MappingTypeOK
  <2>3. CASE known # NoPoller
    <3>1. UNCHANGED <<known, poller>>
      BY <1>6, <2>3 DEF StartPoller
    <3>2. MappingTypeOK' /\ PollersNumbered' /\ OnePoller'
      BY <2>1, <2>2, <3>1 DEF MappingTypeOK, PollersNumbered, OnePoller
    <3>3. OneAtATime'
      BY <2>1, <2>3, <3>1 DEF OneAtATime
    <3> QED
      BY <2>2, <3>2, <3>3
  <2>4. CASE known = NoPoller
    <3>1. Started(m)
      BY <1>6, <2>4 DEF StartPoller
    <3>2. PICK n \in 0..MaxStarts : DOMAIN poller = 1..n
      BY DEF PollersNumbered
    <3>3. n \in Nat /\ Cardinality(DOMAIN poller) + 1 = n + 1
      <4>1. n \in Nat /\ 1 \in Int /\ n \in Int
        BY MappingAssumption
      <4>2. Cardinality(1..n) = n
        BY <4>1, FS_Interval
      <4> QED
        BY <3>2, <4>1, <4>2
    <3>4. /\ n + 1 <= MaxStarts /\ known' = n + 1
          /\ poller' = [k \in DOMAIN poller \cup {n + 1} |->
                          IF k = n + 1 THEN Polling(m) ELSE poller[k]]
      BY <3>1, <3>3 DEF Started
    <3>5. DOMAIN poller' = 1..(n + 1)
      BY <3>2, <3>3, <3>4
    <3>6. Polling(m) \in [stop : BOOLEAN, running : BOOLEAN, batch : BatchSizes]
      BY <2>1 DEF Polling, Row
    <3>7. MappingTypeOK'
      <4>1. poller' \in [DOMAIN poller' ->
                         [stop : BOOLEAN, running : BOOLEAN, batch : BatchSizes]]
        BY <3>4, <3>6 DEF MappingTypeOK
      <4> QED
        BY <2>1, <2>2, <3>3, <3>4, <3>5, <4>1, MappingAssumption DEF MappingTypeOK
    <3>8. PollersNumbered'
      BY <3>3, <3>4, <3>5, MappingAssumption DEF PollersNumbered, Polling
    <3>9. OnePoller'
      BY <2>4, <3>2, <3>3, <3>4 DEF OnePoller, NoPoller
    <3>10. OneAtATime'
      <4> SUFFICES ASSUME ~clash
                   PROVE  OneAtATime'
        BY <2>1 DEF OneAtATime
      <4>1. \A g \in Handlers \ {h} : handler[g] = Ready
        BY <2>1 DEF OneAtATime
      <4>2. stored = m /\ stored.enabled /\ stored.there
        BY <2>1 DEF OneAtATime, Row
      <4>3. AsStored'
        BY <2>1, <3>3, <3>4, <4>2 DEF AsStored, NoPoller, Polling
      <4> QED
        BY <2>1, <4>1, <4>3 DEF OneAtATime, Ready, Stage
    <3> QED
      BY <2>2, <3>7, <3>8, <3>9, <3>10
  <2> QED
    BY <2>3, <2>4
<1>7. ASSUME NEW h \in Handlers, DropsRow(h)
      PROVE  MappingInv'
  <2>1. /\ stored' = NoMapping /\ UNCHANGED <<known, poller, made, clash>>
        /\ handler'[h] = Ready
        /\ \A g \in Handlers \ {h} : handler'[g] = handler[g]
        /\ handler[h] # Ready /\ handler[h].pc = "delete"
    BY <1>7 DEF DropsRow, Goes, MappingTypeOK, Ready, Stage
  <2>2. MappingTypeOK'
    BY <1>7 DEF DropsRow, Goes, MappingTypeOK, Ready, Stage
  <2>3. CopiesFit' /\ PollersNumbered' /\ OnePoller' /\ NothingBefore'
    BY <2>1 DEF CopiesFit, PollersNumbered, OnePoller, NothingBefore, Stage, Ready
  <2>4. OneAtATime'
    <3> SUFFICES ASSUME ~clash
                 PROVE  OneAtATime'
      BY <2>1 DEF OneAtATime
    <3>1. \A g \in Handlers \ {h} : handler[g] = Ready
      BY <2>1 DEF OneAtATime
    <3>2. AsStored'
      BY <2>1 DEF OneAtATime, AsStored, NoMapping
    <3> QED
      BY <2>1, <3>1, <3>2 DEF OneAtATime, Ready, Stage
  <2> QED
    BY <2>2, <2>3, <2>4
<1>8. ASSUME NEW n \in DOMAIN poller, PollerLeaves(n)
      PROVE  MappingInv'
  <2>1. /\ n # known /\ UNCHANGED <<stored, known, handler, made, clash>>
        /\ DOMAIN poller' = DOMAIN poller
        /\ \A k \in DOMAIN poller \ {n} : poller'[k] = poller[k]
        /\ poller'[n].stop
    BY <1>8 DEF PollerLeaves, PollersNumbered, MappingTypeOK, NoPoller
  <2>2. MappingTypeOK'
    BY <1>8 DEF PollerLeaves, MappingTypeOK
  <2>3. CopiesFit' /\ PollersNumbered' /\ OnePoller' /\ NothingBefore'
    BY <2>1, MappingAssumption DEF CopiesFit, PollersNumbered, OnePoller, NothingBefore, MappingTypeOK
  <2>4. AsStored => AsStored'
    BY <2>1, MappingAssumption DEF AsStored, MappingTypeOK
  <2>5. OneAtATime'
    BY <2>1, <2>4 DEF OneAtATime
  <2> QED
    BY <2>2, <2>3, <2>5
<1>9. CASE Reboot
  <2> DEFINE on == stored.there /\ stored.enabled
  <2>1. /\ handler' = [h \in Handlers |-> Ready] /\ clash' = FALSE /\ UNCHANGED <<stored, made>>
        /\ known' = IF on THEN 1 ELSE NoPoller
        /\ poller' = [n \in (IF on THEN {1} ELSE {}) |-> Polling(stored)]
    BY <1>9 DEF Reboot
  <2>2. on => stored \in Row /\ stored.batch \in BatchSizes
    BY RowThere DEF Row
  <2>3. MappingTypeOK'
    <3>1. poller' \in [DOMAIN poller' ->
                         [stop : BOOLEAN, running : BOOLEAN, batch : BatchSizes]]
      BY <2>1, <2>2 DEF Polling
    <3>2. DOMAIN poller' \subseteq 1..MaxStarts /\ known' \in {NoPoller} \cup DOMAIN poller'
      BY <2>1, MappingAssumption
    <3> QED
      BY <2>1, <3>1, <3>2 DEF MappingTypeOK, Ready, Stage
  <2>4. PollersNumbered'
    <3>1. DOMAIN poller' = 1..(IF on THEN 1 ELSE 0)
      <4>1. CASE on
        BY <2>1, <4>1
      <4>2. CASE ~on
        BY <2>1, <4>2
      <4> QED
        BY <4>1, <4>2
    <3> QED
      BY <2>1, <3>1, MappingAssumption DEF PollersNumbered, Polling
  <2>5. CopiesFit' /\ OnePoller'
    BY <2>1 DEF CopiesFit, OnePoller, Ready, Stage
  <2>6. NothingBefore'
    BY <2>1 DEF NothingBefore, NoMapping
  <2>7. OneAtATime'
    BY <2>1 DEF OneAtATime, AsStored, Ready, Stage, NoPoller
  <2> QED
    BY <2>3, <2>4, <2>5, <2>6, <2>7
<1>10. CASE UNCHANGED mappingVars
  BY <1>10 DEF mappingVars, MappingTypeOK, CopiesFit, PollersNumbered, OnePoller,
               NothingBefore, OneAtATime, AsStored
<1> QED
  BY <1>1, <1>2, <1>3, <1>4, <1>5, <1>6, <1>7, <1>8, <1>9, <1>10 DEF MappingNext

\* MappingTypeOK for every set of handlers and batch sizes: rows, pollers and
\* what the handlers carry stay what lambda/extras.go declares.
THEOREM MappingsTyped == MappingSpec => []MappingTypeOK
<1>1. MappingInv => MappingTypeOK
  BY DEF MappingInv
<1> QED
  BY <1>1, MappingInitInv, MappingStep, PTL DEF MappingSpec

\* PollersTracked for every number of handlers: create, update, delete and the
\* start of the service (lambda/extras.go) leave no poller running that the
\* service has lost sight of.
THEOREM PollersFollowMappings == MappingSpec => []PollersTracked
<1>1. MappingInv => PollersTracked
  <2>1. ASSUME MappingInv, ~clash, \A h \in Handlers : handler[h] = Ready
        PROVE  AsStored
    BY <2>1 DEF MappingInv, OneAtATime, Ready, Stage
  <2> QED
    BY <2>1 DEF MappingInv, PollersTracked, PollerAsStored, AsStored
<1> QED
  BY <1>1, MappingInitInv, MappingStep, PTL DEF MappingSpec

-----------------------------------------------------------------------------
(* The runner.                                                             *)

Answered == {i \in Invs : inv[i].sent = 1}

\* What holds of a process between its handlers' steps: it asks only when it
\* has nothing to do, a handler that took work holds it, a result is posted for
\* what the process was doing.
HandlersApart ==
  /\ proc \in Seq(ProcRecord)
  /\ \A p \in DOMAIN proc :
       /\ proc[p].next # "none" => proc[p].doing = None
       /\ proc[p].next = "took" <=> proc[p].hand # None
       /\ proc[p].posting => proc[p].doing # None
  /\ \A p, q \in DOMAIN proc : p # q =>
       /\ proc[p].hand = proc[q].hand => proc[p].hand = None
       /\ proc[p].posting /\ proc[q].posting => proc[p].doing # proc[q].doing

\* The five places an invocation can be in are disjoint, one in the queue is
\* there once, and which callers can be in none of them or must be in one.
Places ==
  /\ \A m, n \in DOMAIN queue : queue[m] = queue[n] => m = n
  /\ \A i \in Invs :
       /\ inv[i].sent \in {0, 1}
       /\ i \in Queued => i \notin InHand \cup pending \cup BeingPosted \cup Answered
       /\ i \in InHand => i \notin pending \cup BeingPosted \cup Answered
       /\ i \in pending => i \notin BeingPosted \cup Answered
       /\ i \in BeingPosted => i \notin Answered
       /\ inv[i].pc \in {"wait", "exec"} =>
            i \in Queued \cup InHand \cup pending \cup BeingPosted \cup Answered
       /\ inv[i].pc \in {"new", "enqueue"} =>
            i \notin Queued \cup InHand \cup pending \cup BeingPosted \cup Answered

\* A runner that is not started has reaped its processes.
Reaped ==
  /\ OneProcess
  /\ ~started => \A p \in DOMAIN proc : proc[p].reaped

\* The inductive invariant of the runner.
RunnerInv == RunnerTypeOK /\ HandlersApart /\ Places /\ Reaped

\* What one step on process p does to the sets of invocations in hand and on
\* their way back.
LEMMA OneProcessMoves ==
  ASSUME RunnerInv, NEW p \in DOMAIN proc, NEW r \in ProcRecord,
         proc' = [proc EXCEPT ![p] = r]
  PROVE  /\ DOMAIN proc' = DOMAIN proc /\ proc' \in Seq(ProcRecord)
         /\ proc'[p] = r /\ \A q \in DOMAIN proc \ {p} : proc'[q] = proc[q]
         /\ InHand' = ((InHand \ {proc[p].hand}) \cup {r.hand}) \ {None}
         /\ r.hand = proc[p].hand => InHand' = InHand
         /\ (r.posting <=> proc[p].posting) /\ (r.posting => r.doing = proc[p].doing)
              => BeingPosted' = BeingPosted
         /\ r.posting /\ ~proc[p].posting => BeingPosted' = BeingPosted \cup {r.doing}
         /\ ~r.posting /\ proc[p].posting => BeingPosted' = BeingPosted \ {proc[p].doing}
<1>1. proc \in Seq(ProcRecord) /\ proc \in [1..Len(proc) -> ProcRecord]
      /\ DOMAIN proc = 1..Len(proc) /\ Len(proc) \in Nat
  BY DEF RunnerInv, HandlersApart
<1>2. /\ DOMAIN proc' = DOMAIN proc /\ proc' \in [1..Len(proc) -> ProcRecord]
      /\ proc'[p] = r /\ \A q \in DOMAIN proc \ {p} : proc'[q] = proc[q]
  BY <1>1
<1>3. proc' \in Seq(ProcRecord)
  BY <1>1, <1>2
<1>4. InHand' = ((InHand \ {proc[p].hand}) \cup {r.hand}) \ {None}
  BY <1>2 DEF InHand, RunnerInv, HandlersApart
<1>5. r.hand = proc[p].hand => InHand' = InHand
  BY <1>2 DEF InHand
<1>6. (r.posting <=> proc[p].posting) /\ (r.posting => r.doing = proc[p].doing)
        => BeingPosted' = BeingPosted
  BY <1>2 DEF BeingPosted
<1>7. r.posting /\ ~proc[p].posting => BeingPosted' = BeingPosted \cup {r.doing}
  BY <1>2 DEF BeingPosted
<1>8. ~r.posting /\ proc[p].posting => BeingPosted' = BeingPosted \ {proc[p].doing}
  BY <1>2 DEF BeingPosted, RunnerInv, HandlersApart
<1> QED
  BY <1>2, <1>3, <1>4, <1>5, <1>6, <1>7, <1>8

\* The queue has its invocations once: taking its head, appending to it.
LEMMA QueueMoves ==
  ASSUME queue \in Seq(Invs), \A m, n \in DOMAIN queue : queue[m] = queue[n] => m = n
  PROVE  /\ queue # <<>> /\ queue' = Tail(queue) =>
              /\ Head(queue) \in Queued /\ Head(queue) \in Invs
              /\ Queued' = Queued \ {Head(queue)}
              /\ queue' \in Seq(Invs) /\ Len(queue') < Len(queue)
              /\ \A m, n \in DOMAIN queue' : queue'[m] = queue'[n] => m = n
         /\ \A i \in Invs \ Queued : queue' = Append(queue, i) =>
              /\ Queued' = Queued \cup {i}
              /\ queue' \in Seq(Invs) /\ Len(queue') = Len(queue) + 1
              /\ \A m, n \in DOMAIN queue' : queue'[m] = queue'[n] => m = n
<1>1. ASSUME queue # <<>>, queue' = Tail(queue)
      PROVE  /\ Head(queue) \in Queued /\ Head(queue) \in Invs
             /\ Queued' = Queued \ {Head(queue)}
             /\ queue' \in Seq(Invs) /\ Len(queue') < Len(queue)
             /\ \A m, n \in DOMAIN queue' : queue'[m] = queue'[n] => m = n
  <2>1. /\ queue' \in Seq(Invs) /\ Len(queue') = Len(queue) - 1 /\ Len(queue) \in Nat \ {0}
        /\ DOMAIN queue = 1..Len(queue) /\ DOMAIN queue' = 1..(Len(queue) - 1)
        /\ Head(queue) = queue[1] /\ 1 \in DOMAIN queue
        /\ \A n \in 1..(Len(queue) - 1) : queue'[n] = queue[n + 1]
    BY <1>1
  <2>2. Head(queue) \in Queued /\ Head(queue) \in Invs
    BY <2>1 DEF Queued
  <2>3. \A m, n \in DOMAIN queue' : queue'[m] = queue'[n] => m = n
    <3> SUFFICES ASSUME NEW m \in DOMAIN queue', NEW n \in DOMAIN queue', queue'[m] = queue'[n]
                 PROVE  m = n
      OBVIOUS
    <3>1. m \in 1..(Len(queue) - 1) /\ n \in 1..(Len(queue) - 1)
      BY <2>1
    <3>2. m + 1 \in DOMAIN queue /\ n + 1 \in DOMAIN queue
      BY <2>1, <3>1
    <3>3. queue[m + 1] = queue[n + 1]
      BY <2>1, <3>1
    <3>4. m + 1 = n + 1
      BY <3>2, <3>3
    <3> QED
      BY <3>1, <3>4
  <2>4. Queued' = Queued \ {Head(queue)}
    <3>1. \A n \in DOMAIN queue' : queue'[n] \in Queued /\ queue'[n] # Head(queue)
      BY <2>1 DEF Queued
    <3>2. \A n \in DOMAIN queue : n # 1 => n - 1 \in DOMAIN queue' /\ queue'[n - 1] = queue[n]
      BY <2>1
    <3> QED
      BY <3>1, <3>2, <2>1 DEF Queued
  <2> QED
    BY <2>1, <2>2, <2>3, <2>4
<1>2. ASSUME NEW i \in Invs \ Queued, queue' = Append(queue, i)
      PROVE  /\ Queued' = Queued \cup {i}
             /\ queue' \in Seq(Invs) /\ Len(queue') = Len(queue) + 1
             /\ \A m, n \in DOMAIN queue' : queue'[m] = queue'[n] => m = n
  <2>1. /\ queue' \in Seq(Invs) /\ Len(queue') = Len(queue) + 1 /\ Len(queue) \in Nat
        /\ DOMAIN queue = 1..Len(queue) /\ DOMAIN queue' = 1..(Len(queue) + 1)
        /\ queue'[Len(queue) + 1] = i
        /\ \A n \in 1..Len(queue) : queue'[n] = queue[n]
    BY <1>2
  <2>2. \A m, n \in DOMAIN queue' : queue'[m] = queue'[n] => m = n
    BY <2>1, <1>2 DEF Queued
  <2>3. Queued' = Queued \cup {i}
    BY <2>1 DEF Queued
  <2> QED
    BY <2>1, <2>2, <2>3
<1> QED
  BY <1>1, <1>2

\* A runner before its first invocation.
LEMMA RunnerInitInv == RunnerInit => RunnerInv
<1> SUFFICES ASSUME RunnerInit PROVE RunnerInv
  OBVIOUS
<1>1. RunnerTypeOK
  <2>1. inv \in [Invs -> InvRecord] /\ started \in BOOLEAN /\ stopped \in BOOLEAN
    BY DEF RunnerInit, InvRecord
  <2>2. queue \in Seq(Invs) /\ Len(queue) = 0 /\ 0 <= QueueMax
    BY RunnerAssumption DEF RunnerInit
  <2>3. DOMAIN proc = {}
    BY DEF RunnerInit
  <2> QED
    BY <2>1, <2>2, <2>3 DEF RunnerInit, RunnerTypeOK
<1>2. HandlersApart /\ Reaped
  BY DEF RunnerInit, HandlersApart, Reaped, OneProcess
<1>3. Queued = {} /\ InHand = {} /\ BeingPosted = {} /\ Answered = {} /\ pending = {}
  BY DEF RunnerInit, Queued, InHand, BeingPosted, Answered
<1>4. Places
  BY <1>3 DEF RunnerInit, Places
<1> QED
  BY <1>1, <1>2, <1>4 DEF RunnerInv

\* A caller's own step, which neither the handlers nor the reaper sees.
LEMMA CallerStep ==
  ASSUME RunnerInv, NEW i \in Invs, Caller(i)
  PROVE  RunnerInv'
<1>0. RunnerTypeOK /\ HandlersApart /\ Places /\ Reaped
  BY DEF RunnerInv
<1>a. ASSUME NEW c \in {"returned", "exec", "enqueue", "wait"}, inv' = [inv EXCEPT ![i].pc = c]
      PROVE  /\ inv' \in [Invs -> InvRecord]
             /\ inv'[i].pc = c /\ inv'[i].sent = inv[i].sent
             /\ \A j \in Invs \ {i} : inv'[j] = inv[j]
             /\ Answered' = Answered
  <2>1. inv' \in [Invs -> InvRecord] /\ inv'[i].pc = c
        /\ \A j \in Invs \ {i} : inv'[j] = inv[j]
    BY <1>0, <1>a DEF RunnerTypeOK, InvRecord
  <2>2. \A j \in Invs : inv'[j].sent = inv[j].sent
    BY <1>0, <1>a DEF RunnerTypeOK, InvRecord
  <2> QED
    BY <2>1, <2>2 DEF Answered
<1>b. UNCHANGED proc => UNCHANGED <<InHand, BeingPosted>>
  BY DEF InHand, BeingPosted
<1>c. UNCHANGED queue => UNCHANGED Queued
  BY DEF Queued
<1>1. ASSUME NEW c \in {"returned", "exec"}, inv' = [inv EXCEPT ![i].pc = c],
             c = "exec" => inv[i].pc = "wait",
             UNCHANGED <<queue, pending, started, stopped, proc>>
      PROVE  RunnerInv'
  <2>1. RunnerTypeOK'
    BY <1>0, <1>1, <1>a DEF RunnerTypeOK
  <2>2. HandlersApart' /\ Reaped'
    BY <1>0, <1>1 DEF HandlersApart, Reaped, OneProcess
  <2>3. Places'
    BY <1>0, <1>1, <1>a, <1>b, <1>c DEF Places
  <2> QED
    BY <2>1, <2>2, <2>3 DEF RunnerInv
<1>2. CASE NotStarted(i) \/ SeesDispatch(i) \/ GetsResult(i) \/ GivesUp(i)
  BY <1>1, <1>2 DEF NotStarted, SeesDispatch, GetsResult, GivesUp, Return
<1>3. CASE EnsureStarted(i)
  <2>1. inv' = [inv EXCEPT ![i].pc = "enqueue"] /\ UNCHANGED <<queue, pending, stopped>>
        /\ inv[i].pc = "new"
    BY <1>3 DEF EnsureStarted
  <2>2. CASE UNCHANGED <<started, proc>>
    <3>1. RunnerTypeOK'
      BY <1>0, <2>1, <2>2, <1>a DEF RunnerTypeOK
    <3>2. HandlersApart' /\ Reaped'
      BY <1>0, <2>2 DEF HandlersApart, Reaped, OneProcess
    <3>3. Places'
      BY <1>0, <2>1, <2>2, <1>a, <1>b, <1>c DEF Places
    <3> QED
      BY <3>1, <3>2, <3>3 DEF RunnerInv
  <2>3. CASE /\ ~started /\ Len(proc) < MaxProcs
             /\ started' = TRUE
             /\ proc' = Append(proc, NewProc)
    <3>1. NewProc \in ProcRecord
      BY DEF NewProc, ProcRecord
    <3>2. /\ proc \in Seq(ProcRecord) /\ proc' \in Seq(ProcRecord)
          /\ Len(proc) \in Nat /\ Len(proc) < MaxProcs
          /\ DOMAIN proc = 1..Len(proc) /\ DOMAIN proc' = 1..(Len(proc) + 1)
          /\ proc'[Len(proc) + 1] = NewProc
          /\ \A p \in DOMAIN proc : proc'[p] = proc[p]
      BY <1>0, <2>3, <3>1 DEF HandlersApart
    <3>3. DOMAIN proc' \subseteq 1..MaxProcs /\ \A p \in DOMAIN proc' : proc'[p] \in ProcRecord
      BY <3>1, <3>2, RunnerAssumption
    <3>4. RunnerTypeOK'
      BY <1>0, <2>1, <2>3, <3>3, <1>a DEF RunnerTypeOK
    <3>5. HandlersApart'
      BY <1>0, <3>2 DEF HandlersApart, NewProc
    <3>6. Reaped'
      BY <1>0, <2>3, <3>2 DEF Reaped, OneProcess, NewProc
    <3>7. UNCHANGED <<InHand, BeingPosted>>
      <4>1. UNCHANGED InHand
        BY <3>2 DEF InHand, NewProc
      <4>2. UNCHANGED BeingPosted
        BY <3>2 DEF BeingPosted, NewProc
      <4> QED
        BY <4>1, <4>2
    <3>8. Places'
      BY <1>0, <2>1, <3>7, <1>a, <1>c DEF Places
    <3> QED
      BY <3>4, <3>5, <3>6, <3>8 DEF RunnerInv
  <2> QED
    BY <1>3, <2>2, <2>3 DEF EnsureStarted
<1>4. CASE Enqueue(i)
  <2>1. /\ inv[i].pc = "enqueue" /\ Len(queue) < QueueMax
        /\ queue' = Append(queue, i) /\ inv' = [inv EXCEPT ![i].pc = "wait"]
        /\ UNCHANGED <<pending, started, stopped, proc>>
    BY <1>4 DEF Enqueue
  <2>2. i \notin Queued \cup InHand \cup pending \cup BeingPosted \cup Answered
    BY <1>0, <2>1 DEF Places
  <2>3. /\ Queued' = Queued \cup {i} /\ queue' \in Seq(Invs) /\ Len(queue') = Len(queue) + 1
        /\ \A m, n \in DOMAIN queue' : queue'[m] = queue'[n] => m = n
    BY <1>0, <2>1, <2>2, QueueMoves DEF RunnerTypeOK, Places
  <2>4. RunnerTypeOK'
    <3>1. Len(queue') <= QueueMax
      BY <1>0, <2>1, <2>3, RunnerAssumption DEF RunnerTypeOK
    <3> QED
      BY <1>0, <2>1, <2>3, <3>1, <1>a DEF RunnerTypeOK
  <2>5. HandlersApart' /\ Reaped'
    BY <1>0, <2>1 DEF HandlersApart, Reaped, OneProcess
  <2>6. Places'
    BY <1>0, <2>1, <2>2, <2>3, <1>a, <1>b DEF Places
  <2> QED
    BY <2>4, <2>5, <2>6 DEF RunnerInv
<1> QED
  BY <1>2, <1>3, <1>4 DEF Caller

\* A step of a process or of the handlers that serve it.
LEMMA ProcessStep ==
  ASSUME RunnerInv, NEW p \in DOMAIN proc, Process(p)
  PROVE  RunnerInv'
<1>0. RunnerTypeOK /\ HandlersApart /\ Places /\ Reaped
  BY DEF RunnerInv
<1>r. proc[p] \in ProcRecord
  BY <1>0 DEF RunnerTypeOK
<1>i. UNCHANGED inv => UNCHANGED Answered
  BY DEF Answered
<1>c. UNCHANGED queue => UNCHANGED Queued
  BY DEF Queued
\* What the new record r of the process has to satisfy for the parts of the
\* invariant that are about processes.
<1>p. ASSUME NEW r \in ProcRecord, proc' = [proc EXCEPT ![p] = r],
             r.next # "none" => r.doing = None,
             r.next = "took" <=> r.hand # None,
             r.posting => r.doing # None,
             r.hand \in {None, proc[p].hand} \/ r.hand \notin InHand,
             r.posting => r.doing \notin BeingPosted \/ (proc[p].posting /\ r.doing = proc[p].doing)
      PROVE  HandlersApart' /\ (\A q \in DOMAIN proc' : proc'[q] \in ProcRecord)
             /\ DOMAIN proc' \subseteq 1..MaxProcs
  <2>1. /\ DOMAIN proc' = DOMAIN proc /\ proc' \in Seq(ProcRecord)
        /\ proc'[p] = r /\ \A q \in DOMAIN proc \ {p} : proc'[q] = proc[q]
    BY <1>p, OneProcessMoves
  <2>2. \A q \in DOMAIN proc \ {p} : proc[q].hand = r.hand => r.hand = None
    BY <1>0, <1>p DEF InHand, HandlersApart
  <2>3. \A q \in DOMAIN proc \ {p} : proc[q].posting /\ r.posting => proc[q].doing # r.doing
    BY <1>0, <1>p DEF BeingPosted, HandlersApart
  <2>4. HandlersApart'
    <3>1. \A q \in DOMAIN proc' :
             /\ proc'[q].next # "none" => proc'[q].doing = None
             /\ proc'[q].next = "took" <=> proc'[q].hand # None
             /\ proc'[q].posting => proc'[q].doing # None
      BY <1>0, <1>p, <2>1 DEF HandlersApart
    <3>2. \A q, o \in DOMAIN proc' : q # o =>
             /\ proc'[q].hand = proc'[o].hand => proc'[q].hand = None
             /\ proc'[q].posting /\ proc'[o].posting => proc'[q].doing # proc'[o].doing
      BY <1>0, <2>1, <2>2, <2>3 DEF HandlersApart
    <3> QED
      BY <2>1, <3>1, <3>2 DEF HandlersApart
  <2> QED
    BY <1>0, <1>p, <2>1, <2>4 DEF RunnerTypeOK
\* The reaped flags are those of before.
<1>q. ASSUME NEW r \in ProcRecord, proc' = [proc EXCEPT ![p] = r],
             r.reaped = proc[p].reaped, UNCHANGED started
      PROVE  Reaped'
  <2>1. /\ DOMAIN proc' = DOMAIN proc
        /\ \A q \in DOMAIN proc : proc'[q].reaped = proc[q].reaped
    BY <1>q, OneProcessMoves
  <2> QED
    BY <1>0, <1>q, <2>1 DEF Reaped, OneProcess
<1>1. CASE Asks(p) \/ HangsUp(p) \/ Exits(p)
  <2>1. PICK r \in ProcRecord :
          /\ proc' = [proc EXCEPT ![p] = r]
          /\ r.hand = proc[p].hand /\ r.posting = proc[p].posting /\ r.reaped = proc[p].reaped
          /\ r.posting => r.doing = proc[p].doing
          /\ r.next # "none" => r.doing = None
          /\ r.next = "took" <=> r.hand # None
    <3>1. CASE Asks(p)
      <4> DEFINE r == [proc[p] EXCEPT !.next = "polling"]
      <4>1. r \in ProcRecord /\ proc' = [proc EXCEPT ![p] = r]
        BY <3>1, <1>0, <1>r DEF Asks, ProcRecord, HandlersApart
      <4> QED
        BY <4>1, <3>1, <1>0, <1>r DEF Asks, ProcRecord, HandlersApart
    <3>2. CASE HangsUp(p)
      <4> DEFINE r == [proc[p] EXCEPT !.next = "none"]
      <4>1. r \in ProcRecord /\ proc' = [proc EXCEPT ![p] = r]
        BY <3>2, <1>0, <1>r DEF HangsUp, ProcRecord, HandlersApart
      <4> QED
        BY <4>1, <3>2, <1>0, <1>r DEF HangsUp, ProcRecord, HandlersApart
    <3>3. CASE Exits(p)
      <4> DEFINE d == IF proc[p].posting THEN proc[p].doing ELSE None
                 r == [proc[p] EXCEPT !.alive = FALSE, !.doing = d]
      <4>0. d \in Invs \cup {None} /\ (proc[p].posting => d = proc[p].doing)
            /\ (proc[p].doing = None => d = None)
        BY <1>r DEF ProcRecord
      <4>1. proc' = [proc EXCEPT ![p] = r]
        BY <3>3, <1>0, <1>r DEF Exits, ProcRecord, HandlersApart
      <4> HIDE DEF d
      <4>2. r \in ProcRecord /\ r.doing = d
        BY <4>0, <1>r DEF ProcRecord
      <4> QED
        BY <4>0, <4>1, <4>2, <1>0, <1>r DEF ProcRecord, HandlersApart
    <3> QED
      BY <1>1, <3>1, <3>2, <3>3
  <2>2. UNCHANGED <<inv, queue, pending, started, stopped>>
    BY <1>1 DEF Asks, HangsUp, Exits
  <2>3. UNCHANGED <<InHand, BeingPosted>>
    BY <2>1, OneProcessMoves
  <2>4. HandlersApart' /\ (\A q \in DOMAIN proc' : proc'[q] \in ProcRecord)
        /\ DOMAIN proc' \subseteq 1..MaxProcs
    <3>1. r.posting => r.doing # None
      BY <1>0, <2>1 DEF HandlersApart
    <3> QED
      BY <2>1, <3>1, <1>p
  <2>5. Reaped'
    BY <2>1, <2>2, <1>q
  <2>6. Places'
    BY <1>0, <2>2, <2>3, <1>i, <1>c DEF Places
  <2>7. RunnerTypeOK'
    BY <1>0, <2>2, <2>4 DEF RunnerTypeOK
  <2> QED
    BY <2>4, <2>5, <2>6, <2>7 DEF RunnerInv
<1>2. CASE Takes(p)
  <2> DEFINE r == [proc[p] EXCEPT !.next = "took", !.hand = Head(queue)]
  <2>1. proc[p].next = "polling" /\ queue # <<>> /\ queue' = Tail(queue)
        /\ UNCHANGED <<inv, pending, started, stopped>>
    BY <1>2 DEF Takes
  <2>2. /\ Head(queue) \in Queued /\ Head(queue) \in Invs
        /\ Queued' = Queued \ {Head(queue)}
        /\ queue' \in Seq(Invs) /\ Len(queue') < Len(queue)
        /\ \A m, n \in DOMAIN queue' : queue'[m] = queue'[n] => m = n
    BY <2>1, <1>0, QueueMoves DEF RunnerTypeOK, Places
  <2>3. r \in ProcRecord /\ proc' = [proc EXCEPT ![p] = r]
        /\ r.hand = Head(queue) /\ r.next = "took"
        /\ r.posting = proc[p].posting /\ r.doing = proc[p].doing /\ r.reaped = proc[p].reaped
    BY <1>2, <1>r, <2>2 DEF Takes, ProcRecord
  <2>4. Head(queue) # None /\ Head(queue) \notin InHand /\ proc[p].hand = None
        /\ proc[p].doing = None /\ ~proc[p].posting
    BY <1>0, <2>1, <2>2, RunnerAssumption DEF Places, HandlersApart
  <2> HIDE DEF r
  <2>5. InHand' = InHand \cup {Head(queue)} /\ BeingPosted' = BeingPosted
    <3>1. InHand' = ((InHand \ {None}) \cup {Head(queue)}) \ {None} /\ BeingPosted' = BeingPosted
      BY <2>3, <2>4, OneProcessMoves
    <3> QED
      BY <3>1, <2>4 DEF InHand
  <2>6. HandlersApart' /\ (\A q \in DOMAIN proc' : proc'[q] \in ProcRecord)
        /\ DOMAIN proc' \subseteq 1..MaxProcs
    BY <2>3, <2>4, <1>p
  <2>7. Reaped'
    BY <2>1, <2>3, <1>q
  <2>8. Places'
    BY <1>0, <2>1, <2>2, <2>5, <1>i DEF Places
  <2>9. RunnerTypeOK'
    <3>1. Len(queue') <= QueueMax
      BY <1>0, <2>2, RunnerAssumption DEF RunnerTypeOK
    <3> QED
      BY <1>0, <2>1, <2>2, <2>6, <3>1 DEF RunnerTypeOK
  <2> QED
    BY <2>6, <2>7, <2>8, <2>9 DEF RunnerInv
<1>3. CASE Dispatches(p)
  <2> DEFINE i == proc[p].hand
             d == IF proc[p].alive THEN i ELSE None
             r == [proc[p] EXCEPT !.next = "none", !.hand = None, !.doing = d]
  <2>1. /\ proc[p].next = "took" /\ pending' = pending \cup {i}
        /\ inv' = [inv EXCEPT ![i].dispatched = TRUE]
        /\ UNCHANGED <<queue, started, stopped>>
    BY <1>3 DEF Dispatches
  <2>2. i \in Invs /\ i # None /\ i \in InHand /\ d \in Invs \cup {None} /\ ~proc[p].posting
    BY <1>0, <1>r, <2>1, RunnerAssumption DEF HandlersApart, ProcRecord, InHand
  <2>3. proc' = [proc EXCEPT ![p] = r]
    BY <1>3, <1>r DEF Dispatches, ProcRecord
  <2> HIDE DEF d
  <2>4. r \in ProcRecord /\ r.hand = None /\ r.next = "none" /\ ~r.posting
        /\ r.reaped = proc[p].reaped
    BY <1>r, <2>2 DEF ProcRecord
  <2>5. /\ inv' \in [Invs -> InvRecord]
        /\ \A j \in Invs : inv'[j].sent = inv[j].sent /\ inv'[j].pc = inv[j].pc
    BY <1>0, <2>1, <2>2 DEF RunnerTypeOK, InvRecord
  <2>6. Answered' = Answered
    BY <2>5 DEF Answered
  <2> HIDE DEF r
  <2>7. InHand' = InHand \ {i} /\ BeingPosted' = BeingPosted
    <3>1. InHand' = ((InHand \ {i}) \cup {None}) \ {None} /\ BeingPosted' = BeingPosted
      BY <2>2, <2>3, <2>4, OneProcessMoves
    <3> QED
      BY <3>1 DEF InHand
  <2>8. HandlersApart' /\ (\A q \in DOMAIN proc' : proc'[q] \in ProcRecord)
        /\ DOMAIN proc' \subseteq 1..MaxProcs
    BY <2>3, <2>4, <1>p
  <2>9. Reaped'
    BY <2>1, <2>3, <2>4, <1>q
  <2>10. Places'
    <3> HIDE DEF i
    <3> QED
      BY <1>0, <2>1, <2>2, <2>5, <2>6, <2>7, <1>c DEF Places
  <2>11. RunnerTypeOK'
    BY <1>0, <2>1, <2>2, <2>5, <2>8 DEF RunnerTypeOK
  <2> QED
    BY <2>8, <2>9, <2>10, <2>11 DEF RunnerInv
<1>4. CASE Reports(p)
  <2> DEFINE i == proc[p].doing
  <2>1. /\ i # None /\ ~proc[p].posting /\ pending' = pending \ {i}
        /\ UNCHANGED <<inv, queue, started, stopped>>
    BY <1>4 DEF Reports
  <2>2. i \in Invs /\ proc[p].next = "none" /\ proc[p].hand = None
    BY <1>0, <1>r, <2>1 DEF HandlersApart, ProcRecord
  <2>3. RunnerTypeOK' <=> (\A q \in DOMAIN proc' : proc'[q] \in ProcRecord)
                            /\ DOMAIN proc' \subseteq 1..MaxProcs
    BY <1>0, <2>1 DEF RunnerTypeOK
  <2>4. CASE i \in pending
    <3> DEFINE r == [proc[p] EXCEPT !.posting = TRUE]
    <3>1. r \in ProcRecord /\ proc' = [proc EXCEPT ![p] = r]
          /\ r.hand = None /\ r.next = "none" /\ r.posting /\ r.doing = i
          /\ r.reaped = proc[p].reaped
      BY <1>4, <1>r, <2>2, <2>4 DEF Reports, ProcRecord
    <3> HIDE DEF r
    <3>2. InHand' = InHand /\ BeingPosted' = BeingPosted \cup {i}
      BY <2>1, <2>2, <3>1, OneProcessMoves
    <3>3. i \notin BeingPosted
      BY <1>0, <2>2, <2>4 DEF Places
    <3>4. HandlersApart' /\ (\A q \in DOMAIN proc' : proc'[q] \in ProcRecord)
          /\ DOMAIN proc' \subseteq 1..MaxProcs
      BY <2>1, <3>1, <3>3, <1>p
    <3>5. Reaped'
      BY <2>1, <3>1, <1>q
    <3>6. Places'
      <4> HIDE DEF i
      <4> QED
        BY <1>0, <2>1, <2>2, <2>4, <3>2, <1>i, <1>c DEF Places
    <3> QED
      BY <2>3, <3>4, <3>5, <3>6 DEF RunnerInv
  <2>5. CASE i \notin pending
    <3> DEFINE r == [proc[p] EXCEPT !.doing = None]
    <3>1. r \in ProcRecord /\ proc' = [proc EXCEPT ![p] = r]
          /\ r.hand = None /\ r.next = "none" /\ ~r.posting
          /\ r.reaped = proc[p].reaped
      BY <1>4, <1>r, <2>1, <2>2, <2>5 DEF Reports, ProcRecord
    <3> HIDE DEF r
    <3>2. InHand' = InHand /\ BeingPosted' = BeingPosted
      BY <2>1, <2>2, <3>1, OneProcessMoves
    <3>4. HandlersApart' /\ (\A q \in DOMAIN proc' : proc'[q] \in ProcRecord)
          /\ DOMAIN proc' \subseteq 1..MaxProcs
      BY <3>1, <1>p
    <3>5. Reaped'
      BY <2>1, <3>1, <1>q
    <3>6. pending' = pending
      BY <2>1, <2>5
    <3>7. Places'
      BY <1>0, <2>1, <3>2, <3>6, <1>i, <1>c DEF Places
    <3> QED
      BY <2>3, <3>4, <3>5, <3>7 DEF RunnerInv
  <2> QED
    BY <2>4, <2>5
<1>5. CASE Delivers(p)
  <2> DEFINE i == proc[p].doing
             r == [proc[p] EXCEPT !.posting = FALSE, !.doing = None]
  <2>1. /\ proc[p].posting /\ inv' = [inv EXCEPT ![i].sent = @ + 1]
        /\ UNCHANGED <<queue, pending, started, stopped>>
    BY <1>5 DEF Delivers
  <2>2. i \in Invs /\ i \in BeingPosted /\ i # None
    BY <1>0, <1>r, <2>1 DEF HandlersApart, ProcRecord, BeingPosted
  <2>3. r \in ProcRecord /\ proc' = [proc EXCEPT ![p] = r]
        /\ r.hand = proc[p].hand /\ r.next = proc[p].next /\ ~r.posting /\ r.doing = None
        /\ r.reaped = proc[p].reaped
    BY <1>5, <1>r DEF Delivers, ProcRecord
  <2> HIDE DEF r
  <2>4. InHand' = InHand /\ BeingPosted' = BeingPosted \ {i}
    BY <2>1, <2>3, OneProcessMoves
  <2>5. inv[i].sent = 0
    BY <1>0, <2>2 DEF Places, Answered
  <2>6. /\ inv' \in [Invs -> InvRecord] /\ inv'[i].sent = 1
        /\ \A j \in Invs : inv'[j].pc = inv[j].pc
        /\ \A j \in Invs \ {i} : inv'[j].sent = inv[j].sent
    <3>1. inv[i] \in InvRecord /\ inv'[i] = [inv[i] EXCEPT !.sent = 1]
          /\ \A j \in Invs \ {i} : inv'[j] = inv[j]
      BY <1>0, <2>1, <2>2, <2>5 DEF RunnerTypeOK
    <3>2. inv'[i] \in InvRecord /\ inv'[i].sent = 1 /\ inv'[i].pc = inv[i].pc
      BY <3>1 DEF InvRecord
    <3> QED
      BY <1>0, <2>1, <3>1, <3>2 DEF RunnerTypeOK
  <2>7. Answered' = Answered \cup {i}
    <3> HIDE DEF i
    <3> QED
      BY <2>2, <2>6 DEF Answered
  <2>8. HandlersApart' /\ (\A q \in DOMAIN proc' : proc'[q] \in ProcRecord)
        /\ DOMAIN proc' \subseteq 1..MaxProcs
    <3>1. r.next = "took" <=> r.hand # None
      BY <1>0, <2>3 DEF HandlersApart
    <3> QED
      BY <2>3, <3>1, <1>p
  <2>9. Reaped'
    BY <2>1, <2>3, <1>q
  <2>10. Places'
    <3> HIDE DEF i
    <3> QED
      BY <1>0, <2>1, <2>2, <2>4, <2>6, <2>7, <1>c DEF Places
  <2>11. RunnerTypeOK'
    BY <1>0, <2>1, <2>6, <2>8 DEF RunnerTypeOK
  <2> QED
    BY <2>8, <2>9, <2>10, <2>11 DEF RunnerInv
<1>6. CASE Reaps(p)
  <2> DEFINE r == [proc[p] EXCEPT !.reaped = TRUE]
  <2>1. /\ ~proc[p].alive /\ ~proc[p].reaped /\ started' = FALSE
        /\ inv' = [i \in Invs |->
                     IF i \in Failed THEN [inv[i] EXCEPT !.sent = @ + 1] ELSE inv[i]]
        /\ pending' = pending \ Failed
        /\ queue' = IF stopped THEN queue ELSE <<>>
        /\ UNCHANGED stopped
    BY <1>6 DEF Reaps
  <2>2. r \in ProcRecord /\ proc' = [proc EXCEPT ![p] = r]
        /\ r.hand = proc[p].hand /\ r.next = proc[p].next /\ r.posting = proc[p].posting
        /\ r.doing = proc[p].doing /\ r.reaped
    BY <1>6, <1>r DEF Reaps, ProcRecord
  <2> HIDE DEF r
  <2>3. UNCHANGED <<InHand, BeingPosted>>
    BY <2>2, OneProcessMoves
  <2>4. HandlersApart' /\ (\A q \in DOMAIN proc' : proc'[q] \in ProcRecord)
        /\ DOMAIN proc' \subseteq 1..MaxProcs
    <3>1. /\ r.next # "none" => r.doing = None
          /\ r.next = "took" <=> r.hand # None
          /\ r.posting => r.doing # None
      BY <1>0, <2>2 DEF HandlersApart
    <3> QED
      BY <2>2, <3>1, <1>p
  <2>5. Reaped'
    <3>1. /\ DOMAIN proc' = DOMAIN proc /\ proc'[p].reaped
          /\ \A q \in DOMAIN proc \ {p} : proc'[q] = proc[q]
      BY <2>2, OneProcessMoves
    <3>2. \A q \in DOMAIN proc : proc'[q].reaped
      BY <1>0, <2>1, <3>1 DEF Reaped, OneProcess
    <3> QED
      BY <2>1, <3>1, <3>2 DEF Reaped, OneProcess
  <2>6. Failed \subseteq Invs /\ Failed \subseteq pending \cup Queued
    BY <1>0 DEF Failed, RunnerTypeOK, Queued
  <2>7. \A j \in Failed : inv[j].sent = 0 /\ j \notin InHand \cup BeingPosted
    BY <1>0, <2>6 DEF Places, Answered
  <2>8. /\ inv' \in [Invs -> InvRecord]
        /\ \A j \in Invs : inv'[j].pc = inv[j].pc
        /\ \A j \in Failed : inv'[j].sent = 1
        /\ \A j \in Invs \ Failed : inv'[j].sent = inv[j].sent
    <3>1. /\ \A j \in Failed : inv[j] \in InvRecord /\ inv'[j] = [inv[j] EXCEPT !.sent = 1]
          /\ \A j \in Invs \ Failed : inv[j] \in InvRecord /\ inv'[j] = inv[j]
          /\ DOMAIN inv' = Invs /\ inv' = [j \in Invs |-> inv'[j]]
      BY <1>0, <2>1, <2>6, <2>7 DEF RunnerTypeOK
    <3>2. ASSUME NEW j \in Failed
          PROVE  inv'[j] \in InvRecord /\ inv'[j].sent = 1 /\ inv'[j].pc = inv[j].pc
      <4>1. inv[j] \in InvRecord /\ inv'[j] = [inv[j] EXCEPT !.sent = 1]
        BY <3>1
      <4> QED
        BY <4>1 DEF InvRecord
    <3> QED
      BY <2>6, <3>1, <3>2
  <2>9. Answered' = Answered \cup Failed
    BY <2>6, <2>8 DEF Answered
  <2>10. /\ Queued' = Queued \ Failed /\ queue' \in Seq(Invs) /\ Len(queue') <= QueueMax
         /\ \A m, n \in DOMAIN queue' : queue'[m] = queue'[n] => m = n
    <3>1. CASE stopped
      BY <1>0, <2>1, <3>1 DEF Queued, Failed, RunnerTypeOK, Places
    <3>2. CASE ~stopped
      <4>1. queue' = <<>>
        BY <2>1, <3>2
      <4>2. queue' \in Seq(Invs) /\ Len(queue') <= QueueMax /\ DOMAIN queue' = {}
        BY <4>1, RunnerAssumption
      <4>3. Queued' = {} /\ Queued \subseteq Failed
        BY <4>2, <3>2 DEF Queued, Failed
      <4> QED
        BY <4>2, <4>3
    <3> QED
      BY <3>1, <3>2
  <2>11. Places'
    BY <1>0, <2>1, <2>3, <2>6, <2>7, <2>8, <2>9, <2>10 DEF Places
  <2>12. RunnerTypeOK'
    BY <1>0, <2>1, <2>4, <2>8, <2>10 DEF RunnerTypeOK
  <2> QED
    BY <2>4, <2>5, <2>11, <2>12 DEF RunnerInv
<1> QED
  BY <1>1, <1>2, <1>3, <1>4, <1>5, <1>6 DEF Process

\* Stop kills the processes and leaves queue and pending to the callers' own
\* timeouts.
LEMMA StopStep == ASSUME RunnerInv, Stop PROVE RunnerInv'
<1>0. RunnerTypeOK /\ HandlersApart /\ Places /\ Reaped
  BY DEF RunnerInv
<1>1. UNCHANGED <<inv, queue, pending, started>> /\ stopped' = TRUE
  BY DEF Stop
<1>2. proc \in Seq(ProcRecord) /\ DOMAIN proc = 1..Len(proc) /\ Len(proc) \in Nat
      /\ \A p \in DOMAIN proc : proc[p] \in ProcRecord
  BY <1>0 DEF HandlersApart, RunnerTypeOK
<1>3. DOMAIN proc' = DOMAIN proc /\ proc' \in [1..Len(proc) -> ProcRecord]
      /\ \A p \in DOMAIN proc :
           /\ proc'[p].hand = proc[p].hand /\ proc'[p].next = proc[p].next
           /\ proc'[p].posting = proc[p].posting /\ proc'[p].reaped = proc[p].reaped
           /\ proc'[p].doing = IF proc[p].posting THEN proc[p].doing ELSE None
  BY <1>2 DEF Stop, ProcRecord
<1>4. proc' \in Seq(ProcRecord)
  BY <1>2, <1>3
<1>5. HandlersApart'
  BY <1>0, <1>3, <1>4 DEF HandlersApart
<1>6. Reaped'
  BY <1>0, <1>1, <1>3 DEF Reaped, OneProcess
<1>7. InHand' = InHand
  BY <1>3 DEF InHand
<1>8. BeingPosted' = BeingPosted
  BY <1>3 DEF BeingPosted
<1>9. Places'
  BY <1>0, <1>1, <1>7, <1>8 DEF Places, Queued, Answered
<1>10. RunnerTypeOK'
  BY <1>0, <1>1, <1>2, <1>3 DEF RunnerTypeOK
<1> QED
  BY <1>5, <1>6, <1>9, <1>10 DEF RunnerInv

\* Every step of the runtime API, of the process and of its reaper keeps each
\* invocation in one place.
LEMMA RunnerStep == RunnerInv /\ [RunnerNext]_runnerVars => RunnerInv'
<1> SUFFICES ASSUME RunnerInv, [RunnerNext]_runnerVars PROVE RunnerInv'
  OBVIOUS
<1>1. CASE UNCHANGED runnerVars
  BY <1>1 DEF runnerVars, RunnerInv, RunnerTypeOK, HandlersApart, Places, Reaped, OneProcess,
              Queued, InHand, BeingPosted, Answered
<1>2. CASE RunnerNext
  BY <1>2, CallerStep, ProcessStep, StopStep DEF RunnerNext
<1> QED
  BY <1>1, <1>2

\* In one place at a time.
LEMMA PlacesCounted == RunnerInv => HandedOverOnce
<1> SUFFICES ASSUME RunnerInv PROVE HandedOverOnce
  OBVIOUS
<1>0. RunnerTypeOK /\ HandlersApart /\ Places /\ Reaped
  BY DEF RunnerInv
<1>1. AnsweredOnce /\ OneProcess
  BY <1>0 DEF Places, Reaped, AnsweredOnce
<1>2. HeldInOnePlace
  <2> SUFFICES ASSUME NEW i \in Invs, inv[i].pc \in {"wait", "exec"}
               PROVE  Cardinality({n \in DOMAIN queue : queue[n] = i})
                        + (IF i \in InHand THEN 1 ELSE 0)
                        + (IF i \in pending THEN 1 ELSE 0)
                        + (IF i \in BeingPosted THEN 1 ELSE 0)
                        + inv[i].sent = 1
    BY DEF HeldInOnePlace
  <2> DEFINE places == {n \in DOMAIN queue : queue[n] = i}
  <2>1. Cardinality(places) = IF i \in Queued THEN 1 ELSE 0
    <3>1. CASE i \in Queued
      <4>1. PICK n \in DOMAIN queue : queue[n] = i
        BY <3>1 DEF Queued
      <4>2. places = {n}
        BY <1>0, <4>1 DEF Places
      <4> QED
        BY <3>1, <4>2, FS_Singleton
    <3>2. CASE i \notin Queued
      <4>1. places = {}
        BY <3>2 DEF Queued
      <4> QED
        BY <3>2, <4>1, FS_EmptySet
    <3> QED
      BY <3>1, <3>2
  <2>2. inv[i].sent = IF i \in Answered THEN 1 ELSE 0
    BY <1>0 DEF Places, Answered
  <2> HIDE DEF places
  <2>3. Cardinality(places) + (IF i \in InHand THEN 1 ELSE 0)
          + (IF i \in pending THEN 1 ELSE 0) + (IF i \in BeingPosted THEN 1 ELSE 0)
          + inv[i].sent = 1
    BY <1>0, <2>1, <2>2 DEF Places
  <2> QED
    BY <2>3 DEF places
<1> QED
  BY <1>1, <1>2 DEF HandedOverOnce

\* RunnerTypeOK for every set of invocations and every queue length.
THEOREM RunnerTyped == RunnerSpec => []RunnerTypeOK
<1>1. RunnerInv => RunnerTypeOK
  BY DEF RunnerInv
<1> QED
  BY <1>1, RunnerInitInv, RunnerStep, PTL DEF RunnerSpec

\* HandedOverOnce for every number of invocations and process restarts: the
\* runtime API (runtime.go) gives an invocation to one process and its
\* caller one answer, also when a response races a timeout or the process dies.
THEOREM OneAnswer == RunnerSpec => []HandedOverOnce
  BY RunnerInitInv, RunnerStep, PlacesCounted, PTL DEF RunnerSpec

-----------------------------------------------------------------------------
(* The pool.                                                               *)

\* A set of natural numbers that is not empty has a least one: the first idle
\* runner a pool finds.
LEMMA LeastNat ==
  ASSUME NEW S \in SUBSET Nat, S # {}
  PROVE  \E x \in S : \A y \in S : x <= y
<1> DEFINE R == {ss \in Nat \X Nat : ss[1] < ss[2]}
<1>1. OpToRel(<, Nat) = R
  BY Zenon DEF OpToRel
<1>2. IsWellFoundedOn(R, Nat)
  BY <1>1, NatLessThanWellFounded, Zenon
<1>3. \A x, y \in Nat : y < x => <<y, x>> \in R
  OBVIOUS
<1>4. PICK x \in S : \A y \in S : ~(<<y, x>> \in R)
  BY <1>2, WFMin
<1> HIDE DEF R
<1>5. ASSUME NEW y \in S PROVE x <= y
  <2>1. ~(<<y, x>> \in R)
    BY <1>4
  <2>2. x \in Nat /\ y \in Nat /\ ~(y < x)
    BY <1>3, <2>1
  <2> QED
    BY <2>2
<1> QED
  BY <1>5

InUse == {"start", "running", "release"}

\* How many invocations hold a runner of each pool, and each runner.
Inflight ==
  [p \in 1..MaxPools |-> Cardinality({c \in Calls : Holds(c, p)})]

Busy ==
  [r \in 1..MaxRunners |-> Cardinality({c \in Calls : HoldsRunner(c, r)})]

Counted ==
  \A p \in DOMAIN pool :
    /\ pool[p].inflight = Inflight[p]
    /\ ~pool[p].closed => \A r \in pool[p].runners : pool[p].busy[r] = Busy[r]

\* What the map owns: the runners of its pool.
Owned == IF inMap = NoPool THEN {} ELSE pool[inMap].runners

\* Pools are numbered in the order they were made.
PoolsNumbered == \E n \in Nat : DOMAIN pool = 1..n

\* Every runner made is in one of four places.
RunnersPlaced ==
  /\ \A p \in DOMAIN pool :
       /\ pool[p].runners \subseteq 1..(nextRunner - 1)
       /\ pool[p].closed => pool[p].runners = {}
       /\ ~pool[p].closed =>
            \A r \in 1..MaxRunners : r \notin pool[p].runners => pool[p].busy[r] = 0
  /\ Owned \cap (stopping \cup reaping \cup halted) = {}
  /\ 1..(nextRunner - 1) \subseteq Owned \cup stopping \cup reaping \cup halted
  /\ up \cap halted = {}

\* What an invocation that has a runner may rely on.
HoldersFit ==
  \A c \in Calls :
    /\ call[c].pc # "idle" => call[c].seen # 0
    /\ call[c].pc \in InUse =>
         /\ call[c].pool \in DOMAIN pool
         /\ call[c].runner \in 1..(nextRunner - 1)
         /\ call[c].runner \notin reaping
         /\ ~pool[call[c].pool].closed => call[c].runner \in pool[call[c].pool].runners
         /\ \A p \in DOMAIN pool : call[c].runner \in pool[p].runners => call[c].pool = p

\* While an update holds s.mu its pool is closed.
UpdateHolds ==
  mu = "update" => owed > 0 /\ (inMap # NoPool => pool[inMap].closed)

\* The inductive invariant of the pool.
PoolInv ==
  /\ PoolTypeOK /\ PoolsNumbered /\ RunnersPlaced /\ HoldersFit /\ UpdateHolds
  /\ OneOpenPool /\ Counted /\ IdleIsTimed

\* A function that was never invoked.
LEMMA PoolInitInv == PoolInit => PoolInv
<1> SUFFICES ASSUME PoolInit PROVE PoolInv
  OBVIOUS
<1>1. DOMAIN pool = {} /\ DOMAIN pool = 1..0
  BY DEF PoolInit
<1>2. \A c \in Calls : call[c] = Idle
  BY DEF PoolInit
<1>3. PoolTypeOK
  <2>1. Idle \in CallRecord
    BY PoolAssumption DEF Idle, CallRecord, NoPool, NoRunner, ClosedPool
  <2>2. call \in [Calls -> CallRecord]
    BY <2>1 DEF PoolInit
  <2>3. code \in 0..MaxVersion /\ owed \in Nat /\ nextRunner \in 1..(MaxRunners + 1)
    BY PoolAssumption DEF PoolInit
  <2> QED
    BY <1>1, <2>2, <2>3 DEF PoolTypeOK, Phases, PoolInit
<1>4. PoolsNumbered
  BY <1>1 DEF PoolsNumbered
<1>5. Owned = {}
  BY DEF Owned, PoolInit
<1>6. RunnersPlaced
  <2>1. 1..(nextRunner - 1) = {}
    BY DEF PoolInit
  <2> QED
    BY <1>1, <1>5, <2>1 DEF RunnersPlaced, PoolInit
<1>7. HoldersFit
  BY <1>2 DEF HoldersFit, InUse, Idle
<1>8. UpdateHolds
  BY DEF UpdateHolds, PoolInit
<1>9. OneOpenPool /\ Counted /\ IdleIsTimed
  BY <1>1 DEF OneOpenPool, Counted, IdleIsTimed
<1> QED
  BY <1>3, <1>4, <1>6, <1>7, <1>8, <1>9 DEF PoolInv

\* What growing a pool and choosing a runner give.
LEMMA GrownAndChosen ==
  ASSUME PoolInv, NEW p \in DOMAIN pool, NEW n \in Nat \ {0}, ~pool[p].closed,
         NEW S, S = Grown(p, n), \A x \in S : x <= MaxRunners,
         NEW m, m = nextRunner + Cardinality(S \ pool[p].runners)
  PROVE  /\ pool[p].runners \subseteq S /\ S \subseteq 1..MaxRunners
         /\ Chosen(p, S) \in S
         /\ m \in nextRunner..(MaxRunners + 1) /\ S \subseteq 1..(m - 1)
         /\ S \ pool[p].runners = nextRunner..(m - 1)
<1> DEFINE have == Cardinality(pool[p].runners)
           want == Smaller(n, PoolMax)
           R == pool[p].runners
<1>1. /\ nextRunner \in Nat \ {0} /\ nextRunner <= MaxRunners + 1 /\ MaxRunners \in Nat
      /\ R \subseteq 1..(nextRunner - 1) /\ pool[p].busy \in [1..MaxRunners -> Nat]
      /\ PoolMax \in Nat \ {0}
  BY PoolAssumption DEF PoolInv, PoolTypeOK, PoolRecord, RunnersPlaced
<1>2. want \in Nat \ {0}
  BY <1>1 DEF Smaller
<1>3. IsFiniteSet(R) /\ have \in Nat /\ (have = 0 <=> R = {})
  <2>1. IsFiniteSet(1..(nextRunner - 1))
    <3>1. 1 \in Int /\ nextRunner - 1 \in Int
      BY <1>1
    <3> QED
      BY <3>1, FS_Interval
  <2>2. IsFiniteSet(R)
    BY <1>1, <2>1, FS_Subset
  <2> QED
    BY <2>2, FS_CardinalityType, FS_EmptySet
<1> HIDE DEF want, have
<1>4. S = R \cup (IF have < want THEN nextRunner..(nextRunner + want - have - 1) ELSE {})
  BY DEF Grown, want, have
<1> DEFINE k == Cardinality(S \ R)
<1>5. k \in Nat /\ S \ R = nextRunner..(nextRunner + k - 1)
  <2>1. CASE have < want
    <3> DEFINE last == nextRunner + want - have - 1
    <3>1. last \in Int /\ nextRunner \in Int /\ nextRunner <= last
      BY <1>1, <1>2, <1>3, <2>1
    <3> HIDE DEF last
    <3>2. S = R \cup (nextRunner..last)
      BY <1>4, <2>1 DEF last
    <3>3. S \ R = nextRunner..last
      BY <1>1, <3>1, <3>2
    <3>4. Cardinality(nextRunner..last) = last - nextRunner + 1
      BY <3>1, FS_Interval
    <3>5. k = last - nextRunner + 1
      BY <3>3, <3>4
    <3> HIDE DEF k
    <3> QED
      BY <1>1, <3>1, <3>3, <3>5
  <2>2. CASE ~(have < want)
    <3>1. S \ R = {}
      BY <1>4, <2>2
    <3>2. k = 0
      BY <3>1, FS_EmptySet
    <3> HIDE DEF k
    <3> QED
      BY <1>1, <3>1, <3>2
  <2> QED
    BY <2>1, <2>2
<1>6. S # {} /\ R \subseteq S
  <2>1. R \subseteq S
    BY <1>4
  <2>2. CASE have < want
    <3>1. nextRunner \in nextRunner..(nextRunner + want - have - 1)
      BY <1>1, <1>2, <1>3, <2>2
    <3> QED
      BY <1>4, <2>1, <2>2, <3>1
  <2>3. CASE ~(have < want)
    BY <1>2, <1>3, <2>1, <2>3
  <2> QED
    BY <2>1, <2>2, <2>3
<1>7. S \subseteq 1..(nextRunner + k - 1) /\ S \subseteq 1..MaxRunners
  <2>1. \A x \in S : x <= MaxRunners
    OBVIOUS
  <2>2. \A x \in S : x \in R \/ x \in nextRunner..(nextRunner + k - 1)
    BY <1>5
  <2> HIDE DEF k, R
  <2>3. ASSUME NEW x \in S PROVE x \in 1..(nextRunner + k - 1) /\ x \in 1..MaxRunners
    <3>1. x <= MaxRunners /\ (x \in 1..(nextRunner - 1) \/ x \in nextRunner..(nextRunner + k - 1))
      BY <1>1, <2>1, <2>2, <2>3
    <3> QED
      BY <1>1, <1>5, <3>1
  <2> QED
    BY <2>3
<1>8. nextRunner + k <= MaxRunners + 1
  <2>1. CASE k = 0
    BY <1>1, <2>1
  <2>2. CASE k # 0
    <3> HIDE DEF k
    <3>1. nextRunner + k - 1 \in S \ R
      BY <1>1, <1>5, <2>2
    <3> QED
      BY <1>1, <1>5, <1>7, <3>1
  <2> QED
    BY <2>1, <2>2
<1>9. Chosen(p, S) \in S
  <2> DEFINE B == {pool[p].busy[r] : r \in S}
             M == {r \in S : \A x \in S : pool[p].busy[r] <= pool[p].busy[x]}
  <2>1. B \in SUBSET Nat /\ B # {}
    BY <1>1, <1>6, <1>7
  <2>2. \E b \in B : \A y \in B : b <= y
    BY <2>1, LeastNat
  <2>3. M # {} /\ M \subseteq S
    BY <2>2
  <2>4. M \in SUBSET Nat
    <3> HIDE DEF M
    <3> QED
      BY <1>1, <1>7, <2>3
  <2>5. \E x \in M : \A y \in M : x <= y
    BY <2>3, <2>4, LeastNat
  <2>6. Least(M) \in M
    BY <2>5 DEF Least
  <2> QED
    BY <2>3, <2>6 DEF Chosen
<1>10. nextRunner + k \in nextRunner..(MaxRunners + 1)
  <2> HIDE DEF k
  <2> QED
    BY <1>1, <1>5, <1>8
<1> QED
  <2>1. m = nextRunner + k
    OBVIOUS
  <2> HIDE DEF k, R
  <2>2. m \in nextRunner..(MaxRunners + 1)
    BY <1>10, <2>1
  <2>3. nextRunner + k - 1 = m - 1
    <3>1. nextRunner \in Nat /\ k \in Nat
      BY <1>1, <1>5
    <3>2. \A a, b, c \in Int : c = a + b => a + b - 1 = c - 1
      OBVIOUS
    <3>3. nextRunner \in Int /\ k \in Int /\ m \in Int
      BY <2>1, <3>1
    <3> QED
      BY <2>1, <3>2, <3>3, Zenon
  <2>4. S \subseteq 1..(m - 1) /\ S \ R = nextRunner..(m - 1)
    BY <1>5, <1>7, <2>3, Zenon
  <2> QED
    BY <1>6, <1>7, <1>9, <2>2, <2>4 DEF R

\* An invocation's step changes the counts of the pool and of the runner it
\* takes or gives back, and no other.
LEMMA CallKeeps ==
  ASSUME call \in [Calls -> CallRecord], NEW c \in Calls, NEW k \in CallRecord,
         call' = [call EXCEPT ![c] = k],
         k.pc \in InUse <=> call[c].pc \in InUse,
         k.pc \in InUse => k.pool = call[c].pool /\ k.runner = call[c].runner
  PROVE  Inflight' = Inflight /\ Busy' = Busy
<1>1. call'[c] = k /\ \A d \in Calls \ {c} : call'[d] = call[d]
  OBVIOUS
<1>2. ASSUME NEW p PROVE {d \in Calls : Holds(d, p)}' = {d \in Calls : Holds(d, p)}
  BY <1>1 DEF Holds, InUse
<1>3. ASSUME NEW r PROVE {d \in Calls : HoldsRunner(d, r)}' = {d \in Calls : HoldsRunner(d, r)}
  BY <1>1 DEF HoldsRunner, InUse
<1>4. Inflight' = Inflight
  BY <1>2 DEF Inflight
<1>5. Busy' = Busy
  BY <1>3 DEF Busy
<1> QED
  BY <1>4, <1>5

\* Taking a runner.
LEMMA CallTakes ==
  ASSUME call \in [Calls -> CallRecord], NEW c \in Calls, NEW k \in CallRecord,
         call' = [call EXCEPT ![c] = k],
         call[c].pc \notin InUse, k.pc \in InUse
  PROVE  /\ \A p \in 1..MaxPools :
              Inflight'[p] = IF p = k.pool THEN Inflight[p] + 1 ELSE Inflight[p]
         /\ \A r \in 1..MaxRunners :
              Busy'[r] = IF r = k.runner THEN Busy[r] + 1 ELSE Busy[r]
<1>1. call'[c] = k /\ \A d \in Calls \ {c} : call'[d] = call[d]
  OBVIOUS
<1>2. IsFiniteSet(Calls)
  BY PoolAssumption
<1>3. ASSUME NEW p \in 1..MaxPools
      PROVE  Inflight'[p] = IF p = k.pool THEN Inflight[p] + 1 ELSE Inflight[p]
  <2> DEFINE H == {d \in Calls : Holds(d, p)}
  <2>1. IsFiniteSet(H)
    BY <1>2, FS_Subset
  <2>2. Inflight[p] = Cardinality(H) /\ Inflight'[p] = Cardinality(H')
    BY DEF Inflight
  <2>3. c \notin H /\ H' = IF p = k.pool THEN H \cup {c} ELSE H
    BY <1>1 DEF Holds, InUse
  <2> HIDE DEF H
  <2>4. Cardinality(H \cup {c}) = Cardinality(H) + 1
    BY <2>1, <2>3, FS_AddElement
  <2> QED
    BY <2>2, <2>3, <2>4
<1>4. ASSUME NEW p \in 1..MaxRunners
      PROVE  Busy'[p] = IF p = k.runner THEN Busy[p] + 1 ELSE Busy[p]
  <2> DEFINE H == {d \in Calls : HoldsRunner(d, p)}
  <2>1. IsFiniteSet(H)
    BY <1>2, FS_Subset
  <2>2. Busy[p] = Cardinality(H) /\ Busy'[p] = Cardinality(H')
    BY DEF Busy
  <2>3. c \notin H /\ H' = IF p = k.runner THEN H \cup {c} ELSE H
    BY <1>1 DEF HoldsRunner, InUse
  <2> HIDE DEF H
  <2>4. Cardinality(H \cup {c}) = Cardinality(H) + 1
    BY <2>1, <2>3, FS_AddElement
  <2> QED
    BY <2>2, <2>3, <2>4
<1> QED
  BY <1>3, <1>4

\* Giving it back.
LEMMA CallGives ==
  ASSUME call \in [Calls -> CallRecord], NEW c \in Calls, NEW k \in CallRecord,
         call' = [call EXCEPT ![c] = k],
         call[c].pc \in InUse, k.pc \notin InUse
  PROVE  /\ \A p \in 1..MaxPools :
              Inflight'[p] = IF p = call[c].pool THEN Inflight[p] - 1 ELSE Inflight[p]
         /\ \A r \in 1..MaxRunners :
              Busy'[r] = IF r = call[c].runner THEN Busy[r] - 1 ELSE Busy[r]
<1>1. call'[c] = k /\ \A d \in Calls \ {c} : call'[d] = call[d]
  OBVIOUS
<1>2. IsFiniteSet(Calls)
  BY PoolAssumption
<1>3. ASSUME NEW p \in 1..MaxPools
      PROVE  Inflight'[p] = IF p = call[c].pool THEN Inflight[p] - 1 ELSE Inflight[p]
  <2> DEFINE H == {d \in Calls : Holds(d, p)}
  <2>1. IsFiniteSet(H)
    BY <1>2, FS_Subset
  <2>2. Inflight[p] = Cardinality(H) /\ Inflight'[p] = Cardinality(H')
    BY DEF Inflight
  <2>3. /\ p = call[c].pool => c \in H /\ H' = H \ {c}
        /\ p # call[c].pool => H' = H
    BY <1>1 DEF Holds, InUse
  <2> HIDE DEF H
  <2>4. c \in H => Cardinality(H \ {c}) = Cardinality(H) - 1
    BY <2>1, FS_RemoveElement
  <2> QED
    BY <2>2, <2>3, <2>4
<1>4. ASSUME NEW p \in 1..MaxRunners
      PROVE  Busy'[p] = IF p = call[c].runner THEN Busy[p] - 1 ELSE Busy[p]
  <2> DEFINE H == {d \in Calls : HoldsRunner(d, p)}
  <2>1. IsFiniteSet(H)
    BY <1>2, FS_Subset
  <2>2. Busy[p] = Cardinality(H) /\ Busy'[p] = Cardinality(H')
    BY DEF Busy
  <2>3. /\ p = call[c].runner => c \in H /\ H' = H \ {c}
        /\ p # call[c].runner => H' = H
    BY <1>1 DEF HoldsRunner, InUse
  <2> HIDE DEF H
  <2>4. c \in H => Cardinality(H \ {c}) = Cardinality(H) - 1
    BY <2>1, FS_RemoveElement
  <2> QED
    BY <2>2, <2>3, <2>4
<1> QED
  BY <1>3, <1>4

\* A step of an invocation that neither takes nor gives back a runner.
LEMMA QuietCall ==
  ASSUME PoolInv, NEW c \in Calls, NEW k \in CallRecord,
         call' = [call EXCEPT ![c] = k],
         k.pc \in InUse <=> call[c].pc \in InUse,
         k.pc \in InUse => k.pool = call[c].pool /\ k.runner = call[c].runner,
         k.pc # "idle" => k.seen # 0,
         up' \subseteq 1..(nextRunner - 1), up' \cap halted = {},
         UNCHANGED <<code, owed, inMap, pool, nextRunner, halted, stopping, reaping, mu, phase>>
  PROVE  PoolInv'
<1>0. PoolTypeOK /\ PoolsNumbered /\ RunnersPlaced /\ HoldersFit /\ UpdateHolds
      /\ OneOpenPool /\ Counted /\ IdleIsTimed
  BY DEF PoolInv
<1>1. /\ call' \in [Calls -> CallRecord]
      /\ call'[c] = k /\ \A d \in Calls \ {c} : call'[d] = call[d]
      /\ Inflight' = Inflight /\ Busy' = Busy
  <2>1. /\ call' \in [Calls -> CallRecord]
        /\ call'[c] = k /\ \A d \in Calls \ {c} : call'[d] = call[d]
    BY <1>0 DEF PoolTypeOK
  <2>2. call \in [Calls -> CallRecord]
    BY <1>0 DEF PoolTypeOK
  <2>3. Inflight' = Inflight /\ Busy' = Busy
    BY <2>2, CallKeeps
  <2> QED
    BY <2>1, <2>3
<1>2. PoolTypeOK'
  <2>1. up' \cup halted' \cup stopping' \cup reaping' \subseteq 1..(nextRunner - 1)
    BY <1>0 DEF PoolTypeOK
  <2> QED
    BY <1>0, <1>1, <2>1 DEF PoolTypeOK
<1>3. PoolsNumbered' /\ UpdateHolds' /\ OneOpenPool' /\ IdleIsTimed'
  BY <1>0 DEF PoolsNumbered, UpdateHolds, OneOpenPool, IdleIsTimed
<1>4. RunnersPlaced'
  BY <1>0 DEF RunnersPlaced, Owned
<1>5. HoldersFit'
  BY <1>0, <1>1 DEF HoldersFit
<1>6. Counted'
  BY <1>0, <1>1 DEF Counted
<1> QED
  BY <1>2, <1>3, <1>4, <1>5, <1>6 DEF PoolInv

\* Where an invocation goes when it ends: back to runnerFor or to its caller.
LEMMA EndedFits ==
  ASSUME PoolTypeOK, HoldersFit, NEW c \in Calls, NEW e \in {"ok", "failed", "closed"},
         call[c].pc # "idle"
  PROVE  /\ Ended(c, e) \in CallRecord /\ Ended(c, e).pc \in {"resolved", "idle"}
         /\ Ended(c, e).pc # "idle" => Ended(c, e).seen # 0
<1>1. call[c] \in CallRecord /\ call[c].seen \in 0..MaxVersion /\ call[c].seen # 0
      /\ call[c].tries \in Nat
  BY DEF PoolTypeOK, HoldersFit, CallRecord
<1>2. Idle \in CallRecord
  BY PoolAssumption DEF Idle, CallRecord, NoPool, NoRunner, ClosedPool
<1> DEFINE from == [Idle EXCEPT !.pc = "resolved", !.seen = call[c].seen,
                                !.tries = call[c].tries]
<1>3. from \in CallRecord /\ from.pc = "resolved" /\ from.seen # 0 /\ from.tries \in Nat
  BY <1>1, <1>2 DEF CallRecord, Idle
<1>4. Ended(c, e) \in {[from EXCEPT !.again = TRUE], [from EXCEPT !.tries = @ + 1], Idle}
  BY DEF Ended
<1> HIDE DEF from
<1>5. [from EXCEPT !.again = TRUE] \in CallRecord
      /\ [from EXCEPT !.again = TRUE].pc = "resolved" /\ [from EXCEPT !.again = TRUE].seen # 0
  BY <1>3 DEF CallRecord
<1>6. [from EXCEPT !.tries = @ + 1] \in CallRecord
      /\ [from EXCEPT !.tries = @ + 1].pc = "resolved" /\ [from EXCEPT !.tries = @ + 1].seen # 0
  BY <1>3 DEF CallRecord
<1>7. Idle.pc = "idle"
  BY DEF Idle
<1> QED
  BY <1>2, <1>4, <1>5, <1>6, <1>7

\* Resolve, Refused, Start, Finish and runnerFor's answers that make no pool.
LEMMA QuietSteps ==
  ASSUME PoolInv, NEW c \in Calls,
         \/ Resolve(c) \/ Refused(c) \/ Start(c)
         \/ \E e \in {"ok", "failed"} : Finish(c, e)
  PROVE  PoolInv'
<1>0. PoolTypeOK /\ RunnersPlaced /\ HoldersFit
  BY DEF PoolInv
<1>r. call[c] \in CallRecord /\ up \subseteq 1..(nextRunner - 1) /\ up \cap halted = {}
  BY <1>0 DEF PoolTypeOK, RunnersPlaced
<1>1. CASE Resolve(c)
  <2> DEFINE k == [Idle EXCEPT !.pc = "resolved", !.seen = code]
  <2>1. k \in CallRecord /\ k.pc = "resolved" /\ k.seen # 0
    <3>1. Idle \in CallRecord
      BY PoolAssumption DEF Idle, CallRecord, NoPool, NoRunner, ClosedPool
    <3>2. code \in 0..MaxVersion /\ code # 0
      BY <1>0, <1>1 DEF PoolTypeOK, Resolve, Gone
    <3> QED
      BY <3>1, <3>2 DEF CallRecord
  <2>2. call' = [call EXCEPT ![c] = k] /\ call[c].pc = "idle"
        /\ UNCHANGED <<code, owed, inMap, pool, nextRunner, up, halted, stopping, reaping, mu, phase>>
    BY <1>1 DEF Resolve
  <2> HIDE DEF k
  <2> QED
    BY <1>r, <2>1, <2>2, QuietCall DEF InUse
<1>2. CASE Refused(c)
  <2>1. /\ Ended(c, "closed") \in CallRecord /\ Ended(c, "closed").pc \in {"resolved", "idle"}
        /\ Ended(c, "closed").pc # "idle" => Ended(c, "closed").seen # 0
    BY <1>0, <1>2, EndedFits DEF Refused
  <2>2. call' = [call EXCEPT ![c] = Ended(c, "closed")] /\ call[c].pc = "acquire"
        /\ UNCHANGED <<code, owed, inMap, pool, nextRunner, up, halted, stopping, reaping, mu, phase>>
    BY <1>2 DEF Refused
  <2> QED
    BY <1>r, <2>1, <2>2, QuietCall DEF InUse
<1>3. ASSUME NEW e \in {"ok", "failed", "closed"}, call[c].pc \in {"start", "running"},
             call' = [call EXCEPT ![c].pc = "release", ![c].end = e],
             UNCHANGED <<code, owed, inMap, pool, nextRunner, up, halted, stopping, reaping, mu, phase>>
      PROVE  PoolInv'
  <2> DEFINE k == [call[c] EXCEPT !.pc = "release", !.end = e]
  <2>1. k \in CallRecord /\ k.pc = "release" /\ k.seen = call[c].seen /\ k.seen # 0
        /\ k.pool = call[c].pool /\ k.runner = call[c].runner
    BY <1>0, <1>r, <1>3 DEF HoldersFit, CallRecord
  <2>2. call' = [call EXCEPT ![c] = k]
    BY <1>0, <1>3 DEF PoolTypeOK
  <2> HIDE DEF k
  <2> QED
    BY <1>r, <1>3, <2>1, <2>2, QuietCall DEF InUse
<1>4. CASE \E e \in {"ok", "failed"} : Finish(c, e)
  BY <1>3, <1>4 DEF Finish
<1>5. CASE Start(c)
  <2>1. CASE \E e \in {"closed", "failed"} :
               call' = [call EXCEPT ![c].pc = "release", ![c].end = e] /\ UNCHANGED up
    BY <1>3, <1>5, <2>1 DEF Start
  <2>2. CASE /\ call[c].runner \notin halted
             /\ up' = up \cup {call[c].runner}
             /\ call' = [call EXCEPT ![c].pc = "running"]
    <3> DEFINE k == [call[c] EXCEPT !.pc = "running"]
    <3>0. call[c].pc = "start"
          /\ UNCHANGED <<code, owed, inMap, pool, nextRunner, halted, stopping, reaping, mu, phase>>
      BY <1>5 DEF Start
    <3>1. k \in CallRecord /\ k.pc = "running" /\ k.seen # 0
          /\ k.pool = call[c].pool /\ k.runner = call[c].runner
      BY <1>0, <1>r, <3>0 DEF HoldersFit, CallRecord
    <3>2. call' = [call EXCEPT ![c] = k]
      BY <1>0, <2>2 DEF PoolTypeOK
    <3>3. call[c].runner \in 1..(nextRunner - 1)
      BY <1>0, <3>0 DEF HoldersFit, InUse
    <3>4. up' \subseteq 1..(nextRunner - 1) /\ up' \cap halted = {}
      BY <1>r, <2>2, <3>3
    <3> HIDE DEF k
    <3> QED
      BY <3>0, <3>1, <3>2, <3>4, QuietCall DEF InUse
  <2> QED
    BY <1>5, <2>1, <2>2 DEF Start
<1> QED
  BY <1>1, <1>2, <1>4, <1>5

\* An invocation gets a runner of its pool: an idle one, or a new process when
\* the pool is not full (pool.go).
LEMMA RunnerForStep ==
  ASSUME PoolInv, NEW c \in Calls, RunnerFor(c)
  PROVE  PoolInv'
<1>0. PoolTypeOK /\ PoolsNumbered /\ RunnersPlaced /\ HoldersFit /\ UpdateHolds
      /\ OneOpenPool /\ Counted /\ IdleIsTimed
  BY DEF PoolInv
<1>1. /\ call[c].pc = "resolved" /\ mu = "free"
      /\ UNCHANGED <<code, owed, nextRunner, up, halted, stopping, reaping, mu, phase>>
  BY DEF RunnerFor
<1>2. call[c] \in CallRecord /\ call[c].seen # 0 /\ call[c].seen \in 1..MaxVersion
      /\ up \subseteq 1..(nextRunner - 1) /\ up \cap halted = {}
  BY <1>0, <1>1 DEF PoolTypeOK, HoldersFit, RunnersPlaced, CallRecord
<1>3. ASSUME NEW p \in ClosedPool..MaxPools, call' = [call EXCEPT ![c].pc = "acquire", ![c].pool = p]
      PROVE  \E k \in CallRecord : /\ call' = [call EXCEPT ![c] = k]
                                   /\ k.pc = "acquire" /\ k.seen # 0
  <2> DEFINE k == [call[c] EXCEPT !.pc = "acquire", !.pool = p]
  <2>1. k \in CallRecord /\ k.pc = "acquire" /\ k.seen # 0
    BY <1>2 DEF CallRecord
  <2>2. call' = [call EXCEPT ![c] = k]
    BY <1>0, <1>3 DEF PoolTypeOK
  <2> QED
    BY <2>1, <2>2
<1>4. ASSUME NEW p \in ClosedPool..MaxPools, call' = [call EXCEPT ![c].pc = "acquire", ![c].pool = p],
             UNCHANGED <<pool, inMap>>
      PROVE  PoolInv'
  <2>1. PICK k \in CallRecord : /\ call' = [call EXCEPT ![c] = k]
                                /\ k.pc = "acquire" /\ k.seen # 0
    BY <1>3, <1>4
  <2> QED
    BY <1>1, <1>2, <1>4, <2>1, QuietCall DEF InUse
<1>5. \A p \in DOMAIN pool \cup {ClosedPool} : p \in ClosedPool..MaxPools
  BY <1>0, PoolAssumption DEF PoolTypeOK, ClosedPool
<1>6. CASE inMap # NoPool /\ call' = [call EXCEPT ![c].pc = "acquire", ![c].pool = inMap]
             /\ UNCHANGED <<pool, inMap>>
  <2>1. inMap \in DOMAIN pool
    BY <1>0, <1>6 DEF PoolTypeOK
  <2> QED
    BY <1>4, <1>5, <1>6, <2>1
<1>7. CASE call' = [call EXCEPT ![c].pc = "acquire", ![c].pool = ClosedPool]
             /\ UNCHANGED <<pool, inMap>>
  BY <1>4, <1>5, <1>7
<1> DEFINE new == Cardinality(DOMAIN pool) + 1
           q == NewPool(call[c].seen)
<1>8. CASE /\ inMap = NoPool /\ new <= MaxPools
           /\ call' = [call EXCEPT ![c].pc = "acquire", ![c].pool = new]
           /\ pool' = [p \in DOMAIN pool \cup {new} |-> IF p = new THEN q ELSE pool[p]]
           /\ inMap' = new
  <2>1. PICK n \in Nat : DOMAIN pool = 1..n
    BY <1>0 DEF PoolsNumbered
  <2>2. new = n + 1
    <3>1. 1 \in Int /\ n \in Int
      BY <2>1
    <3>2. Cardinality(1..n) = n
      BY <2>1, <3>1, FS_Interval
    <3> QED
      BY <2>1, <3>2
  <2> HIDE DEF new
  <2>3. /\ DOMAIN pool' = 1..(n + 1) /\ new \notin DOMAIN pool /\ new \in DOMAIN pool'
        /\ pool'[new] = q /\ \A p \in DOMAIN pool : p \in DOMAIN pool' /\ pool'[p] = pool[p]
        /\ \A p \in DOMAIN pool' : p = new \/ p \in DOMAIN pool
    BY <1>8, <2>1, <2>2
  <2>4. /\ q \in PoolRecord /\ q.runners = {} /\ ~q.closed /\ q.inflight = 0
        /\ \A r \in 1..MaxRunners : q.busy[r] = 0
    BY <1>0, <1>2 DEF NewPool, PoolRecord, PoolTypeOK
  <2> HIDE DEF q
  <2>5. new \in ClosedPool..MaxPools /\ new \in 1..MaxPools /\ new # NoPool
    BY <1>8, <2>1, <2>2 DEF ClosedPool, NoPool
  <2>6. PICK k \in CallRecord : /\ call' = [call EXCEPT ![c] = k]
                                /\ k.pc = "acquire" /\ k.seen # 0
    BY <1>3, <1>8, <2>5
  <2>7. /\ call' \in [Calls -> CallRecord] /\ call'[c] = k
        /\ \A d \in Calls \ {c} : call'[d] = call[d]
    BY <1>0, <2>6 DEF PoolTypeOK
  <2>8. Inflight' = Inflight /\ Busy' = Busy
    <3>1. call \in [Calls -> CallRecord]
      BY <1>0 DEF PoolTypeOK
    <3> QED
      BY <1>1, <2>6, <3>1, CallKeeps DEF InUse
  <2>9. PoolTypeOK'
    <3>1. DOMAIN pool' \subseteq 1..MaxPools /\ inMap' \in DOMAIN pool'
          /\ \A p \in DOMAIN pool' : pool'[p] \in PoolRecord
      BY <1>0, <1>8, <2>3, <2>4, <2>5 DEF PoolTypeOK
    <3> QED
      BY <1>0, <1>1, <2>7, <3>1 DEF PoolTypeOK
  <2>10. PoolsNumbered'
    BY <2>3 DEF PoolsNumbered
  <2>11. Owned = {} /\ Owned' = {}
    BY <1>8, <2>3, <2>4, <2>5 DEF Owned
  <2>12. RunnersPlaced'
    <3>1. \A p \in DOMAIN pool' :
             /\ pool'[p].runners \subseteq 1..(nextRunner - 1)
             /\ pool'[p].closed => pool'[p].runners = {}
             /\ ~pool'[p].closed =>
                  \A r \in 1..MaxRunners : r \notin pool'[p].runners => pool'[p].busy[r] = 0
      BY <1>0, <2>3, <2>4 DEF RunnersPlaced
    <3> QED
      BY <1>0, <1>1, <2>11, <3>1 DEF RunnersPlaced
  <2>13. HoldersFit'
    <3>1. \A d \in Calls : call'[d].pc # "idle" => call'[d].seen # 0
      BY <1>0, <2>6, <2>7 DEF HoldersFit
    <3>2. ASSUME NEW d \in Calls, call'[d].pc \in InUse
          PROVE  /\ call'[d].pool \in DOMAIN pool'
                 /\ call'[d].runner \in 1..(nextRunner - 1)
                 /\ call'[d].runner \notin reaping
                 /\ ~pool'[call'[d].pool].closed => call'[d].runner \in pool'[call'[d].pool].runners
                 /\ \A p \in DOMAIN pool' : call'[d].runner \in pool'[p].runners => call'[d].pool = p
      <4>1. d # c /\ call'[d] = call[d]
        BY <2>6, <2>7, <3>2 DEF InUse
      <4> QED
        BY <1>0, <2>3, <2>4, <3>2, <4>1 DEF HoldersFit
    <3> QED
      BY <1>1, <3>1, <3>2 DEF HoldersFit
  <2>14. UpdateHolds'
    BY <1>1 DEF UpdateHolds
  <2>15. OneOpenPool'
    BY <1>0, <1>8, <2>3, <2>1 DEF OneOpenPool, NoPool
  <2>16. Counted'
    <3>1. Inflight[new] = 0
      <4>1. {d \in Calls : Holds(d, new)} = {}
        BY <1>0, <2>3 DEF HoldersFit, Holds, InUse
      <4> QED
        BY <2>5, <4>1, FS_EmptySet DEF Inflight
    <3> QED
      BY <1>0, <2>3, <2>4, <2>8, <3>1 DEF Counted
  <2>17. IdleIsTimed'
    BY <1>0, <2>3, <2>4 DEF IdleIsTimed
  <2> QED
    BY <2>9, <2>10, <2>12, <2>13, <2>14, <2>15, <2>16, <2>17 DEF PoolInv
<1> QED
  BY <1>6, <1>7, <1>8 DEF RunnerFor

\* acquire: the pool is looked up, made or closed behind its caller, who then
\* holds a runner or waits for one.
LEMMA AcquireStep ==
  ASSUME PoolInv, NEW c \in Calls, Acquire(c)
  PROVE  PoolInv'
<1>0. PoolTypeOK /\ PoolsNumbered /\ RunnersPlaced /\ HoldersFit /\ UpdateHolds
      /\ OneOpenPool /\ Counted /\ IdleIsTimed
  BY DEF PoolInv
<1> DEFINE p == call[c].pool
           n == pool[p].inflight + 1
           S == Grown(p, n)
           r == Chosen(p, S)
           m == nextRunner + Cardinality(S \ pool[p].runners)
           q == [pool[p] EXCEPT !.timer = "none", !.inflight = n, !.runners = S,
                                !.busy = [pool[p].busy EXCEPT ![r] = @ + 1]]
           k == [call[c] EXCEPT !.pc = "start", !.runner = r]
<1>1. /\ call[c].pc = "acquire" /\ p \in DOMAIN pool /\ ~pool[p].closed
      /\ \A x \in S : x <= MaxRunners
      /\ nextRunner' = m
      /\ UNCHANGED <<code, owed, inMap, up, halted, stopping, reaping, mu, phase>>
  BY DEF Acquire, IsClosed
<1>2. call[c] \in CallRecord /\ pool[p] \in PoolRecord /\ n \in Nat \ {0} /\ p = inMap
      /\ n = pool[p].inflight + 1 /\ pool[p].inflight \in Nat
      /\ pool[p].busy \in [1..MaxRunners -> Nat]
  BY <1>0, <1>1 DEF PoolTypeOK, PoolRecord, OneOpenPool
<1>3. /\ pool[p].runners \subseteq S /\ S \subseteq 1..MaxRunners /\ r \in S
      /\ m \in nextRunner..(MaxRunners + 1)
      /\ S \subseteq 1..(m - 1) /\ S \ pool[p].runners = nextRunner..(m - 1)
  <2> HIDE DEF n, p
  <2>1. S = Grown(p, n) /\ r = Chosen(p, S)
    OBVIOUS
  <2>2. m = nextRunner + Cardinality(S \ pool[p].runners)
    OBVIOUS
  <2> HIDE DEF S, r, m
  <2> QED
    BY <1>1, <1>2, <2>1, <2>2, GrownAndChosen
<1>4. pool' = [pool EXCEPT ![p] = q] /\ call' = [call EXCEPT ![c] = k]
  <2>1. pool' = [pool EXCEPT ![p].timer = "none", ![p].inflight = n,
                             ![p].runners = S, ![p].busy[r] = @ + 1]
        /\ call' = [call EXCEPT ![c].pc = "start", ![c].runner = r]
    BY DEF Acquire
  <2> HIDE DEF n, S, r
  <2>2. pool' = [pool EXCEPT ![p] = q]
    BY <1>2, <2>1 DEF PoolRecord
  <2>3. call' = [call EXCEPT ![c] = k]
    BY <1>2, <2>1 DEF CallRecord
  <2> QED
    BY <2>2, <2>3
<1>5. nextRunner \in Nat \ {0} /\ nextRunner \in 1..(MaxRunners + 1) /\ MaxRunners \in Nat
  BY <1>0, PoolAssumption DEF PoolTypeOK
<1> HIDE DEF n, S, r, m
<1>6. /\ q \in PoolRecord /\ q.inflight = n /\ q.runners = S /\ ~q.closed
      /\ q.busy[r] = pool[p].busy[r] + 1
      /\ \A x \in 1..MaxRunners \ {r} : q.busy[x] = pool[p].busy[x]
  <2>1. [pool[p].busy EXCEPT ![r] = @ + 1] \in [1..MaxRunners -> Nat]
    <3> DEFINE b == pool[p].busy
    <3>1. b \in [1..MaxRunners -> Nat] /\ r \in 1..MaxRunners
      BY <1>2, <1>3
    <3> HIDE DEF b
    <3>2. [b EXCEPT ![r] = @ + 1] \in [1..MaxRunners -> Nat]
      BY <3>1
    <3> QED
      BY <3>2 DEF b
  <2>2. q \in PoolRecord
    BY <1>2, <1>3, <2>1 DEF PoolRecord
  <2>3. q.inflight = n /\ q.runners = S /\ ~q.closed
        /\ q.busy = [pool[p].busy EXCEPT ![r] = @ + 1]
    BY <1>1, <1>2 DEF PoolRecord
  <2> HIDE DEF q, p
  <2>4. r \in 1..MaxRunners /\ DOMAIN pool[p].busy = 1..MaxRunners
    <3>1. r \in 1..MaxRunners
      BY <1>3
    <3>2. DOMAIN pool[p].busy = 1..MaxRunners
      BY <1>2
    <3> QED
      BY <3>1, <3>2
  <2>5. q.busy[r] = pool[p].busy[r] + 1
        /\ \A x \in 1..MaxRunners \ {r} : q.busy[x] = pool[p].busy[x]
    BY <2>3, <2>4
  <2> QED
    BY <2>2, <2>3, <2>5
<1>7. /\ k \in CallRecord /\ k.pc = "start" /\ k.runner = r /\ k.pool = p /\ k.seen # 0
  <2>1. r \in 0..MaxRunners
    BY <1>3, <1>5
  <2>2. call[c].seen # 0
    BY <1>0, <1>1 DEF HoldersFit
  <2> QED
    BY <1>2, <2>1, <2>2 DEF CallRecord
<1> HIDE DEF q, k
<1>8. /\ DOMAIN pool' = DOMAIN pool /\ pool'[p] = q
      /\ \A x \in DOMAIN pool \ {p} : pool'[x] = pool[x]
  BY <1>1, <1>4
<1>9. /\ call' \in [Calls -> CallRecord] /\ call'[c] = k
      /\ \A d \in Calls \ {c} : call'[d] = call[d]
  BY <1>0, <1>4, <1>7 DEF PoolTypeOK
<1>10. /\ \A x \in 1..MaxPools : Inflight'[x] = IF x = p THEN Inflight[x] + 1 ELSE Inflight[x]
       /\ \A x \in 1..MaxRunners : Busy'[x] = IF x = r THEN Busy[x] + 1 ELSE Busy[x]
  <2>1. call \in [Calls -> CallRecord]
    BY <1>0 DEF PoolTypeOK
  <2> HIDE DEF p
  <2> QED
    BY <1>1, <1>4, <1>7, <2>1, CallTakes DEF InUse
<1>11. DOMAIN pool \subseteq 1..MaxPools /\ p \in 1..MaxPools
  BY <1>0, <1>1 DEF PoolTypeOK
<1> HIDE DEF p
<1>12. \A x \in DOMAIN pool \ {p} : pool[x].closed /\ pool[x].runners = {}
  BY <1>0, <1>2 DEF OneOpenPool, RunnersPlaced
<1>13. m \in Nat /\ nextRunner <= m /\ m <= MaxRunners + 1 /\ 1..(nextRunner - 1) \subseteq 1..(m - 1)
       /\ \A x \in 1..(m - 1) : x \in 1..(nextRunner - 1) \/ x \in nextRunner..(m - 1)
  BY <1>3, <1>5
<1>14. PoolTypeOK'
  <2>1. up \cup halted \cup stopping \cup reaping \subseteq 1..(m - 1)
    BY <1>0, <1>13 DEF PoolTypeOK
  <2>2. m \in 1..(MaxRunners + 1)
    BY <1>5, <1>13
  <2>3. \A x \in DOMAIN pool' : pool'[x] \in PoolRecord
    BY <1>0, <1>6, <1>8 DEF PoolTypeOK
  <2> QED
    BY <1>0, <1>1, <1>8, <1>9, <2>1, <2>2, <2>3 DEF PoolTypeOK
<1>15. PoolsNumbered'
  BY <1>0, <1>8 DEF PoolsNumbered
<1>16. Owned = pool[p].runners /\ Owned' = S
  <2>1. inMap # NoPool
    BY <1>2, <1>11 DEF NoPool
  <2> QED
    BY <1>1, <1>2, <1>6, <1>8, <2>1 DEF Owned
<1>17. RunnersPlaced'
  <2>1. \A x \in DOMAIN pool' :
          /\ pool'[x].runners \subseteq 1..(m - 1)
          /\ pool'[x].closed => pool'[x].runners = {}
          /\ ~pool'[x].closed =>
               \A y \in 1..MaxRunners : y \notin pool'[x].runners => pool'[x].busy[y] = 0
    <3>1. ASSUME NEW y \in 1..MaxRunners, y \notin S PROVE q.busy[y] = 0
      BY <1>0, <1>1, <1>3, <1>6, <3>1 DEF RunnersPlaced
    <3> QED
      BY <1>3, <1>6, <1>8, <1>12, <3>1
  <2>2. S \cap (stopping \cup reaping \cup halted) = {}
    <3>1. \A x \in nextRunner..(m - 1) : x \notin 1..(nextRunner - 1)
      BY <1>5, <1>13
    <3>2. stopping \cup reaping \cup halted \subseteq 1..(nextRunner - 1)
      BY <1>0 DEF PoolTypeOK
    <3> QED
      BY <1>0, <1>3, <1>16, <3>1, <3>2 DEF RunnersPlaced
  <2>3. 1..(m - 1) \subseteq S \cup stopping \cup reaping \cup halted
    BY <1>0, <1>3, <1>13, <1>16 DEF RunnersPlaced
  <2> QED
    BY <1>0, <1>1, <1>16, <2>1, <2>2, <2>3 DEF RunnersPlaced
<1>18. HoldersFit'
  <2>1. \A d \in Calls : call'[d].pc # "idle" => call'[d].seen # 0
    BY <1>0, <1>7, <1>9 DEF HoldersFit
  <2>2. /\ call'[c].pool \in DOMAIN pool'
        /\ call'[c].runner \in 1..(m - 1)
        /\ call'[c].runner \notin reaping
        /\ ~pool'[call'[c].pool].closed => call'[c].runner \in pool'[call'[c].pool].runners
        /\ \A x \in DOMAIN pool' : call'[c].runner \in pool'[x].runners => call'[c].pool = x
    <3>1. r \notin reaping
      BY <1>1, <1>3, <1>16, <1>17 DEF RunnersPlaced
    <3> QED
      BY <1>1, <1>3, <1>6, <1>7, <1>8, <1>9, <1>12, <3>1
  <2>3. ASSUME NEW d \in Calls \ {c}, call[d].pc \in InUse
        PROVE  /\ call[d].pool \in DOMAIN pool'
               /\ call[d].runner \in 1..(m - 1)
               /\ call[d].runner \notin reaping
               /\ ~pool'[call[d].pool].closed => call[d].runner \in pool'[call[d].pool].runners
               /\ \A x \in DOMAIN pool' : call[d].runner \in pool'[x].runners => call[d].pool = x
    <3>1. /\ call[d].pool \in DOMAIN pool
          /\ call[d].runner \in 1..(nextRunner - 1)
          /\ call[d].runner \notin reaping
          /\ ~pool[call[d].pool].closed => call[d].runner \in pool[call[d].pool].runners
          /\ \A x \in DOMAIN pool : call[d].runner \in pool[x].runners => call[d].pool = x
      BY <1>0, <2>3 DEF HoldersFit
    <3>2. call[d].runner \in S => call[d].runner \in pool[p].runners
      <4>1. call[d].runner \notin nextRunner..(m - 1)
        BY <1>5, <1>13, <3>1
      <4> QED
        BY <1>3, <4>1
    <3>3. ~pool'[call[d].pool].closed => call[d].runner \in pool'[call[d].pool].runners
      BY <1>1, <1>3, <1>6, <1>8, <3>1
    <3>4. \A x \in DOMAIN pool' : call[d].runner \in pool'[x].runners => call[d].pool = x
      BY <1>1, <1>6, <1>8, <3>1, <3>2
    <3> QED
      BY <1>8, <1>13, <3>1, <3>3, <3>4
  <2> QED
    BY <1>1, <1>9, <2>1, <2>2, <2>3 DEF HoldersFit
<1>19. UpdateHolds'
  BY <1>0, <1>1, <1>2 DEF UpdateHolds
<1>20. OneOpenPool'
  BY <1>1, <1>2, <1>8, <1>12 DEF OneOpenPool
<1>21. Counted'
  <2>1. ASSUME NEW x \in S PROVE q.busy[x] = Busy'[x]
    <3>1. x \in 1..MaxRunners /\ r \in 1..MaxRunners
      BY <1>3
    <3>2. pool[p].busy[x] = Busy[x]
      <4>1. CASE x \in pool[p].runners
        BY <1>0, <1>1, <4>1 DEF Counted
      <4>2. CASE x \notin pool[p].runners
        <5>1. pool[p].busy[x] = 0
          BY <1>0, <1>1, <3>1, <4>2 DEF RunnersPlaced
        <5>2. x \notin 1..(nextRunner - 1)
          BY <1>3, <1>5, <1>13, <4>2
        <5>3. {d \in Calls : HoldsRunner(d, x)} = {}
          BY <1>0, <5>2 DEF HoldersFit, HoldsRunner, InUse
        <5>4. Busy[x] = 0
          BY <3>1, <5>3, FS_EmptySet DEF Busy
        <5> QED
          BY <5>1, <5>4
      <4> QED
        BY <4>1, <4>2
    <3> QED
      BY <1>6, <1>10, <3>1, <3>2
  <2>2. q.inflight = Inflight'[p]
    BY <1>0, <1>1, <1>2, <1>6, <1>10, <1>11 DEF Counted
  <2>3. \A x \in DOMAIN pool \ {p} : pool[x].inflight = Inflight'[x]
    BY <1>0, <1>10, <1>11 DEF Counted
  <2> QED
    BY <1>6, <1>8, <1>12, <2>1, <2>2, <2>3 DEF Counted
<1>22. IdleIsTimed'
  BY <1>0, <1>2, <1>6, <1>8 DEF IdleIsTimed
<1> QED
  BY <1>14, <1>15, <1>17, <1>18, <1>19, <1>20, <1>21, <1>22 DEF PoolInv

\* The counts are natural numbers, and those of what is held are not zero.
LEMMA CountsFit ==
  /\ \A p \in 1..MaxPools : Inflight[p] \in Nat
  /\ \A r \in 1..MaxRunners : Busy[r] \in Nat
  /\ \A c \in Calls : call[c].pc \in InUse =>
       /\ call[c].pool \in 1..MaxPools => Inflight[call[c].pool] # 0
       /\ call[c].runner \in 1..MaxRunners => Busy[call[c].runner] # 0
<1>1. IsFiniteSet(Calls)
  BY PoolAssumption
<1>2. ASSUME NEW p \in 1..MaxPools
      PROVE  Inflight[p] \in Nat
             /\ \A c \in Calls : call[c].pc \in InUse /\ call[c].pool = p => Inflight[p] # 0
  <2> DEFINE H == {c \in Calls : Holds(c, p)}
  <2>1. IsFiniteSet(H)
    BY <1>1, FS_Subset
  <2>2. Cardinality(H) \in Nat /\ (Cardinality(H) = 0 <=> H = {})
    BY <2>1, FS_CardinalityType, FS_EmptySet
  <2>3. \A c \in Calls : call[c].pc \in InUse /\ call[c].pool = p => c \in H
    BY DEF Holds, InUse
  <2>4. Inflight[p] = Cardinality(H)
    BY DEF Inflight
  <2> HIDE DEF H
  <2> QED
    BY <2>2, <2>3, <2>4
<1>3. ASSUME NEW r \in 1..MaxRunners
      PROVE  Busy[r] \in Nat
             /\ \A c \in Calls : call[c].pc \in InUse /\ call[c].runner = r => Busy[r] # 0
  <2> DEFINE H == {c \in Calls : HoldsRunner(c, r)}
  <2>1. IsFiniteSet(H)
    BY <1>1, FS_Subset
  <2>2. Cardinality(H) \in Nat /\ (Cardinality(H) = 0 <=> H = {})
    BY <2>1, FS_CardinalityType, FS_EmptySet
  <2>3. \A c \in Calls : call[c].pc \in InUse /\ call[c].runner = r => c \in H
    BY DEF HoldsRunner, InUse
  <2>4. Busy[r] = Cardinality(H)
    BY DEF Busy
  <2> HIDE DEF H
  <2> QED
    BY <2>2, <2>3, <2>4
<1> QED
  BY <1>2, <1>3

\* release: the runner goes back to its pool or, when the pool is closed or the
\* process broke, to its end; the last holder arms the idle timer.
LEMMA ReleaseStep ==
  ASSUME PoolInv, NEW c \in Calls, Release(c)
  PROVE  PoolInv'
<1>0. PoolTypeOK /\ PoolsNumbered /\ RunnersPlaced /\ HoldersFit /\ UpdateHolds
      /\ OneOpenPool /\ Counted /\ IdleIsTimed
  BY DEF PoolInv
<1> DEFINE p == call[c].pool
           r == call[c].runner
           q == Released(p, r)
           k == Ended(c, call[c].end)
<1>1. /\ call[c].pc = "release"
      /\ pool' = [pool EXCEPT ![p] = q] /\ call' = [call EXCEPT ![c] = k]
      /\ UNCHANGED <<code, owed, inMap, nextRunner, up, halted, stopping, reaping, mu, phase>>
  BY DEF Release
<1>2. /\ p \in DOMAIN pool /\ p \in 1..MaxPools /\ r \in 1..(nextRunner - 1) /\ r \in 1..MaxRunners
      /\ ~pool[p].closed => r \in pool[p].runners
  <2>1. /\ p \in DOMAIN pool /\ r \in 1..(nextRunner - 1)
        /\ ~pool[p].closed => r \in pool[p].runners
    BY <1>0, <1>1 DEF HoldersFit, InUse
  <2>2. nextRunner \in 1..(MaxRunners + 1) /\ MaxRunners \in Nat /\ DOMAIN pool \subseteq 1..MaxPools
    BY <1>0, PoolAssumption DEF PoolTypeOK
  <2> HIDE DEF p, r
  <2> QED
    BY <2>1, <2>2
<1>3. pool[p] \in PoolRecord /\ pool[p].busy \in [1..MaxRunners -> Nat] /\ pool[p].inflight \in Nat
  BY <1>0, <1>2 DEF PoolTypeOK, PoolRecord
<1>4. Inflight[p] \in Nat \ {0} /\ Busy[r] \in Nat \ {0}
  BY <1>1, <1>2, CountsFit DEF InUse
<1>5. pool[p].inflight = Inflight[p] /\ (~pool[p].closed => pool[p].busy[r] = Busy[r])
  BY <1>0, <1>2 DEF Counted
<1>6. /\ k \in CallRecord /\ k.pc \in {"resolved", "idle"} /\ (k.pc # "idle" => k.seen # 0)
  <2>1. call[c].end \in {"ok", "failed", "closed"}
    BY <1>0 DEF PoolTypeOK, CallRecord
  <2> QED
    BY <1>0, <1>1, <2>1, EndedFits
<1>7. /\ call' \in [Calls -> CallRecord] /\ call'[c] = k
      /\ \A d \in Calls \ {c} : call'[d] = call[d]
  BY <1>0, <1>1, <1>6 DEF PoolTypeOK
<1>8. /\ \A x \in 1..MaxPools : Inflight'[x] = IF x = p THEN Inflight[x] - 1 ELSE Inflight[x]
      /\ \A x \in 1..MaxRunners : Busy'[x] = IF x = r THEN Busy[x] - 1 ELSE Busy[x]
  <2>1. call \in [Calls -> CallRecord]
    BY <1>0 DEF PoolTypeOK
  <2> HIDE DEF k
  <2> QED
    BY <1>1, <1>6, <2>1, CallGives DEF InUse
<1>9. /\ q \in PoolRecord /\ q.inflight = pool[p].inflight - 1 /\ q.runners = pool[p].runners
      /\ q.closed = pool[p].closed
      /\ ~pool[p].closed => q.busy[r] = pool[p].busy[r] - 1
      /\ \A x \in 1..MaxRunners \ {r} : q.busy[x] = pool[p].busy[x]
      /\ ~pool[p].closed /\ q.inflight = 0 => q.timer = "armed"
  <2> DEFINE b == pool[p].busy
             nb == [b EXCEPT ![r] = IF @ > 0 THEN @ - 1 ELSE 0]
             nt == IF pool[p].inflight = 1 /\ ~pool[p].closed THEN "armed" ELSE pool[p].timer
             o == pool[p]
  <2>1. q = [o EXCEPT !.inflight = @ - 1, !.busy = nb, !.timer = nt]
    BY <1>3 DEF Released, PoolRecord
  <2>2. nb \in [1..MaxRunners -> Nat] /\ (b[r] # 0 => nb[r] = b[r] - 1)
        /\ \A x \in 1..MaxRunners \ {r} : nb[x] = b[x]
    <3>1. b \in [1..MaxRunners -> Nat]
      BY <1>3
    <3> HIDE DEF b, r
    <3> QED
      BY <1>2, <3>1
  <2>3. nt \in {"none", "armed", "fired"} /\ (pool[p].inflight = 1 /\ ~pool[p].closed => nt = "armed")
    BY <1>3 DEF PoolRecord
  <2>4. pool[p].inflight - 1 \in Nat /\ (pool[p].inflight - 1 = 0 => pool[p].inflight = 1)
    BY <1>4, <1>5
  <2>5. ~pool[p].closed => b[r] # 0
    BY <1>4, <1>5
  <2> HIDE DEF nb, nt, b, r, q
  <2>6. o \in PoolRecord
    BY <1>3
  <2>7. q \in PoolRecord /\ q.inflight = o.inflight - 1 /\ q.runners = o.runners
        /\ q.closed = o.closed /\ q.busy = nb /\ q.timer = nt
    <3>1. o.inflight - 1 \in Nat
      BY <2>4
    <3> HIDE DEF o
    <3> QED
      BY <2>1, <2>2, <2>3, <3>1, <2>6 DEF PoolRecord
  <2> QED
    BY <2>2, <2>3, <2>4, <2>5, <2>7 DEF b
<1> HIDE DEF q, k
<1>10. /\ DOMAIN pool' = DOMAIN pool /\ pool'[p] = q
       /\ \A x \in DOMAIN pool \ {p} : pool'[x] = pool[x]
  BY <1>1, <1>2
<1> HIDE DEF p, r
<1>11. \A x \in DOMAIN pool : pool'[x].runners = pool[x].runners /\ pool'[x].closed = pool[x].closed
  BY <1>9, <1>10
<1>12. PoolTypeOK'
  <2>1. \A x \in DOMAIN pool' : pool'[x] \in PoolRecord
    BY <1>0, <1>9, <1>10 DEF PoolTypeOK
  <2> QED
    BY <1>0, <1>1, <1>7, <1>10, <2>1 DEF PoolTypeOK
<1>13. PoolsNumbered'
  BY <1>0, <1>10 DEF PoolsNumbered
<1>14. Owned' = Owned
  BY <1>0, <1>1, <1>11 DEF Owned, PoolTypeOK
<1>15. RunnersPlaced'
  <2>1. \A x \in DOMAIN pool' :
          /\ pool'[x].runners \subseteq 1..(nextRunner - 1)
          /\ pool'[x].closed => pool'[x].runners = {}
    BY <1>0, <1>10, <1>11 DEF RunnersPlaced
  <2>2. \A x \in DOMAIN pool' : ~pool'[x].closed =>
               \A y \in 1..MaxRunners : y \notin pool'[x].runners => pool'[x].busy[y] = 0
    BY <1>0, <1>2, <1>9, <1>10, <1>11 DEF RunnersPlaced
  <2> QED
    BY <1>0, <1>1, <1>14, <2>1, <2>2 DEF RunnersPlaced
<1>16. HoldersFit'
  BY <1>0, <1>1, <1>6, <1>7, <1>10, <1>11 DEF HoldersFit, InUse
<1>17. UpdateHolds'
  BY <1>0, <1>1, <1>11 DEF UpdateHolds, PoolTypeOK
<1>18. OneOpenPool'
  BY <1>0, <1>1, <1>10, <1>11 DEF OneOpenPool
<1>19. Counted'
  <2>1. ASSUME NEW x \in DOMAIN pool' PROVE pool'[x].inflight = Inflight'[x]
    <3>1. x \in 1..MaxPools /\ x \in DOMAIN pool /\ pool[x].inflight = Inflight[x]
      BY <1>0, <1>10 DEF PoolTypeOK, Counted
    <3> QED
      BY <1>8, <1>9, <1>10, <3>1
  <2>2. ASSUME NEW x \in DOMAIN pool', ~pool'[x].closed, NEW y \in pool'[x].runners
        PROVE  pool'[x].busy[y] = Busy'[y]
    <3>1. y \in 1..MaxRunners /\ x \in DOMAIN pool /\ ~pool[x].closed /\ y \in pool[x].runners
      BY <1>0, <1>10, <1>11, <2>2 DEF PoolTypeOK, PoolRecord
    <3>2. pool[x].busy[y] = Busy[y]
      BY <1>0, <3>1 DEF Counted
    <3>3. y = r => x = p
      BY <1>0, <1>1, <3>1 DEF HoldersFit, InUse, p, r
    <3> QED
      BY <1>8, <1>9, <1>10, <3>1, <3>2, <3>3
  <2> QED
    BY <2>1, <2>2 DEF Counted
<1>20. IdleIsTimed'
  BY <1>0, <1>9, <1>10 DEF IdleIsTimed
<1> QED
  BY <1>12, <1>13, <1>15, <1>16, <1>17, <1>18, <1>19, <1>20 DEF PoolInv

\* The steps of the scale-to-zero timer.
LEMMA TimerStep ==
  ASSUME PoolInv, NEW p \in DOMAIN pool, TimerFires(p) \/ ReapIdle(p)
  PROVE  PoolInv'
<1>0. PoolTypeOK /\ PoolsNumbered /\ RunnersPlaced /\ HoldersFit /\ UpdateHolds
      /\ OneOpenPool /\ Counted /\ IdleIsTimed
  BY DEF PoolInv
<1>1. pool[p] \in PoolRecord /\ DOMAIN pool \subseteq 1..MaxPools
  BY <1>0 DEF PoolTypeOK
<1>2. UNCHANGED <<code, owed, inMap, nextRunner, up, halted, stopping, mu, call, phase>>
  BY DEF TimerFires, ReapIdle
<1>3. Inflight' = Inflight /\ Busy' = Busy
  BY <1>2 DEF Inflight, Busy, Holds, HoldsRunner
\* A step that leaves the runners alone.
<1>4. ASSUME NEW q \in PoolRecord, pool' = [pool EXCEPT ![p] = q], UNCHANGED reaping,
             q.runners = pool[p].runners, q.closed = pool[p].closed, q.busy = pool[p].busy,
             q.inflight = pool[p].inflight,
             \/ q.timer = "armed" \/ q.callbacks > 0
             \/ q.closed \/ q.inflight # 0
      PROVE  PoolInv'
  <2>1. /\ DOMAIN pool' = DOMAIN pool /\ pool'[p] = q
        /\ \A x \in DOMAIN pool \ {p} : pool'[x] = pool[x]
    BY <1>4
  <2>2. \A x \in DOMAIN pool : /\ pool'[x].runners = pool[x].runners /\ pool'[x].closed = pool[x].closed
                               /\ pool'[x].busy = pool[x].busy /\ pool'[x].inflight = pool[x].inflight
    BY <1>4, <2>1
  <2>3. PoolTypeOK'
    <3>1. \A x \in DOMAIN pool' : pool'[x] \in PoolRecord
      BY <1>0, <2>1 DEF PoolTypeOK
    <3> QED
      BY <1>0, <1>2, <1>4, <2>1, <3>1 DEF PoolTypeOK
  <2>4. PoolsNumbered' /\ UpdateHolds' /\ OneOpenPool'
    BY <1>0, <1>2, <2>1, <2>2 DEF PoolsNumbered, UpdateHolds, OneOpenPool, PoolTypeOK
  <2>5. Owned' = Owned
    BY <1>0, <1>2, <2>2 DEF Owned, PoolTypeOK
  <2>6. RunnersPlaced'
    BY <1>0, <1>2, <1>4, <2>1, <2>2, <2>5 DEF RunnersPlaced
  <2>7. HoldersFit'
    BY <1>0, <1>2, <1>4, <2>1, <2>2 DEF HoldersFit
  <2>8. Counted'
    BY <1>0, <1>3, <2>1, <2>2 DEF Counted
  <2>9. IdleIsTimed'
    BY <1>0, <1>4, <2>1 DEF IdleIsTimed
  <2> QED
    BY <2>3, <2>4, <2>6, <2>7, <2>8, <2>9 DEF PoolInv
<1>5. CASE TimerFires(p)
  <2>1. UNCHANGED reaping /\ pool[p].callbacks \in Nat /\ pool[p].strays \in Nat
    BY <1>1, <1>5 DEF TimerFires, PoolRecord
  <2>2. CASE /\ pool[p].timer = "armed"
             /\ pool' = [pool EXCEPT ![p].timer = "fired", ![p].callbacks = @ + 1]
    <3> DEFINE q == [pool[p] EXCEPT !.timer = "fired", !.callbacks = @ + 1]
    <3>1. q \in PoolRecord /\ q.callbacks > 0
          /\ q.runners = pool[p].runners /\ q.closed = pool[p].closed /\ q.busy = pool[p].busy
          /\ q.inflight = pool[p].inflight
      <4>1. pool[p].callbacks + 1 \in Nat /\ pool[p].callbacks + 1 > 0
        BY <2>1
      <4>2. q \in PoolRecord /\ q.callbacks = pool[p].callbacks + 1
        BY <1>1, <4>1 DEF PoolRecord
      <4>3. q.runners = pool[p].runners /\ q.closed = pool[p].closed /\ q.busy = pool[p].busy
            /\ q.inflight = pool[p].inflight
        BY <1>1 DEF PoolRecord
      <4> QED
        BY <4>1, <4>2, <4>3
    <3>2. pool' = [pool EXCEPT ![p] = q]
      BY <2>2
    <3> HIDE DEF q
    <3> QED
      BY <1>4, <2>1, <3>1, <3>2
  <2>3. CASE /\ pool[p].strays > 0
             /\ pool' = [pool EXCEPT ![p].strays = @ - 1, ![p].callbacks = @ + 1]
    <3> DEFINE q == [pool[p] EXCEPT !.strays = @ - 1, !.callbacks = @ + 1]
    <3>0. pool[p].strays - 1 \in Nat
      BY <2>1, <2>3
    <3>1. q \in PoolRecord /\ q.callbacks > 0
          /\ q.runners = pool[p].runners /\ q.closed = pool[p].closed /\ q.busy = pool[p].busy
          /\ q.inflight = pool[p].inflight
      <4>1. pool[p].callbacks + 1 \in Nat /\ pool[p].callbacks + 1 > 0
        BY <2>1
      <4>2. q \in PoolRecord /\ q.callbacks = pool[p].callbacks + 1
        BY <1>1, <3>0, <4>1 DEF PoolRecord
      <4>3. q.runners = pool[p].runners /\ q.closed = pool[p].closed /\ q.busy = pool[p].busy
            /\ q.inflight = pool[p].inflight
        BY <1>1 DEF PoolRecord
      <4> QED
        BY <4>1, <4>2, <4>3
    <3>2. pool' = [pool EXCEPT ![p] = q]
      BY <2>3
    <3> HIDE DEF q
    <3> QED
      BY <1>4, <2>1, <3>1, <3>2
  <2> QED
    BY <1>5, <2>2, <2>3 DEF TimerFires
<1>6. CASE ReapIdle(p)
  <2> DEFINE o == [pool[p] EXCEPT !.callbacks = @ - 1]
  <2>1. /\ o \in PoolRecord /\ o.runners = pool[p].runners /\ o.closed = pool[p].closed
        /\ o.busy = pool[p].busy /\ o.inflight = pool[p].inflight /\ o.strays = pool[p].strays
        /\ o.timer = pool[p].timer
    <3>1. pool[p].callbacks - 1 \in Nat
      BY <1>1, <1>6 DEF ReapIdle, PoolRecord
    <3> QED
      BY <1>1, <3>1 DEF PoolRecord
  <2>2. CASE ~MayReap(p)
    <3>1. pool' = [pool EXCEPT ![p] = o] /\ UNCHANGED reaping
      BY <1>6, <2>2 DEF ReapIdle
    <3>2. o.closed \/ o.inflight # 0
      BY <2>1, <2>2 DEF MayReap
    <3> HIDE DEF o
    <3> QED
      BY <1>4, <2>1, <3>1, <3>2
  <2>3. CASE MayReap(p)
    <3> DEFINE z == [r \in 1..MaxRunners |-> 0]
               st == o.strays + (IF o.timer = "armed" THEN 1 ELSE 0)
               q == [o EXCEPT !.runners = {}, !.busy = z, !.timer = "none", !.strays = st]
    <3>1. /\ ~pool[p].closed /\ pool[p].inflight = 0
          /\ pool' = [pool EXCEPT ![p] = q] /\ reaping' = reaping \cup pool[p].runners
      <4>1. /\ pool' = [pool EXCEPT ![p] =
                 [o EXCEPT !.runners = {}, !.busy = z,
                           !.timer = "none",
                           !.strays = @ + (IF o.timer = "armed" THEN 1 ELSE 0)]]
            /\ reaping' = reaping \cup o.runners
        BY <1>6, <2>3 DEF ReapIdle
      <4>2. ~pool[p].closed /\ pool[p].inflight = 0
        BY <2>3 DEF MayReap
      <4> QED
        BY <2>1, <4>1, <4>2
    <3>2. z \in [1..MaxRunners -> Nat] /\ st \in Nat /\ \A r \in 1..MaxRunners : z[r] = 0
      BY <1>1, <2>1 DEF PoolRecord
    <3> HIDE DEF z, st, o
    <3>3. q \in PoolRecord /\ q.runners = {} /\ q.closed = pool[p].closed /\ q.busy = z
          /\ q.inflight = pool[p].inflight
      BY <2>1, <3>2 DEF PoolRecord
    <3> HIDE DEF q
    <3>4. /\ DOMAIN pool' = DOMAIN pool /\ pool'[p] = q
          /\ \A x \in DOMAIN pool \ {p} : pool'[x] = pool[x]
      BY <3>1
    <3>5. p = inMap /\ inMap # NoPool
      BY <1>0, <1>1, <3>1 DEF OneOpenPool, NoPool
    <3>6. \A x \in DOMAIN pool \ {p} : pool[x].closed /\ pool[x].runners = {}
      BY <1>0, <3>5 DEF OneOpenPool, RunnersPlaced
    <3>7. Owned = pool[p].runners /\ Owned' = {}
      BY <1>2, <3>3, <3>4, <3>5 DEF Owned
    <3>8. PoolTypeOK'
      <4>1. \A x \in DOMAIN pool' : pool'[x] \in PoolRecord
        BY <1>0, <3>3, <3>4 DEF PoolTypeOK
      <4>2. up' \cup halted' \cup stopping' \cup reaping' \subseteq 1..(nextRunner' - 1)
        BY <1>0, <1>2, <3>1 DEF PoolTypeOK, RunnersPlaced
      <4> QED
        BY <1>0, <1>2, <3>4, <4>1, <4>2 DEF PoolTypeOK
    <3>9. PoolsNumbered' /\ UpdateHolds' /\ OneOpenPool'
      <4>1. PoolsNumbered'
        BY <1>0, <3>4 DEF PoolsNumbered
      <4>2. UpdateHolds'
        BY <1>0, <1>2, <3>3, <3>4, <3>5 DEF UpdateHolds
      <4>3. OneOpenPool'
        BY <1>2, <3>4, <3>5, <3>6 DEF OneOpenPool
      <4> QED
        BY <4>1, <4>2, <4>3
    <3>10. RunnersPlaced'
      <4>1. \A x \in DOMAIN pool' :
              /\ pool'[x].runners \subseteq 1..(nextRunner - 1)
              /\ pool'[x].closed => pool'[x].runners = {}
              /\ ~pool'[x].closed =>
                   \A y \in 1..MaxRunners : y \notin pool'[x].runners => pool'[x].busy[y] = 0
        BY <1>0, <3>2, <3>3, <3>4, <3>6
      <4>2. 1..(nextRunner - 1) \subseteq stopping \cup reaping' \cup halted
        BY <1>0, <3>1, <3>7 DEF RunnersPlaced
      <4> QED
        BY <1>0, <1>2, <3>7, <4>1, <4>2 DEF RunnersPlaced
    <3>11. HoldersFit'
      <4>1. ASSUME NEW d \in Calls, call[d].pc \in InUse
            PROVE  call[d].pool # p /\ call[d].runner \notin reaping'
        <5>1. call[d].pool # p
          <6>1. Inflight[p] = 0 /\ p \in 1..MaxPools
            BY <1>0, <1>1, <3>1 DEF Counted
          <6> QED
            BY <4>1, <6>1, CountsFit
        <5>2. call[d].runner \notin pool[p].runners
          BY <1>0, <4>1, <5>1 DEF HoldersFit
        <5>3. call[d].runner \notin reaping
          BY <1>0, <4>1 DEF HoldersFit
        <5> QED
          BY <3>1, <5>1, <5>2, <5>3
      <4>2. ASSUME NEW d \in Calls, call[d].pc \in InUse
            PROVE  /\ call[d].pool \in DOMAIN pool'
                   /\ call[d].runner \in 1..(nextRunner - 1)
                   /\ ~pool'[call[d].pool].closed => call[d].runner \in pool'[call[d].pool].runners
                   /\ \A x \in DOMAIN pool' : call[d].runner \in pool'[x].runners => call[d].pool = x
        BY <1>0, <3>3, <3>4, <4>1, <4>2 DEF HoldersFit
      <4>3. \A d \in Calls : call[d].pc # "idle" => call[d].seen # 0
        BY <1>0 DEF HoldersFit
      <4> QED
        BY <1>2, <4>1, <4>2, <4>3 DEF HoldersFit
    <3>12. Counted'
      BY <1>0, <1>3, <3>3, <3>4 DEF Counted
    <3>13. IdleIsTimed'
      BY <1>0, <3>3, <3>4 DEF IdleIsTimed
    <3> QED
      BY <3>8, <3>9, <3>10, <3>11, <3>12, <3>13 DEF PoolInv
  <2> QED
    BY <2>2, <2>3
<1> QED
  BY <1>5, <1>6

\* A process ends, a runner is stopped, an update is stored.
LEMMA SmallSteps ==
  ASSUME PoolInv,
         \/ \E r \in up : ProcessExit(r)
         \/ \E r \in stopping \cup reaping : StopRunner(r)
         \/ Update
         \/ CloseStopped
         \/ Close("waiting", "cancelled", Pollers)
         \/ Close("cancelled", "closed", Asyncs)
  PROVE  PoolInv'
<1>0. PoolTypeOK /\ PoolsNumbered /\ RunnersPlaced /\ HoldersFit /\ UpdateHolds
      /\ OneOpenPool /\ Counted /\ IdleIsTimed
  BY DEF PoolInv
<1>1. UNCHANGED <<inMap, pool, nextRunner, call>>
  BY DEF ProcessExit, StopRunner, Update, CloseStopped, Close
<1>2. Inflight' = Inflight /\ Busy' = Busy /\ Owned' = Owned
  BY <1>1 DEF Inflight, Busy, Holds, HoldsRunner, Owned
<1>3. PoolsNumbered' /\ OneOpenPool' /\ Counted' /\ IdleIsTimed'
  BY <1>0, <1>1, <1>2 DEF PoolsNumbered, OneOpenPool, Counted, IdleIsTimed
<1>4. /\ code' \in 0..MaxVersion /\ owed' \in Nat /\ mu' \in {"free", "update", "close"}
      /\ phase' \in {"open", "stopping", "waiting", "cancelled", "closed"}
      /\ mu' = "update" => owed' > 0 /\ mu = "update"
  <2>1. CASE Update
    <3>1. owed \in Nat /\ owed + 1 \in Nat /\ owed + 1 > 0
      BY <1>0 DEF PoolTypeOK
    <3> QED
      BY <1>0, <2>1, <3>1, PoolAssumption DEF PoolTypeOK, Update, Gone
  <2>2. CASE ~Update
    BY <1>0, <2>2 DEF PoolTypeOK, Phases, UpdateHolds, ProcessExit, StopRunner, CloseStopped, Close
  <2> QED
    BY <2>1, <2>2
<1>5. /\ stopping' \subseteq stopping /\ reaping' \subseteq reaping
      /\ up' \subseteq up
      /\ halted \subseteq halted' /\ halted' \subseteq halted \cup stopping \cup reaping
      /\ up' \cap halted' = {}
      /\ stopping \cup reaping \cup halted \subseteq stopping' \cup reaping' \cup halted'
  <2>1. CASE \E r \in up : ProcessExit(r)
    BY <1>0, <2>1 DEF ProcessExit, RunnersPlaced
  <2>2. CASE \E r \in stopping \cup reaping : StopRunner(r)
    BY <1>0, <2>2 DEF StopRunner, RunnersPlaced
  <2>3. CASE UNCHANGED <<up, halted, stopping, reaping>>
    BY <1>0, <2>3 DEF RunnersPlaced
  <2> QED
    BY <2>1, <2>2, <2>3 DEF Update, CloseStopped, Close
<1>6. PoolTypeOK'
  <2>1. up' \cup halted' \cup stopping' \cup reaping' \subseteq 1..(nextRunner' - 1)
    BY <1>0, <1>1, <1>5 DEF PoolTypeOK
  <2> QED
    BY <1>0, <1>1, <1>4, <2>1 DEF PoolTypeOK, Phases
<1>7. RunnersPlaced'
  <2>1. Owned' \cap (stopping' \cup reaping' \cup halted') = {}
    BY <1>0, <1>2, <1>5 DEF RunnersPlaced
  <2>2. 1..(nextRunner' - 1) \subseteq Owned' \cup stopping' \cup reaping' \cup halted'
    BY <1>0, <1>1, <1>2, <1>5 DEF RunnersPlaced
  <2> QED
    BY <1>0, <1>1, <1>5, <2>1, <2>2 DEF RunnersPlaced
<1>8. HoldersFit'
  BY <1>0, <1>1, <1>5 DEF HoldersFit
<1>9. UpdateHolds'
  BY <1>0, <1>1, <1>4 DEF UpdateHolds
<1> QED
  BY <1>3, <1>6, <1>7, <1>8, <1>9 DEF PoolInv

\* Pool.Stop, for an update and for Close, and the end of an update.
LEMMA StopSteps ==
  ASSUME PoolInv, RestartBegins \/ RestartEnds \/ CloseBegins
  PROVE  PoolInv'
<1>0. PoolTypeOK /\ PoolsNumbered /\ RunnersPlaced /\ HoldersFit /\ UpdateHolds
      /\ OneOpenPool /\ Counted /\ IdleIsTimed
  BY DEF PoolInv
<1>1. UNCHANGED <<code, nextRunner, up, halted, reaping, call>>
  BY DEF RestartBegins, RestartEnds, CloseBegins
<1>2. Inflight' = Inflight /\ Busy' = Busy
  BY <1>1 DEF Inflight, Busy, Holds, HoldsRunner
<1>3. CASE RestartBegins \/ CloseBegins
  <2>1. /\ UNCHANGED <<owed, inMap>> /\ mu' \in {"update", "close"} /\ (mu' = "update" => owed > 0)
        /\ phase' \in {"open", "stopping", "waiting", "cancelled", "closed"}
        /\ pool' = [p \in DOMAIN pool |-> IF p = inMap THEN Stopped(p) ELSE pool[p]]
        /\ stopping' = stopping \cup Owned
    BY <1>0, <1>3 DEF RestartBegins, CloseBegins, StopPool, Owned, PoolTypeOK, Phases
  <2>2. \A p \in DOMAIN pool :
          /\ Stopped(p) \in PoolRecord /\ Stopped(p).closed /\ Stopped(p).runners = {}
          /\ Stopped(p).inflight = pool[p].inflight
    BY <1>0 DEF PoolTypeOK, PoolRecord, Stopped
  <2>3. /\ DOMAIN pool' = DOMAIN pool
        /\ \A p \in DOMAIN pool' :
             /\ pool'[p] \in PoolRecord /\ pool'[p].closed /\ pool'[p].runners = {}
             /\ pool'[p].inflight = pool[p].inflight
    <3>1. \A p \in DOMAIN pool : p # inMap => pool[p].closed /\ pool[p].runners = {}
      BY <1>0 DEF OneOpenPool, RunnersPlaced
    <3> QED
      BY <1>0, <2>1, <2>2, <3>1 DEF PoolTypeOK
  <2>4. Owned' = {}
    BY <1>0, <2>1, <2>3 DEF Owned, PoolTypeOK
  <2>5. PoolTypeOK'
    <3>1. Owned \subseteq 1..(nextRunner - 1)
      BY <1>0 DEF Owned, RunnersPlaced, PoolTypeOK
    <3>2. up' \cup halted' \cup stopping' \cup reaping' \subseteq 1..(nextRunner' - 1)
      BY <1>0, <1>1, <2>1, <3>1 DEF PoolTypeOK
    <3> QED
      BY <1>0, <1>1, <2>1, <2>3, <3>2 DEF PoolTypeOK, Phases
  <2>6. PoolsNumbered' /\ OneOpenPool' /\ IdleIsTimed'
    BY <1>0, <2>3 DEF PoolsNumbered, OneOpenPool, IdleIsTimed
  <2>7. RunnersPlaced'
    <3>1. 1..(nextRunner' - 1) \subseteq stopping' \cup reaping' \cup halted'
      BY <1>0, <1>1, <2>1 DEF RunnersPlaced
    <3> QED
      BY <1>0, <1>1, <2>3, <2>4, <3>1 DEF RunnersPlaced
  <2>8. HoldersFit'
    BY <1>0, <1>1, <2>3 DEF HoldersFit
  <2>9. UpdateHolds'
    BY <1>0, <2>1, <2>3 DEF UpdateHolds, PoolTypeOK
  <2>10. Counted'
    BY <1>0, <1>2, <2>3 DEF Counted
  <2> QED
    BY <2>5, <2>6, <2>7, <2>8, <2>9, <2>10 DEF PoolInv
<1>4. CASE RestartEnds
  <2>1. /\ mu = "update" /\ mu' = "free" /\ inMap' = NoPool /\ owed' = owed - 1
        /\ UNCHANGED <<pool, stopping, phase>>
    BY <1>4 DEF RestartEnds
  <2>2. owed' \in Nat /\ (inMap # NoPool => pool[inMap].closed)
    BY <1>0, <2>1 DEF UpdateHolds, PoolTypeOK
  <2>3. Owned = {} /\ Owned' = {}
    BY <1>0, <2>1, <2>2 DEF Owned, RunnersPlaced, PoolTypeOK
  <2>4. PoolTypeOK'
    BY <1>0, <1>1, <2>1, <2>2 DEF PoolTypeOK
  <2>5. PoolsNumbered' /\ OneOpenPool' /\ IdleIsTimed' /\ UpdateHolds'
    BY <1>0, <2>1, <2>2 DEF PoolsNumbered, OneOpenPool, IdleIsTimed, UpdateHolds
  <2>6. RunnersPlaced'
    BY <1>0, <1>1, <2>1, <2>3 DEF RunnersPlaced
  <2>7. HoldersFit'
    BY <1>0, <1>1, <2>1 DEF HoldersFit
  <2>8. Counted'
    BY <1>0, <1>2, <2>1 DEF Counted
  <2> QED
    BY <2>4, <2>5, <2>6, <2>7, <2>8 DEF PoolInv
<1> QED
  BY <1>3, <1>4

\* Every step of the callers, the updates and the timers keeps the pools
\* counted.
LEMMA PoolStep == PoolInv /\ [PoolNext]_poolVars => PoolInv'
<1> SUFFICES ASSUME PoolInv, [PoolNext]_poolVars PROVE PoolInv'
  OBVIOUS
<1>1. CASE UNCHANGED poolVars
  <2>1. UNCHANGED <<Inflight, Busy, Owned>>
    BY <1>1 DEF poolVars, Inflight, Busy, Owned, Holds, HoldsRunner
  <2> QED
    BY <1>1, <2>1 DEF poolVars, PoolInv, PoolTypeOK, PoolsNumbered, RunnersPlaced,
                      HoldersFit, UpdateHolds, OneOpenPool, Counted, IdleIsTimed
<1>2. ASSUME NEW c \in Calls, Resolve(c) \/ Invocation(c) PROVE PoolInv'
  BY <1>2, QuietSteps, RunnerForStep, AcquireStep, ReleaseStep DEF Invocation
<1>3. ASSUME NEW p \in DOMAIN pool, TimerFires(p) \/ ReapIdle(p) PROVE PoolInv'
  BY <1>3, TimerStep
<1>4. CASE CloseSteps
  BY <1>4, SmallSteps, StopSteps DEF CloseSteps
<1> QED
  BY <1>1, <1>2, <1>3, <1>4, SmallSteps, StopSteps DEF PoolNext

\* Close holds s.mu while it stops the pools.
CloseHolds == phase = "stopping" <=> mu = "close"

\* Nothing opens a pool once Close has begun, but for runnerFor while Close
\* waits for the pollers.
LEMMA ClosedStep ==
  PoolInv /\ CloseHolds /\ ClosedForGood /\ [PoolNext]_poolVars => CloseHolds' /\ ClosedForGood'
<1> SUFFICES ASSUME PoolInv, CloseHolds, ClosedForGood, [PoolNext]_poolVars
             PROVE  CloseHolds' /\ ClosedForGood'
  OBVIOUS
<1>0. PoolTypeOK /\ OneOpenPool /\ PoolsNumbered
  BY DEF PoolInv
<1>1. \A p \in DOMAIN pool : pool[p] \in PoolRecord
  BY <1>0 DEF PoolTypeOK
<1>2. ASSUME UNCHANGED <<phase, mu>>, DOMAIN pool' = DOMAIN pool,
             \A p \in DOMAIN pool : pool'[p].closed = pool[p].closed /\ pool'[p].made = pool[p].made
      PROVE  CloseHolds' /\ ClosedForGood'
  BY <1>2 DEF CloseHolds, ClosedForGood
<1>3. CASE UNCHANGED poolVars
  BY <1>2, <1>3 DEF poolVars
<1>4. ASSUME NEW c \in Calls, RunnerFor(c) PROVE CloseHolds' /\ ClosedForGood'
  <2> DEFINE new == Cardinality(DOMAIN pool) + 1
  <2>1. UNCHANGED <<phase, mu>> /\ mu = "free"
    BY <1>4 DEF RunnerFor
  <2>2. CASE UNCHANGED pool
    BY <1>2, <2>1, <2>2
  <2>3. CASE /\ ~ShutDown
             /\ pool' = [p \in DOMAIN pool \cup {new} |->
                          IF p = new THEN NewPool(call[c].seen) ELSE pool[p]]
    <3>1. CloseHolds'
      BY <2>1 DEF CloseHolds
    <3>2. phase \in {"open", "waiting"}
      BY <1>0, <2>1, <2>3 DEF CloseHolds, ShutDown, PoolTypeOK, Phases
    <3>3. NewPool(call[c].seen).made = phase
      BY DEF NewPool
    <3> HIDE DEF new
    <3>4. \A p \in DOMAIN pool' :
            pool'[p] = IF p = new THEN NewPool(call[c].seen) ELSE pool[p]
      BY <2>3
    <3>5. DOMAIN pool' = DOMAIN pool \cup {new}
      BY <2>3
    <3>6. ClosedForGood'
      BY <2>1, <3>2, <3>3, <3>4, <3>5 DEF ClosedForGood
    <3> QED
      BY <3>1, <3>6
  <2> QED
    BY <1>4, <2>2, <2>3 DEF RunnerFor
<1>5. ASSUME NEW c \in Calls, Acquire(c) PROVE CloseHolds' /\ ClosedForGood'
  <2>1. call[c].pool \in DOMAIN pool
    BY <1>5 DEF Acquire, IsClosed
  <2> QED
    BY <1>1, <1>2, <1>5, <2>1 DEF Acquire, PoolRecord
<1>6. ASSUME NEW c \in Calls, Release(c) PROVE CloseHolds' /\ ClosedForGood'
  <2>1. \A p \in DOMAIN pool : \A r : /\ Released(p, r).closed = pool[p].closed
                                     /\ Released(p, r).made = pool[p].made
    BY <1>1 DEF Released, PoolRecord
  <2>2. /\ pool' = [pool EXCEPT ![call[c].pool] = Released(call[c].pool, call[c].runner)]
        /\ UNCHANGED <<phase, mu>>
    BY <1>6 DEF Release
  <2> QED
    BY <1>2, <2>1, <2>2
<1>7. ASSUME NEW c \in Calls, Resolve(c) \/ Refused(c) \/ Start(c) \/ \E e \in {"ok", "failed"} : Finish(c, e)
      PROVE  CloseHolds' /\ ClosedForGood'
  <2>1. UNCHANGED <<pool, phase, mu>>
    BY <1>7 DEF Resolve, Refused, Start, Finish
  <2> QED
    BY <1>2, <2>1
<1>8. ASSUME NEW p \in DOMAIN pool, TimerFires(p) \/ ReapIdle(p)
      PROVE  CloseHolds' /\ ClosedForGood'
  <2>1. PICK q : /\ pool' = [pool EXCEPT ![p] = q]
                 /\ q.closed = pool[p].closed /\ q.made = pool[p].made
    <3>1. CASE TimerFires(p)
      BY <1>1, <3>1 DEF TimerFires, PoolRecord
    <3>2. CASE ReapIdle(p)
      <4> DEFINE o == [pool[p] EXCEPT !.callbacks = @ - 1]
      <4>2. o.closed = pool[p].closed /\ o.made = pool[p].made
        BY <1>1 DEF PoolRecord
      <4> QED
        BY <1>1, <3>2, <4>2 DEF ReapIdle, PoolRecord
    <3> QED
      BY <1>8, <3>1, <3>2
  <2>2. UNCHANGED <<phase, mu>>
    BY <1>8 DEF TimerFires, ReapIdle
  <2> QED
    BY <1>2, <2>1, <2>2
<1>9. CASE (\E r \in up : ProcessExit(r)) \/ (\E r \in stopping \cup reaping : StopRunner(r)) \/ Update
  <2>1. UNCHANGED <<pool, phase, mu>>
    BY <1>9 DEF ProcessExit, StopRunner, Update
  <2> QED
    BY <1>2, <2>1
<1>10. CASE RestartBegins \/ CloseBegins
  <2>1. /\ pool' = [p \in DOMAIN pool |-> IF p = inMap THEN Stopped(p) ELSE pool[p]]
        /\ mu = "free"
        /\ (mu' = "update" /\ phase' = phase) \/ (mu' = "close" /\ phase' = "stopping")
    BY <1>10 DEF RestartBegins, CloseBegins, StopPool
  <2>2. \A p \in DOMAIN pool : Stopped(p).closed
    BY <1>1 DEF Stopped, PoolRecord
  <2>3. DOMAIN pool' = DOMAIN pool /\ \A p \in DOMAIN pool : pool'[p].closed
    BY <1>0, <2>1, <2>2 DEF OneOpenPool
  <2> QED
    BY <2>1, <2>3 DEF CloseHolds, ClosedForGood
<1>11. CASE RestartEnds
  <2>1. UNCHANGED <<pool, phase>> /\ mu = "update" /\ mu' = "free"
    BY <1>11 DEF RestartEnds
  <2> QED
    BY <2>1 DEF CloseHolds, ClosedForGood
<1>12. CASE CloseStopped \/ Close("waiting", "cancelled", Pollers) \/ Close("cancelled", "closed", Asyncs)
  <2>1. UNCHANGED pool /\ phase # "open" /\ phase' # "stopping" /\ mu' # "close"
    BY <1>12 DEF CloseStopped, Close, CloseHolds
  <2> QED
    BY <2>1 DEF CloseHolds, ClosedForGood
<1> QED
  BY <1>3, <1>4, <1>5, <1>6, <1>7, <1>8, <1>9, <1>10, <1>11, <1>12
     DEF PoolNext, Invocation, CloseSteps

\* What the counts of the inductive invariant say about the properties.
LEMMA PoolInvGives == PoolInv => ScaleToZero /\ ProcessesAccounted /\ OneOpenPool
<1> SUFFICES ASSUME PoolInv PROVE ScaleToZero /\ ProcessesAccounted /\ OneOpenPool
  OBVIOUS
<1>0. PoolTypeOK /\ RunnersPlaced /\ HoldersFit /\ OneOpenPool /\ Counted /\ IdleIsTimed
  BY DEF PoolInv
<1>1. CountersExact
  <2>1. ASSUME NEW p \in DOMAIN pool
        PROVE  pool[p].inflight = Cardinality({c \in Calls : Holds(c, p)})
    <3>1. p \in 1..MaxPools /\ pool[p].inflight = Inflight[p]
      BY <1>0 DEF PoolTypeOK, Counted
    <3> QED
      BY <3>1 DEF Inflight
  <2>2. ASSUME NEW p \in DOMAIN pool, ~pool[p].closed, NEW r \in pool[p].runners
        PROVE  pool[p].busy[r] = Cardinality({c \in Calls : HoldsRunner(c, r)})
    <3>1. r \in 1..MaxRunners /\ pool[p].busy[r] = Busy[r]
      BY <1>0, <2>2 DEF PoolTypeOK, PoolRecord, Counted
    <3> QED
      BY <3>1 DEF Busy
  <2> QED
    BY <2>1, <2>2 DEF CountersExact
<1>2. NeverReapsBusy
  <2> SUFFICES ASSUME NEW c \in Calls, call[c].pc \in {"start", "running"}
               PROVE  /\ call[c].runner \notin reaping
                      /\ pool[call[c].pool].closed \/ call[c].runner \notin halted
    BY DEF NeverReapsBusy
  <2>1. /\ call[c].pool \in DOMAIN pool /\ call[c].runner \notin reaping
        /\ ~pool[call[c].pool].closed => call[c].runner \in pool[call[c].pool].runners
    BY <1>0 DEF HoldersFit, InUse
  <2>2. ASSUME ~pool[call[c].pool].closed PROVE call[c].runner \in Owned
    <3>1. call[c].pool = inMap /\ inMap # NoPool
      BY <1>0, <2>1, <2>2 DEF OneOpenPool, PoolTypeOK, NoPool
    <3> QED
      BY <2>1, <2>2, <3>1 DEF Owned
  <2> QED
    BY <1>0, <2>1, <2>2 DEF RunnersPlaced
<1>3. ProcessesAccounted
  <2>1. \A r \in up : r \in Owned \cup stopping \cup reaping
    BY <1>0 DEF PoolTypeOK, RunnersPlaced
  <2> QED
    BY <2>1 DEF ProcessesAccounted, Owned
<1> QED
  BY <1>0, <1>1, <1>2, <1>3 DEF ScaleToZero

\* PoolTypeOK for every number of pollers and asynchronous invocations.
THEOREM PoolTyped == PoolSpec => []PoolTypeOK
<1>1. PoolInv => PoolTypeOK
  BY DEF PoolInv
<1> QED
  BY <1>1, PoolInitInv, PoolStep, PTL DEF PoolSpec

\* ScaleToZero for every number of callers, pools and runners: the counters of
\* the pool (lambdaruntime/pool.go) are exact, no busy runner is reaped, and an idle
\* process always has a timer that ends it.
THEOREM ScalesToZero == PoolSpec => []ScaleToZero
<1>1. PoolInv => ScaleToZero
  BY PoolInvGives
<1> QED
  BY <1>1, PoolInitInv, PoolStep, PTL DEF PoolSpec

\* PoolAccounted for every number of callers, pools and runners: a process that
\* runs belongs to the open pool or to someone who will end it, also when the
\* function is updated under its invocations, and after Close has begun a pool
\* is open only if runnerFor made it while Close waited for the pollers.
THEOREM NoStrayProcess == PoolSpec => []PoolAccounted
<1>1. PoolInv /\ ClosedForGood => PoolAccounted
  BY PoolInvGives DEF PoolAccounted
<1>2. PoolInit => CloseHolds /\ ClosedForGood
  BY DEF PoolInit, CloseHolds, ClosedForGood
<1> QED
  BY <1>1, <1>2, PoolInitInv, PoolStep, ClosedStep, PTL DEF PoolSpec

=============================================================================
