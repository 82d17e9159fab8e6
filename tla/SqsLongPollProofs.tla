------------------------- MODULE SqsLongPollProofs --------------------------
(***************************************************************************)
(* Proofs about long polling: the receivers and the notifier on top of the *)
(* store, for every number of receivers, queues, messages and waits.       *)
(***************************************************************************)
EXTENDS SqsLongPoll, SqsStoreSafety, WellFoundedInduction

-----------------------------------------------------------------------------
(* The receivers, their channels and the store.                            *)

\* A set of natural numbers that is not empty has a least one.
LEMMA LeastNat ==
  ASSUME NEW S \in SUBSET Nat, S # {}
  PROVE  \E x \in S : \A y \in S : x <= y
<1> DEFINE R == {ss \in Nat \X Nat : ss[1] < ss[2]}
<1>1. OpToRel(<, Nat) = R
  BY Zenon DEF OpToRel
<1>2. IsWellFoundedOn(R, Nat)
  BY <1>1, NatLessThanWellFounded, Zenon
<1>3. \A x, y \in Nat : y < x => <<y, x>> \in R
  OBVIOUS
<1>4. PICK x \in S : \A y \in S : ~(<<y, x>> \in R)
  BY <1>2, WFMin
<1> HIDE DEF R
<1>5. ASSUME NEW y \in S PROVE x <= y
  <2>1. ~(<<y, x>> \in R)
    BY <1>4
  <2>2. x \in Nat /\ y \in Nat /\ ~(y < x)
    BY <1>3, <2>1
  <2> QED
    BY <2>2
<1> QED
  BY <1>5

\* Min of a set of times is the earliest of them: the timer of a long poll.
LEMMA MinFacts ==
  ASSUME NEW S \in SUBSET Nat, S # {}
  PROVE  Min(S) \in S /\ \A y \in S : Min(S) <= y
<1>1. \E x \in S : \A y \in S : x <= y
  BY LeastNat
<1> QED
  BY <1>1 DEF Min

\* A call under way names a queue.
QueueNamed == \A r \in Receiver : call[r].pc # "idle" => call[r].queue \in Queue

\* A channel left behind by a queue that has gone has somebody who will remove
\* it: a deletion that has not come to its forget, or the receiver that made it.
Stranded ==
  \A q \in chans \ live :
    \/ forgets[q] > 0
    \/ \E r \in Receiver : call[r].queue = q /\ call[r].pc \in {"check", "forget"}

\* The inductive invariant of the store with its receivers.
PollInv == Homes /\ PollTypeOK /\ QueueNamed /\ Stranded

\* No queue, no channel and no receiver.
LEMMA PollInitInv == PollInit => PollInv
<1> SUFFICES ASSUME PollInit PROVE PollInv
  OBVIOUS
<1>1. Homes
  BY InitHomes DEF PollInit
<1>2. Idle \in Call
  BY DEF Idle, Call
<1> QED
  BY <1>1, <1>2 DEF PollInit, PollInv, PollTypeOK, QueueNamed, Stranded, Idle

\* A step of the receivers does nothing to the store that the store's own calls
\* do not do.
LEMMA PollHomes == PollInv /\ [PollNext]_allVars => Homes'
<1> SUFFICES ASSUME PollInv, [PollNext]_allVars PROVE Homes'
  OBVIOUS
<1>1. Homes /\ PollTypeOK /\ QueueNamed
  BY DEF PollInv
<1>2. CASE UNCHANGED vars
  BY <1>1, <1>2, HomesStep
<1>3. ASSUME NEW r \in Receiver, NEW max \in 1..MaxBatch, Check(r, max)
      PROVE  Homes'
  <2> DEFINE q == call[r].queue
             o == call[r].override
  <2>1. ReceiveOnce(q, max, o) /\ call[r].pc = "check"
    BY <1>3 DEF Check
  <2>2. q \in Queue /\ o \in Timeouts \cup {NoOverride} /\ max \in Nat
    BY <1>1, <2>1, ConstantsAssumption DEF PollTypeOK, Call, QueueNamed
  <2> HIDE DEF q, o
  <2> QED
    BY <1>1, <2>1, <2>2, ReceiveHomes
<1>4. ASSUME NEW r \in Receiver, Step(r)
      PROVE  Homes'
  <2>1. CASE UNCHANGED vars
    BY <1>2, <2>1
  <2>2. CASE \E max \in 1..MaxBatch : Check(r, max)
    BY <1>3, <2>2
  <2> QED
    BY <1>4, <2>1, <2>2
    DEF Step, Register, CheckMissing, ReturnMissing, Decide, Wake
<1>5. ASSUME NEW q \in Queue, Fill(q)
      PROVE  Homes'
  <2>1. Send(q) \/ MoveTo(q)
    BY <1>5 DEF Fill
  <2>2. Next
    BY <2>1 DEF Next
  <2> QED
    BY <1>1, <2>2, HomesStep
<1>6. ASSUME NEW q \in Queue, Drop(q)
      PROVE  Homes'
  <2>1. Next
    BY <1>6 DEF Drop, Next
  <2> QED
    BY <1>1, <2>1, HomesStep
<1>7. CASE Quiet
  <2>1. Next
    BY <1>7 DEF Quiet, Next
  <2> QED
    BY <1>1, <2>1, HomesStep
<1>8. ASSUME NEW q \in Queue, Signal(q) \/ ForgetDropped(q)
      PROVE  Homes'
  BY <1>2, <1>8 DEF Signal, ForgetDropped
<1>9. ASSUME NEW r \in Receiver, NEW q \in Queue, NEW w \in Waits,
             NEW o \in Timeouts \cup {NoOverride}, Begin(r, q, w, o)
      PROVE  Homes'
  BY <1>2, <1>9 DEF Begin
<1>10. CASE UNCHANGED allVars
  BY <1>2, <1>10 DEF allVars
<1> QED
  BY <1>4, <1>5, <1>6, <1>7, <1>8, <1>9, <1>10 DEF PollNext

\* notify (notifier.go) wakes the receivers that wait on a queue and changes
\* nothing else of them.
LEMMA SignalledType ==
  ASSUME PollTypeOK, NEW q
  PROVE  /\ Signalled(q) \in [Receiver -> Call]
         /\ \A r \in Receiver :
              /\ Signalled(q)[r].pc = call[r].pc
              /\ Signalled(q)[r].queue = call[r].queue
              /\ Signalled(q)[r].redriven = call[r].redriven
              /\ Signalled(q)[r].wakeAt = call[r].wakeAt
              /\ Signalled(q)[r].got = call[r].got
              /\ r \in WaitersOn(q) => Signalled(q)[r].woken
              /\ r \notin WaitersOn(q) => Signalled(q)[r] = call[r]
<1>1. \A c \in Call :
        /\ [c EXCEPT !.woken = TRUE] \in Call
        /\ [c EXCEPT !.woken = TRUE].pc = c.pc
        /\ [c EXCEPT !.woken = TRUE].queue = c.queue
        /\ [c EXCEPT !.woken = TRUE].redriven = c.redriven
        /\ [c EXCEPT !.woken = TRUE].wakeAt = c.wakeAt
        /\ [c EXCEPT !.woken = TRUE].got = c.got
        /\ [c EXCEPT !.woken = TRUE].woken
  BY DEF Call
<1> QED
  BY <1>1 DEF Signalled, PollTypeOK

\* One pass of a receive over the store, and what it leaves in the call.
LEMMA CheckType ==
  ASSUME PollInv, NEW r \in Receiver, NEW max \in 1..MaxBatch, Check(r, max)
  PROVE  LET q == call[r].queue
         IN /\ q \in live /\ q \in Queue
            /\ call' \in [Receiver -> Call]
            /\ \A x \in Receiver : x # r => call'[x] = call[x]
            /\ call'[r].pc = "decide"
            /\ call'[r].queue = q
            /\ call'[r].woken = call[r].woken
            /\ call'[r].got = (Deliver(q, max) # {})
            /\ \A m \in msgs[q] :
                 InFlight(m) /\ ~Expired(cfg[q], m, now) => call'[r].wakeAt <= m.visible
            /\ call'[r].redriven =
                 IF ToMove(q, max) # {} THEN cfg[q].DeadLetterTarget ELSE NoQueue
            /\ UNCHANGED <<chans, onMap, signals, forgets>>
<1> DEFINE q == call[r].queue
           S == {call[r].deadline} \cup Due(q)
           d == IF ToMove(q, max) # {} THEN cfg[q].DeadLetterTarget ELSE NoQueue
           g == Deliver(q, max) # {}
           w == Min(S)
           k == [call[r] EXCEPT !.pc = "decide", !.got = g, !.wakeAt = w, !.redriven = d]
<1>1. TypeOK /\ PollTypeOK /\ call[r] \in Call /\ call[r].pc = "check"
  BY DEF Check, PollInv, Homes, Keyed, PollTypeOK
<1>2. q \in Queue /\ q \in live
  BY <1>1 DEF PollInv, QueueNamed, Check, ReceiveOnce
<1>3. /\ \A m \in msgs[q] : InFlight(m) /\ ~Expired(cfg[q], m, now) => m.visible \in Due(q)
      /\ \A m \in msgs[q] : m.visible \in Nat
  <2>1. \A m \in msgs[q] : m.visible \in Nat
    BY <1>1, <1>2 DEF TypeOK, Message
  <2> QED
    BY <2>1 DEF Due
<1>4. S \in SUBSET Nat /\ S # {}
  BY <1>1, <1>3 DEF Due, Call
<1>5. w \in Nat /\ \A y \in S : w <= y
  <2> HIDE DEF S
  <2> QED
    BY <1>4, MinFacts
<1>6. d \in Queue \cup {NoQueue}
  BY <1>1, <1>2 DEF TypeOK, Config
<1>7. g \in BOOLEAN
  OBVIOUS
<1>8. call' = [call EXCEPT ![r] = k] /\ UNCHANGED <<chans, onMap, signals, forgets>>
  <2>1. call' = [call EXCEPT
          ![r].pc = "decide",
          ![r].got = g,
          ![r].wakeAt = w,
          ![r].redriven = d]
    BY DEF Check
  <2> HIDE DEF g, w, d
  <2>2. call' = [call EXCEPT ![r] = k]
    BY <2>1, <1>1 DEF PollTypeOK
  <2> QED
    BY <2>2 DEF Check
<1>9. /\ k \in Call /\ k.pc = "decide" /\ k.queue = q /\ k.woken = call[r].woken
      /\ k.got = g /\ k.wakeAt = w /\ k.redriven = d
  <2> HIDE DEF g, w, d
  <2> QED
    BY <1>1, <1>5, <1>6, <1>7 DEF Call
<1>10. \A m \in msgs[q] : InFlight(m) /\ ~Expired(cfg[q], m, now) => w <= m.visible
  <2> HIDE DEF w
  <2> QED
    BY <1>3, <1>5
<1> HIDE DEF k, w
<1>11. /\ call' \in [Receiver -> Call] /\ call'[r] = k
       /\ \A x \in Receiver : x # r => call'[x] = call[x]
  BY <1>1, <1>8, <1>9 DEF PollTypeOK
<1> QED
  BY <1>2, <1>8, <1>9, <1>10, <1>11

\* Every step keeps the types, and a call keeps the queue it names.
LEMMA PollTypeStep == PollInv /\ [PollNext]_allVars => PollTypeOK' /\ QueueNamed'
<1> SUFFICES ASSUME PollInv, [PollNext]_allVars PROVE PollTypeOK' /\ QueueNamed'
  OBVIOUS
<1>1. TypeOK /\ PollTypeOK /\ QueueNamed
  BY DEF PollInv, Homes, Keyed
<1>2. Idle \in Call /\ Idle.pc = "idle"
  BY DEF Idle, Call
<1>3. ASSUME NEW r \in Receiver, NEW k \in Call, k.pc # "idle" => k.queue \in Queue,
             call' = [call EXCEPT ![r] = k], chans' \subseteq Queue,
             onMap' \subseteq Receiver, UNCHANGED <<signals, forgets>>
      PROVE  PollTypeOK' /\ QueueNamed'
  BY <1>1, <1>3 DEF PollTypeOK, QueueNamed
<1>4. ASSUME NEW r \in Receiver, NEW q \in Queue, NEW w \in Waits,
             NEW o \in Timeouts \cup {NoOverride}, Begin(r, q, w, o)
      PROVE  PollTypeOK' /\ QueueNamed'
  <2> DEFINE d == now + WaitOf(q, w)
             k == [Idle EXCEPT !.pc = "register", !.queue = q, !.override = o, !.deadline = d]
  <2>1. d \in Nat
    <3>1. cfg[q].WaitTimeSeconds \in Nat /\ now \in Nat
      BY <1>1 DEF TypeOK, Config
    <3>2. w \in Int /\ MaxWait \in Nat
      BY PollAssumption
    <3> QED
      BY <3>1, <3>2 DEF WaitOf
  <2>2. call' = [call EXCEPT ![r] = k] /\ UNCHANGED <<chans, onMap, signals, forgets>>
    BY <1>4 DEF Begin
  <2>3. k \in Call /\ k.queue = q
    <3> HIDE DEF d
    <3> QED
      BY <2>1 DEF Idle, Call
  <2> HIDE DEF k
  <2> QED
    BY <1>1, <1>3, <2>2, <2>3 DEF PollTypeOK
<1>5. ASSUME NEW r \in Receiver, Register(r)
      PROVE  PollTypeOK' /\ QueueNamed'
  <2> DEFINE k == [call[r] EXCEPT !.pc = "check", !.woken = FALSE]
  <2>1. call' = [call EXCEPT ![r] = k]
    BY <1>1, <1>5 DEF Register, PollTypeOK
  <2>2. k \in Call /\ k.queue = call[r].queue /\ k.queue \in Queue
    BY <1>1, <1>5 DEF Register, PollTypeOK, Call, QueueNamed
  <2>3. chans' \subseteq Queue /\ onMap' \subseteq Receiver /\ UNCHANGED <<signals, forgets>>
    BY <1>1, <1>5, <2>2 DEF Register, PollTypeOK
  <2> HIDE DEF k
  <2> QED
    BY <1>3, <2>1, <2>2, <2>3
<1>6. ASSUME NEW r \in Receiver, NEW max \in 1..MaxBatch, Check(r, max)
      PROVE  PollTypeOK' /\ QueueNamed'
  BY <1>1, <1>6, CheckType DEF PollTypeOK, QueueNamed
<1>7. ASSUME NEW r \in Receiver, CheckMissing(r) \/ Wake(r)
      PROVE  PollTypeOK' /\ QueueNamed'
  <2>1. PICK p \in {"forget", "register"} : call' = [call EXCEPT ![r].pc = p]
    BY <1>7 DEF CheckMissing, Wake
  <2> DEFINE k == [call[r] EXCEPT !.pc = p]
  <2>2. call' = [call EXCEPT ![r] = k]
    BY <1>1, <2>1 DEF PollTypeOK
  <2>3. k \in Call /\ k.queue \in Queue
    BY <1>1, <1>7 DEF CheckMissing, Wake, PollTypeOK, Call, QueueNamed
  <2>4. chans' \subseteq Queue /\ onMap' \subseteq Receiver /\ UNCHANGED <<signals, forgets>>
    BY <1>1, <1>7 DEF CheckMissing, Wake, PollTypeOK
  <2> HIDE DEF k
  <2> QED
    BY <1>3, <2>2, <2>3, <2>4
<1>8. ASSUME NEW r \in Receiver, ReturnMissing(r)
      PROVE  PollTypeOK' /\ QueueNamed'
  <2>1. /\ call' = [call EXCEPT ![r] = Idle] /\ UNCHANGED <<signals, forgets>>
        /\ chans' \subseteq Queue /\ onMap' \subseteq Receiver
    BY <1>1, <1>8 DEF ReturnMissing, Forget, PollTypeOK
  <2> QED
    BY <1>2, <1>3, <2>1
<1>9. ASSUME NEW r \in Receiver, Decide(r)
      PROVE  PollTypeOK' /\ QueueNamed'
  <2> DEFINE d == call[r].redriven
             done == call[r].got \/ now >= call[r].deadline
             s == Signalled(d)
             k == IF done THEN Idle ELSE [s[r] EXCEPT !.pc = "sleep", !.redriven = NoQueue]
  <2>1. s \in [Receiver -> Call] /\ \A x \in Receiver : s[x].pc = call[x].pc /\ s[x].queue = call[x].queue
    BY <1>1, SignalledType
  <2>2. call' = [s EXCEPT ![r] = k]
    <3>1. call' = [s EXCEPT ![r] = IF done THEN Idle ELSE [@ EXCEPT !.pc = "sleep", !.redriven = NoQueue]]
      BY <1>9 DEF Decide
    <3> HIDE DEF done, s
    <3> QED
      BY <3>1, <2>1
  <2>3. k \in Call /\ (k.pc # "idle" => k.queue \in Queue)
    <3>1. s[r] \in Call /\ s[r].queue \in Queue
      BY <1>1, <1>9, <2>1 DEF Decide, QueueNamed
    <3> HIDE DEF done, s
    <3> QED
      BY <1>2, <3>1 DEF Call
  <2>4. chans' \subseteq Queue /\ onMap' \subseteq Receiver /\ UNCHANGED <<signals, forgets>>
    BY <1>1, <1>9 DEF Decide, PollTypeOK
  <2> HIDE DEF k, s
  <2> QED
    BY <1>1, <2>1, <2>2, <2>3, <2>4 DEF PollTypeOK, QueueNamed
<1>10. ASSUME NEW q \in Queue, Signal(q)
       PROVE  PollTypeOK' /\ QueueNamed'
  <2>1. Signalled(q) \in [Receiver -> Call]
        /\ \A x \in Receiver : Signalled(q)[x].pc = call[x].pc /\ Signalled(q)[x].queue = call[x].queue
    BY <1>1, SignalledType
  <2>2. signals' \in [Queue -> Nat]
    BY <1>1, <1>10 DEF Signal, PollTypeOK
  <2> QED
    BY <1>1, <1>10, <2>1, <2>2 DEF Signal, Forget, PollTypeOK, QueueNamed
<1>11. ASSUME NEW q \in Queue, Fill(q) \/ Drop(q) \/ ForgetDropped(q)
       PROVE  PollTypeOK' /\ QueueNamed'
  <2>1. signals' \in [Queue -> Nat] /\ forgets' \in [Queue -> Nat]
    BY <1>1, <1>11 DEF Fill, Drop, ForgetDropped, PollTypeOK
  <2>2. call' = call /\ chans' \subseteq chans /\ onMap' \subseteq onMap
    BY <1>11 DEF Fill, Drop, ForgetDropped, Forget
  <2> QED
    BY <1>1, <2>1, <2>2 DEF PollTypeOK, QueueNamed
<1>12. CASE UNCHANGED pollVars
  BY <1>1, <1>12 DEF pollVars, PollTypeOK, QueueNamed
<1> QED
  BY <1>4, <1>5, <1>6, <1>7, <1>8, <1>9, <1>10, <1>11, <1>12
  DEF PollNext, Step, Quiet, allVars

\* What a receiver does after an unsuccessful pass: it gives up, or it sleeps
\* until the time the pass computed.
LEMMA DecideFacts ==
  ASSUME PollInv, NEW r \in Receiver, Decide(r)
  PROVE  /\ call[r].pc = "decide"
         /\ UNCHANGED <<vars, signals, forgets>>
         /\ chans' \subseteq chans
         /\ onMap' \subseteq onMap \ WaitersOn(call[r].redriven)
         /\ \A x \in Receiver : x # r => call'[x] = Signalled(call[r].redriven)[x]
         /\ \/ call'[r].pc = "idle"
            \/ /\ ~call[r].got /\ ~call'[r].got
               /\ call'[r].pc = "sleep"
               /\ call'[r].queue = call[r].queue
               /\ call'[r].wakeAt = call[r].wakeAt
               /\ call'[r].woken = Signalled(call[r].redriven)[r].woken
<1> DEFINE d == call[r].redriven
           done == call[r].got \/ now >= call[r].deadline
           s == Signalled(d)
<1>0. /\ call[r].pc = "decide" /\ UNCHANGED <<vars, signals, forgets>>
      /\ chans' \subseteq chans
      /\ onMap' \subseteq onMap \ WaitersOn(d)
  BY DEF Decide
<1>1. /\ s \in [Receiver -> Call] /\ s[r].queue = call[r].queue
      /\ s[r].wakeAt = call[r].wakeAt /\ s[r].got = call[r].got
  BY SignalledType DEF PollInv
<1>2. call' = [s EXCEPT ![r] =
         IF done THEN Idle ELSE [@ EXCEPT !.pc = "sleep", !.redriven = NoQueue]]
  BY DEF Decide
<1>3. \A x \in Receiver : x # r => call'[x] = s[x]
  <2> HIDE DEF done, s
  <2> QED
    BY <1>1, <1>2
<1>4. CASE done
  <2>1. call'[r] = Idle
    <3> HIDE DEF done, s
    <3> QED
      BY <1>1, <1>2, <1>4
  <2>2. call'[r].pc = "idle"
    BY <2>1 DEF Idle
  <2> QED
    BY <1>0, <1>3, <2>2
<1>5. CASE ~done
  <2>1. call'[r] = [s[r] EXCEPT !.pc = "sleep", !.redriven = NoQueue]
    <3> HIDE DEF done, s
    <3> QED
      BY <1>1, <1>2, <1>5
  <2>2. s[r] \in Call /\ ~call[r].got
    BY <1>1, <1>5
  <2>3. /\ call'[r].pc = "sleep" /\ call'[r].queue = s[r].queue
        /\ call'[r].wakeAt = s[r].wakeAt /\ call'[r].woken = s[r].woken
        /\ call'[r].got = s[r].got
    <3> HIDE DEF s
    <3> QED
      BY <2>1, <2>2 DEF Call
  <2> QED
    BY <1>0, <1>1, <1>3, <2>2, <2>3
<1> QED
  BY <1>4, <1>5

\* What the calls besides the receives do to the store.
LEMMA LiveGrows ==
  ASSUME NEW q, Define(q) \/ UseHandles(q) \/ Janitor \/ Tick \/ Send(q) \/ MoveTo(q)
  PROVE  live \subseteq live'
BY DEF Define, CreateQueue, SetAttributes, Purge, UseHandles, Peek, DeleteBatch,
  ChangeVisibilityBatch, Janitor, SweepBegin, SweepQueue, Tick, Send, SendBatch,
  MoveTo, StartMessageMoveTask

\* Every step leaves a channel with its queue or with somebody who removes it.
LEMMA StrandedStep == PollInv /\ [PollNext]_allVars => Stranded'
<1> SUFFICES ASSUME PollInv, [PollNext]_allVars PROVE Stranded'
  OBVIOUS
<1>1. PollTypeOK /\ QueueNamed /\ Stranded
  BY DEF PollInv
<1>2. ASSUME live \subseteq live', chans' \subseteq chans, UNCHANGED forgets,
             \A x \in Receiver : call[x].pc \in {"check", "forget"} =>
                call'[x].pc = call[x].pc /\ call'[x].queue = call[x].queue
      PROVE  Stranded'
  BY <1>1, <1>2 DEF Stranded
<1>3. ASSUME NEW r \in Receiver, NEW q, NEW w, NEW o, Begin(r, q, w, o)
      PROVE  Stranded'
  <2>1. call[r].pc = "idle" /\ UNCHANGED <<vars, chans, forgets>>
        /\ \A x \in Receiver : x # r => call'[x] = call[x]
    BY <1>1, <1>3 DEF Begin, PollTypeOK
  <2> QED
    BY <1>2, <2>1 DEF vars
<1>4. ASSUME NEW r \in Receiver, Register(r)
      PROVE  Stranded'
  <2>1. /\ call[r].pc = "register" /\ UNCHANGED <<vars, forgets>>
        /\ chans' = chans \cup {call[r].queue}
        /\ call'[r].pc = "check" /\ call'[r].queue = call[r].queue
        /\ \A x \in Receiver : x # r => call'[x] = call[x]
    BY <1>1, <1>4 DEF Register, PollTypeOK, Call
  <2> QED
    BY <1>1, <2>1 DEF vars, Stranded
<1>5. ASSUME NEW r \in Receiver, NEW max \in 1..MaxBatch, Check(r, max)
      PROVE  Stranded'
  <2>1. /\ call[r].queue \in live /\ UNCHANGED <<chans, forgets, live>>
        /\ \A x \in Receiver : x # r => call'[x] = call[x]
    BY <1>5, CheckType DEF Check, ReceiveOnce
  <2> QED
    BY <1>1, <2>1 DEF Stranded
<1>6. ASSUME NEW r \in Receiver, CheckMissing(r)
      PROVE  Stranded'
  <2>1. /\ call[r].pc = "check" /\ UNCHANGED <<vars, chans, forgets>>
        /\ call'[r].pc = "forget" /\ call'[r].queue = call[r].queue
        /\ \A x \in Receiver : x # r => call'[x] = call[x]
    BY <1>1, <1>6 DEF CheckMissing, PollTypeOK, Call
  <2> QED
    BY <1>1, <2>1 DEF vars, Stranded
<1>7. ASSUME NEW r \in Receiver, ReturnMissing(r)
      PROVE  Stranded'
  <2>1. /\ chans' = chans \ {call[r].queue} /\ UNCHANGED <<vars, forgets>>
        /\ \A x \in Receiver : x # r => call'[x] = call[x]
    BY <1>1, <1>7 DEF ReturnMissing, Forget, PollTypeOK
  <2> QED
    BY <1>1, <2>1 DEF vars, Stranded
<1>8. ASSUME NEW r \in Receiver, Decide(r)
      PROVE  Stranded'
  <2>1. \A x \in Receiver : x # r =>
          call'[x].pc = call[x].pc /\ call'[x].queue = call[x].queue
    BY <1>1, <1>8, DecideFacts, SignalledType
  <2>2. call[r].pc = "decide" /\ chans' \subseteq chans /\ UNCHANGED <<live, forgets>>
    BY <1>8, DecideFacts DEF vars
  <2> QED
    BY <1>2, <2>1, <2>2
<1>9. ASSUME NEW r \in Receiver, Wake(r)
      PROVE  Stranded'
  <2>1. /\ call[r].pc = "sleep" /\ UNCHANGED <<vars, chans, forgets>>
        /\ \A x \in Receiver : x # r => call'[x] = call[x]
    BY <1>1, <1>9 DEF Wake, PollTypeOK
  <2> QED
    BY <1>2, <2>1 DEF vars
<1>10. ASSUME NEW q \in Queue, Signal(q)
       PROVE  Stranded'
  <2>1. call' = Signalled(q) /\ chans' \subseteq chans /\ UNCHANGED <<live, forgets>>
    BY <1>10 DEF Signal, Forget, vars
  <2> QED
    BY <1>1, <1>2, <2>1, SignalledType
<1>11. ASSUME NEW q \in Queue, Fill(q)
       PROVE  Stranded'
  <2>1. live \subseteq live' /\ UNCHANGED <<call, chans, forgets>>
    BY <1>11, LiveGrows DEF Fill
  <2> QED
    BY <1>2, <2>1
<1>12. ASSUME NEW q \in Queue, Drop(q)
       PROVE  Stranded'
  <2>1. /\ live' = live \ {q} /\ UNCHANGED <<call, chans>>
        /\ forgets'[q] > 0
        /\ \A x \in Queue : x # q => forgets'[x] = forgets[x]
    BY <1>1, <1>12 DEF Drop, Remove, DeleteQueue, PollTypeOK
  <2> QED
    BY <1>1, <2>1 DEF Stranded, PollTypeOK
<1>13. ASSUME NEW q \in Queue, ForgetDropped(q)
       PROVE  Stranded'
  <2>1. /\ chans' = chans \ {q} /\ UNCHANGED <<call, live>>
        /\ \A x \in Queue : x # q => forgets'[x] = forgets[x]
    BY <1>1, <1>13 DEF ForgetDropped, Forget, PollTypeOK, vars
  <2> QED
    BY <1>1, <2>1 DEF Stranded, PollTypeOK
<1>14. CASE Quiet
  <2>1. live \subseteq live' /\ UNCHANGED <<call, chans, forgets>>
    BY <1>14, LiveGrows DEF Quiet, pollVars
  <2> QED
    BY <1>2, <2>1
<1>15. CASE UNCHANGED allVars
  BY <1>2, <1>15 DEF allVars, vars, pollVars
<1> QED
  BY <1>3, <1>4, <1>5, <1>6, <1>7, <1>8, <1>9, <1>10, <1>11, <1>12, <1>13, <1>14, <1>15
  DEF PollNext, Step

\* The invariant is kept by every step.
LEMMA PollInvStep == PollInv /\ [PollNext]_allVars => PollInv'
BY PollHomes, PollTypeStep, StrandedStep DEF PollInv

\* The invariant holds in every reachable state.
THEOREM PollInvAlways == PollSpec => []PollInv
BY PollInitInv, PollInvStep, PTL DEF PollSpec

\* PollTypeOK for every number of receivers, queues and waits: calls, channels
\* and the pending signals stay what sqs/notifier.go and the receive loop declare.
THEOREM PollTyped == PollSpec => []PollTypeOK
<1>1. PollInv => PollTypeOK
  BY DEF PollInv
<1> QED
  BY <1>1, PollInvAlways, PTL

\* NoStrandedChannel for every number of receivers and queues: a receiver that
\* registers after DeleteQueue has dropped the channels of its queue sees the
\* queue gone and removes the channel it made.
THEOREM ChannelsReclaimed == PollSpec => []NoStrandedChannel
<1>1. PollInv => NoStrandedChannel
  BY DEF PollInv, Stranded, NoStrandedChannel
<1> QED
  BY <1>1, PollInvAlways, PTL

\* OneHome also under long polls: a receive that redrives, expires and delivers
\* between the steps of the notifier neither loses nor doubles a message.
THEOREM NoLossWhilePolling == PollSpec => []OneHome
<1>1. PollInv => OneHome
  BY HomesOneHome DEF PollInv
<1> QED
  BY <1>1, PollInvAlways, PTL

-----------------------------------------------------------------------------
(* No wake-up is lost.                                                     *)

\* The instances NoWakeupLost is about: standard queues whose attributes stay and
\* no ChangeMessageVisibility.  The excepted calls make a message ready without
\* a signal, and its receivers wait for their timers.
StandardOnly ==
  FifoName = {} /\ ~Does("SetQueueAttributes") /\ ~Does("ChangeMessageVisibility")

\* The receiver's timer or nothing at all waits for message m.
Covered(r, m) ==
  LET q == call[r].queue
  IN \/ call[r].wakeAt <= m.visible
     \/ Expired(cfg[q], m, now)
     \/ Exhausted(q, m)

\* A receiver that is registered, has found nothing and was not woken since.
Watching(r) ==
  /\ r \in onMap
  /\ call[r].pc \in {"decide", "sleep"}
  /\ ~call[r].got
  /\ ~call[r].woken

\* Every message such a receiver may yet get is later than its timer, unless a
\* signal is on its way.
Watch ==
  \A r \in Receiver : Watching(r) =>
    SignalOwed(call[r].queue) \/ \A m \in msgs[call[r].queue] : Covered(r, m)

\* No queue is FIFO.
Standard == \A q \in live : ~cfg[q].FIFO

\* The inductive invariant that rules lost wake-ups out.
WatchInv ==
  /\ Standard
  /\ \A r \in Receiver : call[r].pc = "sleep" => ~call[r].got
  /\ Watch

\* Nobody watches.
LEMMA WatchInit == PollInit => WatchInv
BY DEF PollInit, Init, WatchInv, Standard, Watch, Watching, Idle

\* A bucket shrinks, or is filled with a signal to follow.
LEMMA OthersShrink ==
  ASSUME StandardOnly, Homes, NEW q \in Queue,
         Define(q) \/ UseHandles(q) \/ Janitor \/ Tick \/ Remove(q)
  PROVE  /\ \A x \in Queue :
              /\ msgs'[x] \subseteq msgs[x]
              /\ msgs'[x] = {} \/ cfg'[x] = cfg[x]
         /\ now' >= now
         /\ Standard => Standard'
<1>1. TypeOK /\ GoneEmpty
  BY DEF Homes, Keyed
<1>2. now \in Nat /\ now + 1 >= now
  BY <1>1 DEF TypeOK
<1>3. ASSUME NEW a \in AttrCalls, CreateQueue(q, a)
      PROVE  /\ \A x \in Queue : msgs'[x] \subseteq msgs[x] /\ (msgs'[x] = {} \/ cfg'[x] = cfg[x])
             /\ now' >= now /\ (Standard => Standard')
  <2>1. msgs[q] = {} /\ q \notin live /\ msgs' = msgs /\ now' = now
    BY <1>1, <1>3 DEF CreateQueue, GoneEmpty
  <2>2. /\ \A x \in Queue : x # q => cfg'[x] = cfg[x]
        /\ live' = live \cup {q}
    BY <1>1, <1>3 DEF CreateQueue, TypeOK
  <2>3. cfg'[q].FIFO = FALSE
    <3>1. Attr(a, "FifoQueue", FALSE) = FALSE
      <4>1. Attr(a, "FifoQueue", FALSE) = (q \in FifoName)
        BY <1>3 DEF CreateQueue
      <4>2. (q \in FifoName) = FALSE
        BY DEF StandardOnly
      <4> QED
        BY <4>1, <4>2
    <3> DEFINE c == [DefaultConfig EXCEPT !.FIFO = Attr(a, "FifoQueue", FALSE)]
    <3>2. c.FIFO = FALSE
      BY <3>1, ConstantsAssumption DEF Config
    <3>3. cfg'[q] = ApplyAttrs(c, a)
      BY <1>1, <1>3 DEF CreateQueue, TypeOK
    <3>4. ApplyAttrs(c, a).FIFO = Attr(a, "FifoQueue", c.FIFO)
      BY DEF ApplyAttrs
    <3> QED
      BY <3>1, <3>2, <3>3, <3>4 DEF Attr
  <2>4. live \subseteq Queue
    BY <1>1 DEF TypeOK
  <2> QED
    BY <1>2, <2>1, <2>2, <2>3, <2>4 DEF Standard
<1>4. CASE Define(q)
  <2>1. CASE Purge(q)
    BY <1>1, <1>2, <2>1 DEF Purge, TypeOK, Standard, Define, StandardOnly
  <2> QED
    BY <1>3, <1>4, <2>1 DEF Define, StandardOnly
<1>5. CASE UseHandles(q)
  <2>1. UNCHANGED <<live, cfg, now>>
    BY <1>5 DEF UseHandles, Peek, DeleteBatch, StandardOnly
  <2>2. \A x \in Queue : msgs'[x] \subseteq msgs[x]
    BY <1>1, <1>5 DEF UseHandles, Peek, DeleteBatch, StandardOnly, TypeOK
  <2> QED
    BY <1>2, <2>1, <2>2 DEF Standard
<1>6. CASE Janitor
  <2>1. UNCHANGED <<live, cfg, now>>
    BY <1>6 DEF Janitor, SweepBegin, SweepQueue
  <2>2. \A x \in Queue : msgs'[x] \subseteq msgs[x]
    <3>1. CASE UNCHANGED msgs
      BY <3>1
    <3>2. ASSUME NEW p \in Queue, SweepQueue(p), p \in live
          PROVE  \A x \in Queue : msgs'[x] \subseteq msgs[x]
      BY <1>1, <3>2 DEF SweepQueue, TypeOK
    <3> QED
      BY <1>6, <3>1, <3>2 DEF Janitor, SweepBegin, SweepQueue
  <2> QED
    BY <1>2, <2>1, <2>2 DEF Standard
<1>7. CASE Tick
  BY <1>2, <1>7 DEF Tick, Standard
<1>9. CASE Remove(q)
  <2>1. live' = live \ {q} /\ now' = now
    BY <1>9 DEF Remove, DeleteQueue
  <2>2. \A x \in Queue : /\ msgs'[x] = IF x = q THEN {} ELSE msgs[x]
                         /\ x # q => cfg'[x] = cfg[x]
    BY <1>1, <1>9 DEF Remove, DeleteQueue, TypeOK
  <2>3. live \subseteq Queue
    BY <1>1 DEF TypeOK
  <2> QED
    BY <1>2, <2>1, <2>2, <2>3 DEF Standard
<1> QED
  BY <1>4, <1>5, <1>6, <1>7, <1>9

\* A send and a move task fill one queue, the one they will signal.
LEMMA FillShrinks ==
  ASSUME Homes, NEW q \in Queue, Send(q) \/ MoveTo(q)
  PROVE  /\ \A x \in Queue : x # q => msgs'[x] \subseteq msgs[x]
         /\ UNCHANGED <<live, cfg, now>>
<1>1. TypeOK
  BY DEF Homes, Keyed
<1> QED
  BY <1>1 DEF Send, SendBatch, MoveTo, StartMessageMoveTask, TypeOK

\* Nothing unsettles a message that stays as it is.
LEMMA CoveredStays ==
  ASSUME TypeOK, TypeOK', PollTypeOK, NEW r \in Receiver, call[r].queue \in Queue,
         call'[r].queue = call[r].queue, call'[r].wakeAt = call[r].wakeAt,
         cfg'[call[r].queue] = cfg[call[r].queue], now' >= now,
         NEW m \in msgs[call[r].queue], Covered(r, m)
  PROVE  Covered(r, m)'
<1> DEFINE q == call[r].queue
<1>1. m \in Message /\ cfg[q] \in Config /\ now \in Nat /\ now' \in Nat
  BY DEF TypeOK
<1>2. Expired(cfg[q], m, now) => Expired(cfg[q], m, now')
  <2>1. m.sent \in Nat /\ cfg[q].RetentionPeriod \in Nat
    BY <1>1 DEF Message, Config
  <2> HIDE DEF q
  <2> QED
    BY <1>1, <2>1 DEF Expired
<1> QED
  BY <1>2 DEF Covered, Exhausted

\* A pass that delivers nothing has found nothing ready and has walked over the
\* whole bucket.
LEMMA FirstDelivered ==
  ASSUME Homes, NEW q \in live, ~cfg[q].FIFO, NEW max \in 1..MaxBatch,
         Deliver(q, max) = {}
  PROVE  /\ Ready(q) = {}
         /\ Walked(q, max) = msgs[q]
         /\ LockedGroups(q) = {}
<1>1. q \in Queue /\ max \in Nat \ {0} /\ TypeOK
  BY ConstantsAssumption DEF Homes, Keyed, TypeOK
<1>2. Heads(q) = Ready(q) /\ Ready(q) \subseteq msgs[q]
  BY DEF Heads, Ready, Open
<1>3. \A m \in msgs[q] : m.seq \in Nat
  BY <1>1 DEF TypeOK, Message
<1>4. ASSUME Ready(q) # {} PROVE FALSE
  <2>1. Seqs(Ready(q)) \in SUBSET Nat /\ Seqs(Ready(q)) # {}
    BY <1>2, <1>3, <1>4 DEF Seqs
  <2>2. PICK s \in Seqs(Ready(q)) : \A y \in Seqs(Ready(q)) : s <= y
    BY <2>1, LeastNat
  <2>3. PICK m \in Ready(q) : m.seq = s
    BY <2>2 DEF Seqs
  <2>4. Ahead(Heads(q), m) = {}
    BY <1>2, <1>3, <2>1, <2>2, <2>3 DEF Ahead, Seqs
  <2>5. Cardinality(Ahead(Heads(q), m)) < max
    BY <1>1, <2>4, FS_EmptySet
  <2> QED
    BY <1>2, <2>3, <2>5 DEF Deliver
<1>5. Walked(q, max) = msgs[q]
  <2>1. \A m \in msgs[q] : Ahead(Deliver(q, max), m) = {}
    BY DEF Ahead
  <2>2. \A m \in msgs[q] : Cardinality(Ahead(Deliver(q, max), m)) < max
    BY <1>1, <2>1, FS_EmptySet
  <2> QED
    BY <2>2 DEF Walked
<1> QED
  BY <1>4, <1>5 DEF LockedGroups

\* A pass that finds nothing leaves a timer that covers every message: the
\* earliest time one of them becomes visible.
LEMMA CheckWatch ==
  ASSUME PollInv, PollInv', WatchInv, NEW r \in Receiver, NEW max \in 1..MaxBatch,
         Check(r, max)
  PROVE  WatchInv'
<1> DEFINE q == call[r].queue
           o == call[r].override
           t == cfg[q].DeadLetterTarget
           move == ToMove(q, max)
<1>1. TypeOK /\ TypeOK' /\ PollTypeOK /\ QueueNamed /\ NoSelfTarget /\ Homes
  BY DEF PollInv, Homes, Keyed
<1>2. /\ q \in live /\ q \in Queue
      /\ \A x \in Receiver : x # r => call'[x] = call[x]
      /\ call'[r].pc = "decide"
      /\ call'[r].queue = q
      /\ call'[r].got = (Deliver(q, max) # {})
      /\ \A m \in msgs[q] :
           InFlight(m) /\ ~Expired(cfg[q], m, now) => call'[r].wakeAt <= m.visible
      /\ call'[r].redriven = IF move # {} THEN t ELSE NoQueue
      /\ UNCHANGED <<chans, onMap, signals, forgets>>
  BY CheckType
<1>3. ReceiveOnce(q, max, o) /\ call[r].pc = "check"
  BY DEF Check
<1>4. UNCHANGED <<live, cfg, now>>
  BY <1>3 DEF ReceiveOnce
<1>5. \A x \in Queue : msgs'[x] =
        IF x = q
          THEN (msgs[q] \ (Deliver(q, max) \cup ToExpire(q, max) \cup move)) \cup Taken(q, max, o)
        ELSE IF x = t THEN msgs[x] \cup Arrivals(move, x)
        ELSE msgs[x]
  BY <1>3 DEF ReceiveOnce
<1>6. Standard' /\ \A x \in Receiver : call'[x].pc = "sleep" => ~call'[x].got
  BY <1>2, <1>4 DEF WatchInv, Standard
<1>7. \A p \in Queue : SignalOwed(p) => SignalOwed(p)'
  BY <1>2, <1>3 DEF SignalOwed
<1>8. ASSUME NEW x \in Receiver, x # r, Watching(x)'
      PROVE  SignalOwed(call[x].queue)' \/ \A m \in msgs'[call[x].queue] : Covered(x, m)'
  <2> DEFINE p == call[x].queue
  <2>1. call'[x] = call[x] /\ Watching(x) /\ p \in Queue
    BY <1>1, <1>2, <1>8 DEF Watching, QueueNamed
  <2>2. CASE SignalOwed(p)
    BY <1>7, <2>1, <2>2
  <2>3. CASE p = t /\ move # {} /\ p # q
    BY <1>2, <2>3 DEF SignalOwed
  <2>4. CASE ~SignalOwed(p) /\ ~(p = t /\ move # {} /\ p # q)
    <3>1. \A m \in msgs[p] : Covered(x, m)
      BY <2>1, <2>4 DEF WatchInv, Watch
    <3>2. \A m \in msgs[p] : Covered(x, m)'
      <4>1. cfg'[p] = cfg[p] /\ now' >= now
        BY <1>1, <1>4 DEF TypeOK
      <4> QED
        BY <1>1, <2>1, <3>1, <4>1, CoveredStays
    <3>3. CASE p # q
      <4>1. msgs'[p] = msgs[p]
        BY <1>5, <2>1, <2>4, <3>3 DEF Arrivals
      <4> QED
        BY <3>2, <4>1
    <3>4. CASE p = q
      <4>1. ASSUME NEW m \in Taken(q, max, o)
            PROVE  Covered(x, m)'
        <5>1. PICK n \in Deliver(q, max) :
                m = [n EXCEPT !.count = @ + 1, !.visible = now + VisibilityFor(q, o)]
          BY <4>1 DEF Taken
        <5>2. n \in msgs[q] /\ ~Expired(cfg[q], n, now) /\ ~InFlight(n) /\ ~Exhausted(q, n)
          BY <5>1 DEF Deliver, Heads, Ready, Open
        <5>3. call[x].wakeAt <= n.visible
          BY <3>1, <3>4, <5>2 DEF Covered
        <5>4. n \in Message /\ now \in Nat /\ call[x].wakeAt \in Nat
          BY <1>1, <1>2, <5>2 DEF TypeOK, PollTypeOK, Call
        <5>5. VisibilityFor(q, o) \in Nat
          <6>1. o \in Timeouts \cup {NoOverride} /\ cfg[q].VisibilityTimeout \in Nat
            BY <1>1, <1>2 DEF PollTypeOK, Call, TypeOK, Config
          <6> HIDE DEF q, o
          <6>2. \A i \in Timeouts : i \in Nat
            BY ConstantsAssumption
          <6>3. CASE o \in Timeouts
            BY <6>2, <6>3 DEF VisibilityFor
          <6>4. CASE o = -1
            <7>1. ~(-1 >= 0)
              OBVIOUS
            <7> QED
              BY <6>1, <6>4, <7>1 DEF VisibilityFor
          <6> QED
            BY <6>1, <6>3, <6>4 DEF NoOverride
        <5>6. n.visible \in Nat /\ n.visible <= now
          BY <5>2, <5>4 DEF InFlight, Message
        <5>7. m.visible = now + VisibilityFor(q, o)
          BY <5>1, <5>4 DEF Message
        <5>8. call'[x].wakeAt <= m.visible
          <6> HIDE DEF q, o
          <6>1. now + VisibilityFor(q, o) >= now
            BY <5>4, <5>5
          <6> QED
            BY <2>1, <5>3, <5>4, <5>5, <5>6, <5>7, <6>1
        <5> QED
          BY <5>8 DEF Covered
      <4> QED
        BY <1>5, <2>1, <3>2, <3>4, <4>1
    <3> QED
      BY <3>3, <3>4
  <2> QED
    BY <2>2, <2>3, <2>4
<1>9. ASSUME Watching(r)', NEW m \in msgs'[q]
      PROVE  Covered(r, m)'
  <2>1. Deliver(q, max) = {}
    BY <1>2, <1>9 DEF Watching
  <2>2. ~cfg[q].FIFO
    BY <1>2 DEF WatchInv, Standard
  <2>3. Ready(q) = {} /\ Walked(q, max) = msgs[q] /\ LockedGroups(q) = {}
    BY <1>1, <1>2, <2>1, <2>2, FirstDelivered
  <2>4. m \in msgs[q] /\ ~Expired(cfg[q], m, now)
    <3>1. Taken(q, max, o) = {}
      BY <2>1 DEF Taken
    <3> QED
      BY <1>2, <1>5, <1>9, <2>3, <3>1 DEF ToExpire
  <2>5. CASE InFlight(m)
    BY <1>2, <2>4, <2>5 DEF Covered
  <2>6. CASE ~InFlight(m)
    <3>1. m \in Open(q)
      BY <2>3, <2>4, <2>6 DEF Open
    <3>2. Exhausted(q, m)
      BY <2>3, <3>1 DEF Ready
    <3> QED
      BY <1>2, <1>4, <3>2 DEF Covered, Exhausted
  <2> QED
    BY <2>5, <2>6
<1>10. Watch'
  BY <1>2, <1>8, <1>9 DEF Watch
<1> QED
  BY <1>6, <1>10 DEF WatchInv

\* Every step keeps the watch.
LEMMA WatchStep ==
  ASSUME StandardOnly, PollInv, PollInv', WatchInv, [PollNext]_allVars
  PROVE  WatchInv'
<1>1. TypeOK /\ TypeOK' /\ PollTypeOK /\ QueueNamed /\ Homes
  BY DEF PollInv, Homes, Keyed
<1>2. ASSUME UNCHANGED vars,
             \A x \in Receiver : Watching(x)' =>
               /\ Watching(x)
               /\ call'[x].queue = call[x].queue
               /\ call'[x].wakeAt = call[x].wakeAt
               /\ SignalOwed(call[x].queue) => SignalOwed(call[x].queue)',
             \A x \in Receiver : call'[x].pc = "sleep" => ~call'[x].got
      PROVE  WatchInv'
  <2>1. Standard'
    BY <1>2 DEF WatchInv, Standard, vars
  <2>2. ASSUME NEW x \in Receiver, Watching(x)', ~SignalOwed(call[x].queue)',
               NEW m \in msgs'[call[x].queue]
        PROVE  Covered(x, m)'
    <3>1. /\ Watching(x) /\ call'[x].queue = call[x].queue
          /\ call'[x].wakeAt = call[x].wakeAt /\ ~SignalOwed(call[x].queue)
      BY <1>2, <2>2
    <3>2. m \in msgs[call[x].queue] /\ call[x].queue \in Queue
      BY <1>1, <1>2, <2>2, <3>1 DEF vars, Watching, QueueNamed
    <3>3. Covered(x, m)
      BY <3>1, <3>2 DEF WatchInv, Watch
    <3>4. cfg' = cfg /\ now' >= now
      BY <1>1, <1>2 DEF vars, TypeOK
    <3> QED
      BY <1>1, <3>1, <3>2, <3>3, <3>4, CoveredStays
  <2> QED
    BY <1>2, <2>1, <2>2 DEF WatchInv, Watch
<1>3. ASSUME NEW r \in Receiver, call[r].pc # "decide",
             call'[r].pc \notin {"decide", "sleep"},
             \A x \in Receiver : x # r => call'[x] = call[x],
             onMap' \subseteq onMap \cup {r}, UNCHANGED <<vars, signals>>
      PROVE  WatchInv'
  <2>1. \A p : SignalOwed(p) => SignalOwed(p)'
    BY <1>3 DEF SignalOwed
  <2>2. \A x \in Receiver : Watching(x)' => x # r /\ Watching(x)
    BY <1>3 DEF Watching
  <2>3. \A x \in Receiver : call'[x].pc = "sleep" => ~call'[x].got
    BY <1>3 DEF WatchInv
  <2> QED
    BY <1>2, <1>3, <2>1, <2>2, <2>3
<1>4. ASSUME NEW r \in Receiver, NEW q, NEW w, NEW o, Begin(r, q, w, o)
      PROVE  WatchInv'
  <2> DEFINE k == [Idle EXCEPT !.pc = "register", !.queue = q, !.override = o,
                    !.deadline = now + WaitOf(q, w)]
  <2>1. call' = [call EXCEPT ![r] = k] /\ k.pc = "register"
    BY <1>4 DEF Begin, Idle
  <2>2. call'[r].pc = "register" /\ \A x \in Receiver : x # r => call'[x] = call[x]
    <3> HIDE DEF k
    <3> QED
      BY <1>1, <2>1 DEF PollTypeOK
  <2>3. call[r].pc = "idle" /\ onMap' \subseteq onMap \cup {r} /\ UNCHANGED <<vars, signals>>
    BY <1>4 DEF Begin
  <2> QED
    BY <1>3, <2>2, <2>3
<1>5. ASSUME NEW r \in Receiver,
             Register(r) \/ CheckMissing(r) \/ ReturnMissing(r) \/ Wake(r)
      PROVE  WatchInv'
  <2>1. call'[r].pc \notin {"decide", "sleep"} /\ \A x \in Receiver : x # r => call'[x] = call[x]
    BY <1>1, <1>5 DEF Register, CheckMissing, ReturnMissing, Wake, PollTypeOK, Call, Idle
  <2>2. call[r].pc # "decide" /\ onMap' \subseteq onMap \cup {r} /\ UNCHANGED <<vars, signals>>
    BY <1>5 DEF Register, CheckMissing, ReturnMissing, Wake, Forget
  <2> QED
    BY <1>3, <2>1, <2>2
<1>6. ASSUME NEW r \in Receiver, Decide(r)
      PROVE  WatchInv'
  <2> DEFINE d == call[r].redriven
  <2>1. /\ call[r].pc = "decide" /\ UNCHANGED <<vars, signals>>
        /\ onMap' \subseteq onMap \ WaitersOn(d)
        /\ \A x \in Receiver : x # r => call'[x] = Signalled(d)[x]
        /\ \/ call'[r].pc = "idle"
           \/ /\ ~call[r].got /\ ~call'[r].got
              /\ call'[r].pc = "sleep"
              /\ call'[r].queue = call[r].queue
              /\ call'[r].wakeAt = call[r].wakeAt
              /\ call'[r].woken = Signalled(d)[r].woken
    BY <1>6, DecideFacts
  <2>2. \A x \in Receiver :
          /\ Signalled(d)[x].pc = call[x].pc
          /\ Signalled(d)[x].got = call[x].got
          /\ Signalled(d)[x].redriven = call[x].redriven
          /\ x \notin WaitersOn(d) => Signalled(d)[x] = call[x]
    BY <1>1, SignalledType
  <2>3. ASSUME NEW x \in Receiver, Watching(x)'
        PROVE  /\ Watching(x)
               /\ call'[x].queue = call[x].queue
               /\ call'[x].wakeAt = call[x].wakeAt
               /\ SignalOwed(call[x].queue) => SignalOwed(call[x].queue)'
    <3>1. x \in onMap /\ x \notin WaitersOn(d) /\ call[x].queue # d
      BY <2>1, <2>3 DEF Watching, WaitersOn
    <3>0. call'[x].queue = call[x].queue
      BY <2>1, <2>2, <2>3, <3>1 DEF Watching
    <3>2. SignalOwed(call[x].queue) => SignalOwed(call[x].queue)'
      <4>1. ASSUME NEW y \in Receiver, call[y].pc = "decide",
                   call[y].redriven = call[x].queue
            PROVE  call'[y].pc = "decide" /\ call'[y].redriven = call[x].queue
        BY <2>1, <2>2, <3>1, <4>1
      <4> QED
        BY <2>1, <3>0, <4>1 DEF SignalOwed
    <3>3. CASE x = r
      BY <2>1, <2>2, <2>3, <3>1, <3>2, <3>3 DEF Watching
    <3>4. CASE x # r
      BY <2>1, <2>2, <2>3, <3>1, <3>2, <3>4 DEF Watching
    <3> QED
      BY <3>3, <3>4
  <2>4. \A x \in Receiver : call'[x].pc = "sleep" => ~call'[x].got
    BY <2>1, <2>2 DEF WatchInv
  <2> QED
    BY <1>2, <2>1, <2>3, <2>4
<1>7. ASSUME NEW q \in Queue, Signal(q)
      PROVE  WatchInv'
  <2>1. /\ call' = Signalled(q) /\ UNCHANGED vars
        /\ onMap' = onMap \ WaitersOn(q)
        /\ \A p \in Queue : p # q => signals'[p] = signals[p]
    BY <1>1, <1>7 DEF Signal, Forget, PollTypeOK
  <2>2. \A x \in Receiver :
          /\ Signalled(q)[x].pc = call[x].pc
          /\ Signalled(q)[x].got = call[x].got
          /\ Signalled(q)[x].redriven = call[x].redriven
          /\ x \notin WaitersOn(q) => Signalled(q)[x] = call[x]
    BY <1>1, SignalledType
  <2>3. ASSUME NEW x \in Receiver, Watching(x)'
        PROVE  /\ Watching(x)
               /\ call'[x].queue = call[x].queue
               /\ call'[x].wakeAt = call[x].wakeAt
               /\ SignalOwed(call[x].queue) => SignalOwed(call[x].queue)'
    <3>1. x \in onMap /\ x \notin WaitersOn(q) /\ call[x].queue # q
      BY <2>1, <2>3 DEF Watching, WaitersOn
    <3>2. call'[x] = call[x] /\ Watching(x)
      BY <2>1, <2>2, <2>3, <3>1 DEF Watching
    <3>3. call[x].queue \in Queue
      BY <1>1, <3>2 DEF Watching, QueueNamed
    <3> QED
      BY <2>1, <2>2, <3>1, <3>2, <3>3 DEF SignalOwed
  <2>4. \A x \in Receiver : call'[x].pc = "sleep" => ~call'[x].got
    BY <2>1, <2>2 DEF WatchInv
  <2> QED
    BY <1>2, <2>1, <2>3, <2>4
<1>8. ASSUME NEW q \in Queue, ForgetDropped(q)
      PROVE  WatchInv'
  <2>1. UNCHANGED <<vars, call, signals>> /\ onMap' \subseteq onMap
    BY <1>8 DEF ForgetDropped, Forget
  <2>2. \A x \in Receiver : Watching(x)' => Watching(x)
    BY <2>1 DEF Watching
  <2>3. \A p : SignalOwed(p) => SignalOwed(p)'
    BY <2>1 DEF SignalOwed
  <2>4. \A x \in Receiver : call'[x].pc = "sleep" => ~call'[x].got
    BY <2>1 DEF WatchInv
  <2> QED
    BY <1>2, <2>1, <2>2, <2>3, <2>4
<1>9. ASSUME UNCHANGED <<call, onMap>>, Standard', now' >= now,
             \A x \in Queue :
               /\ signals[x] > 0 => signals'[x] > 0
               /\ signals'[x] > 0 \/ msgs'[x] \subseteq msgs[x]
               /\ msgs'[x] = {} \/ cfg'[x] = cfg[x]
      PROVE  WatchInv'
  <2>2. ASSUME NEW x \in Receiver, Watching(x)', ~SignalOwed(call[x].queue)',
               NEW m \in msgs'[call[x].queue]
        PROVE  Covered(x, m)'
    <3>1. Watching(x) /\ call[x].queue \in Queue
      BY <1>1, <1>9, <2>2 DEF Watching, QueueNamed
    <3>2. ~SignalOwed(call[x].queue) /\ ~(signals'[call[x].queue] > 0)
      BY <1>9, <2>2, <3>1 DEF SignalOwed
    <3>4. m \in msgs[call[x].queue] /\ cfg'[call[x].queue] = cfg[call[x].queue]
      BY <1>9, <2>2, <3>1, <3>2
    <3>5. Covered(x, m)
      BY <3>1, <3>2, <3>4 DEF WatchInv, Watch
    <3> QED
      BY <1>1, <1>9, <3>1, <3>4, <3>5, CoveredStays
  <2> QED
    BY <1>9, <2>2 DEF WatchInv, Watch
<1>10. ASSUME NEW q \in Queue, Fill(q)
       PROVE  WatchInv'
  <2>1. /\ \A p \in Queue : signals[p] > 0 => signals'[p] > 0
        /\ signals'[q] > 0
    BY <1>1, <1>10 DEF Fill, PollTypeOK
  <2>2. UNCHANGED <<call, onMap>>
    BY <1>10 DEF Fill
  <2>3. /\ \A x \in Queue : x # q => msgs'[x] \subseteq msgs[x]
        /\ UNCHANGED <<live, cfg, now>>
    BY <1>1, <1>10, FillShrinks DEF Fill
  <2>4. Standard' /\ now' >= now
    BY <1>1, <2>3 DEF WatchInv, Standard, TypeOK
  <2> QED
    BY <1>9, <2>1, <2>2, <2>3, <2>4
<1>11. ASSUME NEW q \in Queue, UNCHANGED <<call, onMap, signals>>,
              Define(q) \/ UseHandles(q) \/ Janitor \/ Tick \/ Remove(q)
       PROVE  WatchInv'
  <2>1. /\ \A x \in Queue :
             /\ msgs'[x] \subseteq msgs[x]
             /\ msgs'[x] = {} \/ cfg'[x] = cfg[x]
        /\ now' >= now
        /\ Standard => Standard'
    BY <1>1, <1>11, OthersShrink
  <2> QED
    BY <1>9, <1>11, <2>1 DEF WatchInv
<1>12. CASE Quiet \/ \E q \in Queue : Drop(q)
  <2>1. UNCHANGED <<call, onMap, signals>>
    BY <1>12 DEF Quiet, Drop, pollVars
  <2>2. CASE Queue = {}
    <3>1. ~\E q \in Queue : TRUE
      BY <2>2
    <3>2. Watch'
      BY <1>1, <2>1, <3>1 DEF Watch, Watching, QueueNamed
    <3>3. Standard'
      BY <1>1, <3>1 DEF Standard, TypeOK
    <3> QED
      BY <2>1, <3>2, <3>3 DEF WatchInv
  <2>3. CASE \E q \in Queue : TRUE
    BY <1>11, <1>12, <2>1, <2>3 DEF Quiet, Drop
  <2> QED
    BY <2>2, <2>3
<1>13. CASE UNCHANGED allVars
  <2>1. UNCHANGED <<vars, call, onMap, signals>>
    BY <1>13 DEF allVars, pollVars
  <2>2. \A x \in Receiver : Watching(x)' => Watching(x)
    BY <2>1 DEF Watching
  <2>3. \A p : SignalOwed(p) => SignalOwed(p)'
    BY <2>1 DEF SignalOwed
  <2>4. \A x \in Receiver : call'[x].pc = "sleep" => ~call'[x].got
    BY <2>1 DEF WatchInv
  <2> QED
    BY <1>2, <2>1, <2>2, <2>3, <2>4
<1> QED
  BY <1>4, <1>5, <1>6, <1>7, <1>8, <1>10, <1>12, <1>13, CheckWatch
  DEF PollNext, Step

\* NoLostWakeup for every number of receivers, queues, messages and waits, for
\* standard queues: a receiver never sleeps past the time a message is ready
\* unless the signal for it is on its way, because it registers its channel
\* before it looks at the store.
THEOREM NoWakeupLost ==
  ASSUME StandardOnly
  PROVE  PollSpec => []NoLostWakeup
<1>1. PollInv /\ WatchInv => NoLostWakeup
  <2> SUFFICES ASSUME PollInv, WatchInv, NEW r \in onMap,
                      Asleep(r), call[r].queue \in live, Ready(call[r].queue) # {}
               PROVE  SignalOwed(call[r].queue)
    BY DEF NoLostWakeup
  <2> DEFINE q == call[r].queue
  <2>1. r \in Receiver /\ TypeOK /\ PollTypeOK /\ q \in Queue
    BY DEF PollInv, PollTypeOK, Homes, Keyed, TypeOK
  <2>2. Watching(r)
    BY <2>1 DEF WatchInv, Watching, Asleep
  <2>3. PICK m \in Ready(q) : TRUE
    OBVIOUS
  <2>4. m \in msgs[q] /\ ~Expired(cfg[q], m, now) /\ ~InFlight(m) /\ ~Exhausted(q, m)
    BY <2>3 DEF Ready, Open
  <2>5. m.visible \in Nat /\ now \in Nat /\ call[r].wakeAt \in Nat
    BY <2>1, <2>4 DEF TypeOK, Message, PollTypeOK, Call
  <2>6. ~Covered(r, m)
    <3>1. ~(call[r].wakeAt <= m.visible)
      BY <2>4, <2>5 DEF InFlight, Asleep
    <3> QED
      BY <2>4, <3>1 DEF Covered
  <2> QED
    BY <2>1, <2>2, <2>4, <2>6 DEF WatchInv, Watch
<1>2. PollInv /\ PollInv' /\ WatchInv /\ [PollNext]_allVars => WatchInv'
  BY WatchStep
<1> QED
  BY <1>1, <1>2, WatchInit, PollInvAlways, PTL DEF PollSpec

=============================================================================
