----------------------------- MODULE DataProofs -----------------------------
(***************************************************************************)
(* Proofs about the services that store and pass on data: a secret, an     *)
(* event bus, a log group and a shipper, for every set of requests,        *)
(* versions, events and filters and every value of the bounds.             *)
(***************************************************************************)
EXTENDS MC_Data, StorageProofs, SequenceTheorems

-----------------------------------------------------------------------------
(* Secrets Manager.                                                        *)

Apart ==
  \A u, v \in Versions, stage \in Labels :
    stage \in versions[u].stages /\ stage \in versions[v].stages => u = v

\* A rotation under way has a version to make.
VersionChosen ==
  \A r \in Rotations : rotating[r].step # "idle" => rotating[r].version \in Versions

SecretInv == SecretTypeOK /\ Apart /\ VersionChosen

VersionRecord == [there : BOOLEAN, stages : SUBSET Labels]

\* What AddVersion does to each version's labels.
LEMMA AddedLabels ==
  ASSUME SecretInv, secret.there, NEW v \in Versions, NEW stages \in SUBSET Labels
  PROVE  /\ Added(v, stages) \in [Versions -> VersionRecord]
         /\ Added(v, stages)[v].stages = stages
         /\ Added(v, stages)[v].there
         /\ \A u \in Versions \ {v} :
              /\ Added(v, stages)[u].there = versions[u].there
              /\ \A l \in Labels : l \in Added(v, stages)[u].stages <=>
                   /\ l \notin stages
                   /\ \/ l \in versions[u].stages /\ ~(l = "AWSPREVIOUS" /\ "AWSCURRENT" \in stages)
                      \/ /\ l = "AWSPREVIOUS" /\ "AWSCURRENT" \in stages
                         /\ "AWSCURRENT" \in versions[u].stages
<1>1. versions \in [Versions -> VersionRecord]
  BY DEF SecretInv, SecretTypeOK, VersionRecord
<1> DEFINE L(u) == (IF "AWSCURRENT" \in stages
                    THEN IF "AWSCURRENT" \in versions[u].stages
                         THEN (versions[u].stages \ {"AWSCURRENT"}) \cup {"AWSPREVIOUS"}
                         ELSE versions[u].stages \ {"AWSPREVIOUS"}
                    ELSE versions[u].stages) \ (stages \ {"AWSCURRENT"})
<1>2. Added(v, stages) = [u \in Versions |->
         IF u = v THEN [there |-> TRUE, stages |-> stages]
         ELSE [versions[u] EXCEPT !.stages = L(u)]]
  BY DEF Added
<1>3. \A u \in Versions : L(u) \in SUBSET Labels
  BY <1>1 DEF VersionRecord, Labels
<1>4. \A u \in Versions, l \in Labels : l \in L(u) <=>
                   /\ l \notin stages
                   /\ \/ l \in versions[u].stages /\ ~(l = "AWSPREVIOUS" /\ "AWSCURRENT" \in stages)
                      \/ /\ l = "AWSPREVIOUS" /\ "AWSCURRENT" \in stages
                         /\ "AWSCURRENT" \in versions[u].stages
  BY DEF Labels
<1> HIDE DEF L
<1>5. \A u \in Versions \ {v} : Added(v, stages)[u] \in VersionRecord
        /\ Added(v, stages)[u].there = versions[u].there /\ Added(v, stages)[u].stages = L(u)
  BY <1>1, <1>2, <1>3 DEF VersionRecord
<1>6. Added(v, stages)[v] = [there |-> TRUE, stages |-> stages]
  BY <1>2
<1>7. Added(v, stages) \in [Versions -> VersionRecord]
  <2>1. [there |-> TRUE, stages |-> stages] \in VersionRecord
    BY DEF VersionRecord
  <2>2. \A u \in Versions : Added(v, stages)[u] \in VersionRecord
    BY <1>5, <1>6, <2>1
  <2>3. Added(v, stages) = [u \in Versions |-> Added(v, stages)[u]]
    BY <1>2
  <2> QED
    BY <2>2, <2>3
<1> QED
  BY <1>4, <1>5, <1>6, <1>7

\* What moving a label does.
LEMMA MovedLabels ==
  ASSUME SecretInv, NEW stage \in Labels, NEW to \in Versions
  PROVE  /\ Moved(stage, to) \in [Versions -> VersionRecord]
         /\ \A u \in Versions :
              /\ Moved(stage, to)[u].there = versions[u].there
              /\ \A l \in Labels : l \in Moved(stage, to)[u].stages <=>
                   IF l = stage THEN u = to
                   ELSE IF /\ stage = "AWSCURRENT" /\ Holders(stage) # {}
                           /\ to \notin Holders(stage) /\ l = "AWSPREVIOUS"
                   THEN stage \in versions[u].stages
                   ELSE l \in versions[u].stages
<1>1. versions \in [Versions -> VersionRecord]
  BY DEF SecretInv, SecretTypeOK, VersionRecord
<1> DEFINE held == Holders(stage) \ {to}
           back == stage = "AWSCURRENT" /\ held # {} /\ to \notin Holders(stage)
           kept(u) == IF u = to THEN versions[u].stages \cup {stage} ELSE versions[u].stages \ {stage}
           M(u) == CASE ~back -> kept(u)
                     [] back /\ u \in held -> kept(u) \cup {"AWSPREVIOUS"}
                     [] OTHER -> kept(u) \ {"AWSPREVIOUS"}
<1>2. Moved(stage, to) = [u \in Versions |-> [versions[u] EXCEPT !.stages = M(u)]]
  BY DEF Moved
<1>3. \A u \in Versions : kept(u) \in SUBSET Labels
  BY <1>1 DEF VersionRecord
<1>4. \A u \in Versions : M(u) = IF ~back THEN kept(u)
                                 ELSE IF u \in held THEN kept(u) \cup {"AWSPREVIOUS"}
                                 ELSE kept(u) \ {"AWSPREVIOUS"}
  OBVIOUS
<1>5. \A u \in Versions, l \in Labels : l \in kept(u) <=> IF l = stage THEN u = to ELSE l \in versions[u].stages
  OBVIOUS
<1>6. back <=> stage = "AWSCURRENT" /\ Holders(stage) # {} /\ to \notin Holders(stage)
  OBVIOUS
<1>7. \A u \in Versions : back => (u \in held <=> stage \in versions[u].stages)
  BY DEF Holders
<1> HIDE DEF M, kept, back, held
<1>8. \A u \in Versions : M(u) \in SUBSET Labels
  BY <1>3, <1>4 DEF Labels
<1>9. \A u \in Versions, l \in Labels : l \in M(u) <=>
        IF l = stage THEN u = to
        ELSE IF back /\ l = "AWSPREVIOUS" THEN stage \in versions[u].stages
        ELSE l \in versions[u].stages
  <2>1. back => stage # "AWSPREVIOUS"
    BY <1>6
  <2> QED
    BY <1>4, <1>5, <1>7, <2>1
<1>10. \A u \in Versions : Moved(stage, to)[u] \in VersionRecord
        /\ Moved(stage, to)[u].there = versions[u].there /\ Moved(stage, to)[u].stages = M(u)
  BY <1>1, <1>2, <1>8 DEF VersionRecord
<1>11. Moved(stage, to) = [u \in Versions |-> Moved(stage, to)[u]]
  BY <1>2
<1>12. Moved(stage, to) \in [Versions -> VersionRecord]
  BY <1>10, <1>11
<1> QED
  BY <1>6, <1>9, <1>10, <1>12

\* A secret that was never created.
LEMMA SecretInitInv == SecretInit => SecretInv
<1> SUFFICES ASSUME SecretInit PROVE SecretInv
  OBVIOUS
<1>1. \A v \in Versions : versions[v] = NoVersion /\ NoVersion.stages = {}
  BY DEF SecretInit, NoVersion
<1>2. Apart
  BY <1>1 DEF Apart
<1>3. SecretTypeOK
  <2>1. versions \in [Versions -> [there : BOOLEAN, stages : SUBSET Labels]]
    BY DEF SecretInit, NoVersion
  <2>2. rotating \in [Rotations -> [step : Steps, version : Versions \cup {"none"}]]
    BY DEF SecretInit, NotRotating, Steps
  <2>3. secret \in [there : BOOLEAN, deletedAt : 0..SecretTime, purgeAt : 0..(SecretTime + Recovery),
                    rotated : BOOLEAN]
    BY SecretConstants DEF SecretInit, NoSecret
  <2>4. secretClock \in 1..SecretTime
    BY SecretConstants DEF SecretInit
  <2> QED
    BY <1>1, <2>1, <2>2, <2>3, <2>4 DEF SecretTypeOK
<1>4. VersionChosen
  BY DEF SecretInit, VersionChosen, NotRotating
<1> QED
  BY <1>2, <1>3, <1>4 DEF SecretInv

\* What a step must not do to the labels.
KeepsCurrent ==
  Holders("AWSCURRENT") # {} /\ secret'.there => Holders("AWSCURRENT")' # {}

KeepsWayBack ==
  \A old \in Holders("AWSCURRENT"), new \in Holders("AWSCURRENT")' :
    old # new /\ "AWSPREVIOUS" \notin versions'[new].stages =>
      "AWSPREVIOUS" \in versions'[old].stages

\* Every way the stored versions change: they stay, they go with the secret,
\* a version is added, a label is moved or taken off, the secret is created.
VersionsChange ==
  \/ UNCHANGED versions /\ (secret.there => secret'.there)
  \/ SecretGone
  \/ secret.there /\ secret'.there /\
       \E v \in Versions, stages \in SUBSET Labels :
         ~versions[v].there /\ versions' = Added(v, stages)
  \/ secret.there /\ secret'.there /\
       \E stage \in Labels, to \in Versions :
         versions[to].there /\ versions' = Moved(stage, to)
  \/ secret.there /\ secret'.there /\
       \E stage \in RemovableLabels, from \in Versions :
         versions' = [versions EXCEPT ![from].stages = @ \ {stage}]
  \/ ~secret.there /\ secret'.there /\
       \E v \in Versions : versions' = [versions EXCEPT ![v] = [there |-> TRUE, stages |-> {"AWSCURRENT"}]]

\* The versions stay typed, a label on one of them, and the current value is
\* neither lost nor left without a way back.
LEMMA VersionsKept ==
  ASSUME SecretInv, VersionsChange
  PROVE  /\ versions' \in [Versions -> VersionRecord]
         /\ \A v \in Versions : versions'[v].stages # {} => versions'[v].there /\ secret'.there
         /\ Apart' /\ KeepsCurrent /\ KeepsWayBack
<1>0. SecretTypeOK /\ Apart
  BY DEF SecretInv
<1>1. versions \in [Versions -> VersionRecord]
      /\ \A v \in Versions : versions[v].stages # {} => versions[v].there /\ secret.there
  BY <1>0 DEF SecretTypeOK, VersionRecord
<1>2. CASE UNCHANGED versions /\ (secret.there => secret'.there)
  <2>1. Apart' /\ KeepsCurrent
    BY <1>0, <1>2 DEF Apart, KeepsCurrent, Holders
  <2>2. KeepsWayBack
    BY <1>0, <1>2 DEF Apart, KeepsWayBack, Holders, Labels
  <2> QED
    BY <1>1, <1>2, <2>1, <2>2
<1>3. CASE SecretGone
  <2>1. \A v \in Versions : versions'[v] = NoVersion /\ NoVersion.stages = {} /\ NoVersion \in VersionRecord
    BY <1>3 DEF SecretGone, NoVersion, VersionRecord
  <2>2. versions' \in [Versions -> VersionRecord] /\ ~secret'.there
    BY <1>3, <2>1 DEF SecretGone, NoSecret
  <2> QED
    BY <2>1, <2>2 DEF Apart, KeepsCurrent, KeepsWayBack, Holders
<1>4. CASE secret.there /\ secret'.there /\
           \E v \in Versions, stages \in SUBSET Labels :
             ~versions[v].there /\ versions' = Added(v, stages)
  <2>1. PICK v \in Versions, stages \in SUBSET Labels :
             ~versions[v].there /\ versions' = Added(v, stages)
    BY <1>4
  <2>2. /\ versions' \in [Versions -> VersionRecord]
        /\ versions'[v].stages = stages
        /\ versions'[v].there
        /\ \A u \in Versions \ {v} :
              /\ versions'[u].there = versions[u].there
              /\ \A l \in Labels : l \in versions'[u].stages <=>
                   /\ l \notin stages
                   /\ \/ l \in versions[u].stages /\ ~(l = "AWSPREVIOUS" /\ "AWSCURRENT" \in stages)
                      \/ /\ l = "AWSPREVIOUS" /\ "AWSCURRENT" \in stages
                         /\ "AWSCURRENT" \in versions[u].stages
    BY <1>4, <2>1, AddedLabels
  <2>3. versions[v].stages = {}
    BY <1>1, <2>1
  <2>4. \A u \in Versions : versions'[u].stages # {} => versions'[u].there
    <3> SUFFICES ASSUME NEW u \in Versions \ {v}, versions'[u].stages # {}
                 PROVE  versions'[u].there
      BY <2>2
    <3>1. PICK l \in Labels : l \in versions'[u].stages
      BY <2>2 DEF VersionRecord
    <3>2. versions[u].stages # {}
      BY <2>2, <3>1
    <3> QED
      BY <1>1, <2>2, <3>2
  <2>5. Apart'
    BY <1>0, <2>2 DEF Apart, Labels
  <2>6. KeepsCurrent
    BY <2>2, <2>3 DEF KeepsCurrent, Holders, Labels
  <2>7. KeepsWayBack
    <3> SUFFICES ASSUME NEW old \in Versions, "AWSCURRENT" \in versions[old].stages,
                        NEW new \in Versions, "AWSCURRENT" \in versions'[new].stages,
                        old # new, "AWSPREVIOUS" \notin versions'[new].stages
                 PROVE  "AWSPREVIOUS" \in versions'[old].stages
      BY DEF KeepsWayBack, Holders
    <3>1. "AWSCURRENT" \in Labels /\ "AWSPREVIOUS" \in Labels
      BY DEF Labels
    <3>2. new = v
      BY <1>0, <2>2, <3>1 DEF Apart
    <3> QED
      BY <2>2, <3>1, <3>2
  <2> QED
    BY <1>4, <2>2, <2>4, <2>5, <2>6, <2>7
<1>5. CASE secret.there /\ secret'.there /\
           \E stage \in Labels, to \in Versions :
             versions[to].there /\ versions' = Moved(stage, to)
  <2>1. PICK stage \in Labels, to \in Versions :
             versions[to].there /\ versions' = Moved(stage, to)
    BY <1>5
  <2> DEFINE back == /\ stage = "AWSCURRENT" /\ Holders(stage) # {}
                     /\ to \notin Holders(stage)
  <2>2. /\ versions' \in [Versions -> VersionRecord]
        /\ \A u \in Versions :
              /\ versions'[u].there = versions[u].there
              /\ \A l \in Labels : l \in versions'[u].stages <=>
                   IF l = stage THEN u = to
                   ELSE IF back /\ l = "AWSPREVIOUS" THEN stage \in versions[u].stages
                   ELSE l \in versions[u].stages
    BY <2>1, MovedLabels
  <2>b. back <=> stage = "AWSCURRENT" /\ (\E u \in Versions : stage \in versions[u].stages)
                   /\ stage \notin versions[to].stages
    BY DEF Holders
  <2> HIDE DEF back
  <2>3. \A u \in Versions : versions'[u].stages # {} => versions'[u].there
    <3> SUFFICES ASSUME NEW u \in Versions \ {to}, versions'[u].stages # {}
                 PROVE  versions'[u].there
      BY <2>1, <2>2
    <3>1. PICK l \in Labels : l \in versions'[u].stages
      BY <2>2 DEF VersionRecord
    <3>2. versions[u].stages # {}
      BY <2>2, <3>1
    <3> QED
      BY <1>1, <2>2, <3>2
  <2>4. Apart'
    BY <1>0, <2>1, <2>2 DEF Apart, Labels
  <2>5. KeepsCurrent
    <3>1. "AWSCURRENT" \in Labels
      BY DEF Labels
    <3> QED
      BY <2>1, <2>2, <3>1 DEF KeepsCurrent, Holders
  <2>6. KeepsWayBack
    <3> SUFFICES ASSUME NEW old \in Versions, "AWSCURRENT" \in versions[old].stages,
                        NEW new \in Versions, "AWSCURRENT" \in versions'[new].stages,
                        old # new, "AWSPREVIOUS" \notin versions'[new].stages
                 PROVE  "AWSPREVIOUS" \in versions'[old].stages
      BY DEF KeepsWayBack, Holders
    <3>1. "AWSCURRENT" \in Labels /\ "AWSPREVIOUS" \in Labels
      BY DEF Labels
    <3>2. stage = "AWSCURRENT" /\ new = to
      BY <1>0, <2>2, <3>1 DEF Apart
    <3>3. back
      BY <1>0, <2>b, <3>1, <3>2 DEF Apart
    <3> QED
      BY <2>2, <3>1, <3>2, <3>3
  <2> QED
    BY <1>5, <2>2, <2>3, <2>4, <2>5, <2>6
<1>6. CASE secret.there /\ secret'.there /\
           \E stage \in RemovableLabels, from \in Versions :
             versions' = [versions EXCEPT ![from].stages = @ \ {stage}]
  <2>1. PICK stage \in RemovableLabels, from \in Versions :
             versions' = [versions EXCEPT ![from].stages = @ \ {stage}]
    BY <1>6
  <2>2. /\ versions' \in [Versions -> VersionRecord]
        /\ \A u \in Versions : /\ versions'[u].there = versions[u].there
                               /\ versions'[u].stages \subseteq versions[u].stages
                               /\ "AWSCURRENT" \in versions[u].stages => "AWSCURRENT" \in versions'[u].stages
    BY <1>1, <2>1 DEF VersionRecord, RemovableLabels
  <2>3. Apart'
    BY <1>0, <2>2 DEF Apart
  <2>4. KeepsCurrent
    BY <2>2 DEF KeepsCurrent, Holders
  <2>5. KeepsWayBack
    BY <1>0, <2>2 DEF KeepsWayBack, Holders, Apart, Labels
  <2>6. \A u \in Versions : versions'[u].stages # {} => versions'[u].there
    BY <1>1, <2>2
  <2> QED
    BY <1>6, <2>2, <2>3, <2>4, <2>5, <2>6
<1>7. CASE ~secret.there /\ secret'.there /\
           \E v \in Versions : versions' = [versions EXCEPT ![v] = [there |-> TRUE, stages |-> {"AWSCURRENT"}]]
  <2>1. PICK v \in Versions : versions' = [versions EXCEPT ![v] = [there |-> TRUE, stages |-> {"AWSCURRENT"}]]
    BY <1>7
  <2>2. \A u \in Versions : versions[u].stages = {}
    BY <1>1, <1>7
  <2>3. /\ versions' \in [Versions -> VersionRecord]
        /\ versions'[v] = [there |-> TRUE, stages |-> {"AWSCURRENT"}]
        /\ \A u \in Versions \ {v} : versions'[u].stages = {}
    BY <1>1, <2>1, <2>2 DEF VersionRecord, Labels
  <2> QED
    BY <1>7, <2>2, <2>3 DEF Apart, KeepsCurrent, KeepsWayBack, Holders
<1> QED
  BY <1>2, <1>3, <1>4, <1>5, <1>6, <1>7 DEF VersionsChange

SecretRecord ==
  [there : BOOLEAN, deletedAt : 0..SecretTime, purgeAt : 0..(SecretTime + Recovery),
   rotated : BOOLEAN]

RotationRecord == [step : Steps, version : Versions \cup {"none"}]

\* Every request and every step of a rotation keeps each label on one version
\* at most.
LEMMA SecretStep ==
  ASSUME SecretInv, SecretNext
  PROVE  SecretInv' /\ KeepsCurrent /\ KeepsWayBack
<1>0. SecretTypeOK /\ Apart /\ VersionChosen
  BY DEF SecretInv
<1>1. secret \in SecretRecord /\ rotating \in [Rotations -> RotationRecord]
      /\ secretClock \in 1..SecretTime /\ SecretTime \in Nat /\ Recovery \in Nat
      /\ secretClock + Recovery \in 0..(SecretTime + Recovery) /\ secretClock \in 0..SecretTime
  BY <1>0, SecretConstants DEF SecretTypeOK, SecretRecord, RotationRecord
<1>2. NoSecret \in SecretRecord /\ ~NoSecret.there /\ NotRotating \in RotationRecord
      /\ [NoSecret EXCEPT !.there = TRUE] \in SecretRecord /\ [NoSecret EXCEPT !.there = TRUE].there
  <2>1. 0 \in 0..SecretTime /\ 0 \in 0..(SecretTime + Recovery)
    BY <1>1
  <2>2. NoSecret \in SecretRecord /\ ~NoSecret.there
    BY <2>1 DEF NoSecret, SecretRecord
  <2>3. [NoSecret EXCEPT !.there = TRUE] \in SecretRecord /\ [NoSecret EXCEPT !.there = TRUE].there
    BY <2>1 DEF NoSecret, SecretRecord
  <2>4. NotRotating \in RotationRecord
    BY DEF NotRotating, RotationRecord, Steps
  <2> QED
    BY <2>2, <2>3, <2>4
<1>3. ASSUME VersionsChange, secret' \in SecretRecord, rotating' \in [Rotations -> RotationRecord],
             secretClock' \in 1..SecretTime, VersionChosen'
      PROVE  SecretInv' /\ KeepsCurrent /\ KeepsWayBack
  <2>1. /\ versions' \in [Versions -> VersionRecord]
        /\ \A v \in Versions : versions'[v].stages # {} => versions'[v].there /\ secret'.there
        /\ Apart' /\ KeepsCurrent /\ KeepsWayBack
    BY <1>3, VersionsKept
  <2>2. SecretTypeOK'
    BY <1>3, <2>1 DEF SecretTypeOK, SecretRecord, RotationRecord, VersionRecord
  <2> QED
    BY <1>3, <2>1, <2>2 DEF SecretInv
<1>u. UNCHANGED rotating => VersionChosen'
  BY <1>0 DEF VersionChosen
<1>4. ASSUME NEW v \in Versions, NEW valued \in BOOLEAN, CreateSecret(v, valued)
      PROVE  SecretInv' /\ KeepsCurrent /\ KeepsWayBack
  <2>1. secret' \in SecretRecord /\ secret'.there /\ ~secret.there /\ UNCHANGED <<rotating, secretClock>>
    BY <1>2, <1>4 DEF CreateSecret
  <2>2. VersionsChange
    <3>1. CASE valued
      BY <1>4, <2>1, <3>1 DEF CreateSecret, VersionsChange
    <3>2. CASE ~valued
      BY <1>4, <2>1, <3>2 DEF CreateSecret, VersionsChange
    <3> QED
      BY <3>1, <3>2
  <2> QED
    BY <1>1, <1>3, <1>u, <2>1, <2>2
<1>5. ASSUME NEW v \in Versions, NEW stages \in SUBSET Labels \ {{}}, PutSecretValue(v, stages)
      PROVE  SecretInv' /\ KeepsCurrent /\ KeepsWayBack
  <2>1. VersionsChange
    BY <1>5 DEF PutSecretValue, Usable, VersionsChange
  <2> QED
    BY <1>1, <1>3, <1>u, <1>5, <2>1 DEF PutSecretValue
<1>6. ASSUME NEW stage \in Labels, NEW to \in Versions, NEW from,
             UpdateSecretVersionStage(stage, to, from)
      PROVE  SecretInv' /\ KeepsCurrent /\ KeepsWayBack
  <2>1. VersionsChange
    BY <1>6 DEF UpdateSecretVersionStage, MayMove, VersionsChange
  <2> QED
    BY <1>1, <1>3, <1>u, <1>6, <2>1 DEF UpdateSecretVersionStage
<1>7. ASSUME NEW stage \in Labels, NEW from \in Versions, RemoveVersionStage(stage, from)
      PROVE  SecretInv' /\ KeepsCurrent /\ KeepsWayBack
  <2>1. VersionsChange
    BY <1>7 DEF RemoveVersionStage, VersionsChange
  <2> QED
    BY <1>1, <1>3, <1>u, <1>7, <2>1 DEF RemoveVersionStage
<1>8. ASSUME SecretGone, UNCHANGED <<rotating, secretClock>>
      PROVE  SecretInv' /\ KeepsCurrent /\ KeepsWayBack
  <2>1. VersionsChange /\ secret' \in SecretRecord
    BY <1>2, <1>8 DEF SecretGone, VersionsChange
  <2> QED
    BY <1>1, <1>3, <1>u, <1>8, <2>1
<1>9. ASSUME NEW s \in SecretRecord, s.there = secret.there, secret' = s,
             UNCHANGED versions,
             rotating' \in [Rotations -> RotationRecord], secretClock' \in 1..SecretTime, VersionChosen'
      PROVE  SecretInv' /\ KeepsCurrent /\ KeepsWayBack
  <2>1. VersionsChange
    BY <1>9 DEF VersionsChange
  <2> QED
    BY <1>3, <1>9, <2>1
<1>10. ASSUME NEW force \in BOOLEAN, DeleteSecret(force)
       PROVE  SecretInv' /\ KeepsCurrent /\ KeepsWayBack
  <2>1. CASE force
    BY <1>8, <1>10, <2>1 DEF DeleteSecret
  <2>2. CASE ~force
    <3> DEFINE s == [secret EXCEPT !.deletedAt = secretClock, !.purgeAt = secretClock + Recovery]
    <3>1. secret' = s /\ UNCHANGED <<versions, rotating, secretClock>>
      BY <1>10, <2>2 DEF DeleteSecret
    <3>2. s \in SecretRecord /\ s.there = secret.there
      BY <1>1 DEF SecretRecord
    <3> HIDE DEF s
    <3> QED
      BY <1>1, <1>9, <1>u, <3>1, <3>2
  <2> QED
    BY <2>1, <2>2
<1>11. CASE RestoreSecret
  <2>1. Restored \in SecretRecord /\ Restored.there = secret.there
    <3>1. 0 \in 0..SecretTime /\ 0 \in 0..(SecretTime + Recovery)
      BY <1>1
    <3> QED
      BY <1>1, <3>1 DEF Restored, SecretRecord
  <2> QED
    BY <1>1, <1>9, <1>u, <1>11, <2>1 DEF RestoreSecret
<1>12. CASE PurgeSecret
  BY <1>8, <1>12 DEF PurgeSecret
<1>13. CASE CancelRotateSecret
  <2> DEFINE s == [secret EXCEPT !.rotated = FALSE]
  <2>1. s \in SecretRecord /\ s.there = secret.there
    BY <1>1 DEF SecretRecord
  <2>2. secret' = s /\ UNCHANGED <<versions, rotating, secretClock>>
    BY <1>13 DEF CancelRotateSecret
  <2> HIDE DEF s
  <2> QED
    BY <1>1, <1>9, <1>u, <2>1, <2>2
<1>14. CASE SecretTick
  <2>1. UNCHANGED <<secret, versions, rotating>> /\ secretClock' \in 1..SecretTime
    BY <1>1, <1>14 DEF SecretTick
  <2> QED
    BY <1>1, <1>9, <1>u, <2>1
<1>15. ASSUME NEW r \in Rotations, NEW st \in Steps, rotating' = [rotating EXCEPT ![r].step = st],
              rotating[r].step # "idle"
       PROVE  rotating' \in [Rotations -> RotationRecord] /\ VersionChosen'
  BY <1>0, <1>1, <1>15 DEF RotationRecord, VersionChosen
<1>16. ASSUME NEW r \in Rotations, NEW x \in RotationRecord, rotating' = [rotating EXCEPT ![r] = x],
              x.step # "idle" => x.version \in Versions
       PROVE  rotating' \in [Rotations -> RotationRecord] /\ VersionChosen'
  BY <1>0, <1>1, <1>16 DEF VersionChosen
<1>17. ASSUME NEW r \in Rotations, NEW v \in Versions, RotateSecret(r, v)
       PROVE  SecretInv' /\ KeepsCurrent /\ KeepsWayBack
  <2>1. [step |-> "createSecret", version |-> v] \in RotationRecord
    BY DEF RotationRecord, Steps
  <2>2. rotating' \in [Rotations -> RotationRecord] /\ VersionChosen'
    BY <1>16, <1>17, <2>1 DEF RotateSecret
  <2> QED
    BY <1>1, <1>9, <1>17, <2>2 DEF RotateSecret
<1>18. ASSUME NEW r \in Rotations, RotationCreates(r) PROVE SecretInv' /\ KeepsCurrent /\ KeepsWayBack
  <2>1. rotating' \in [Rotations -> RotationRecord] /\ VersionChosen'
    BY <1>15, <1>18 DEF RotationCreates, GoesOn, Steps
  <2>2. CASE UNCHANGED versions
    BY <1>1, <1>9, <1>18, <2>1, <2>2 DEF RotationCreates
  <2>3. CASE /\ ~versions[rotating[r].version].there
             /\ versions' = Added(rotating[r].version, {"AWSPENDING"})
    <3>1. rotating[r].version \in Versions
      BY <1>0, <1>18 DEF RotationCreates, VersionChosen
    <3>2. VersionsChange
      BY <1>18, <2>3, <3>1 DEF RotationCreates, Usable, VersionsChange, Labels
    <3> QED
      BY <1>1, <1>3, <1>18, <2>1, <3>2 DEF RotationCreates
  <2> QED
    BY <1>18, <2>2, <2>3 DEF RotationCreates
<1>19. ASSUME NEW r \in Rotations, RotationTests(r) PROVE SecretInv' /\ KeepsCurrent /\ KeepsWayBack
  <2>1. rotating' \in [Rotations -> RotationRecord] /\ VersionChosen'
    BY <1>15, <1>19 DEF RotationTests, GoesOn, Steps
  <2> QED
    BY <1>1, <1>9, <1>19, <2>1 DEF RotationTests
<1>20. ASSUME NEW r \in Rotations, RotationFinishes(r) PROVE SecretInv' /\ KeepsCurrent /\ KeepsWayBack
  <2>1. rotating' \in [Rotations -> RotationRecord] /\ VersionChosen'
    BY <1>15, <1>20 DEF RotationFinishes, GoesOn, Steps
  <2>2. rotating[r].version \in Versions
    BY <1>0, <1>20 DEF RotationFinishes, VersionChosen
  <2>3. VersionsChange
    BY <1>20, <2>2 DEF RotationFinishes, MayMove, VersionsChange, Labels
  <2> QED
    BY <1>1, <1>3, <1>20, <2>1, <2>3 DEF RotationFinishes
<1>21. ASSUME NEW r \in Rotations, RotationFails(r) PROVE SecretInv' /\ KeepsCurrent /\ KeepsWayBack
  <2>1. rotating' \in [Rotations -> RotationRecord] /\ VersionChosen'
    BY <1>2, <1>16, <1>21 DEF RotationFails, Ends, NotRotating
  <2> QED
    BY <1>1, <1>9, <1>21, <2>1 DEF RotationFails
<1>22. ASSUME NEW r \in Rotations, RotationMarks(r) PROVE SecretInv' /\ KeepsCurrent /\ KeepsWayBack
  <2>1. rotating' \in [Rotations -> RotationRecord] /\ VersionChosen'
    BY <1>2, <1>16, <1>22 DEF RotationMarks, Ends, NotRotating
  <2>2. secret' \in SecretRecord /\ secret'.there = secret.there
    <3>1. [secret EXCEPT !.rotated = TRUE] \in SecretRecord
          /\ [secret EXCEPT !.rotated = TRUE].there = secret.there
      BY <1>1 DEF SecretRecord
    <3> QED
      BY <1>1, <1>22, <3>1 DEF RotationMarks
  <2> QED
    BY <1>1, <1>9, <1>22, <2>1, <2>2 DEF RotationMarks
<1> QED
  BY <1>4, <1>5, <1>6, <1>7, <1>10, <1>11, <1>12, <1>13, <1>14, <1>17, <1>18, <1>19, <1>20,
     <1>21, <1>22 DEF SecretNext

\* A step elsewhere.
LEMMA SecretStutter == SecretInv /\ UNCHANGED secretVars => SecretInv'
  BY DEF secretVars, SecretInv, SecretTypeOK, Apart, VersionChosen

\* SecretTypeOK for every set of versions and rotations.
THEOREM SecretTyped == SecretSpec => []SecretTypeOK
<1>1. SecretInv /\ [SecretNext]_secretVars => SecretInv'
  BY SecretStep, SecretStutter
<1>2. SecretInv => SecretTypeOK
  BY DEF SecretInv
<1> QED
  BY <1>1, <1>2, SecretInitInv, PTL DEF SecretSpec

\* OneVersionPerLabel for every set of versions and rotations: AddVersion and
\* MoveLabel (secretsmanager) never leave AWSCURRENT or AWSPENDING on two
\* versions, however rotations and puts interleave.
THEOREM LabelNamesOne == SecretSpec => []OneVersionPerLabel
<1>1. SecretInv /\ [SecretNext]_secretVars => SecretInv'
  BY SecretStep, SecretStutter
<1>2. SecretInv => OneVersionPerLabel
  <2> SUFFICES ASSUME SecretInv, NEW stage \in Labels PROVE Cardinality(Holders(stage)) <= 1
    BY DEF OneVersionPerLabel
  <2>1. CASE Holders(stage) = {}
    BY <2>1, FS_EmptySet
  <2>2. CASE Holders(stage) # {}
    <3>1. PICK v \in Versions : Holders(stage) = {v}
      BY <2>2 DEF SecretInv, Apart, Holders
    <3> QED
      BY <3>1, FS_Singleton
  <2> QED
    BY <2>1, <2>2
<1> QED
  BY <1>1, <1>2, SecretInitInv, PTL DEF SecretSpec

\* LabelsHandedOver for every set of versions and rotations: when AWSCURRENT
\* moves, AWSPREVIOUS goes to the version it left.
THEOREM LabelsPassedOn == SecretSpec => LabelsHandedOver
<1>1. SecretInv /\ [SecretNext]_secretVars => SecretInv'
  BY SecretStep, SecretStutter
<1>2. SecretInv /\ [SecretNext]_secretVars => [KeepsCurrent /\ KeepsWayBack]_secretVars
  BY SecretStep
<1>3. SecretSpec => [][KeepsCurrent /\ KeepsWayBack]_secretVars
  BY <1>1, <1>2, SecretInitInv, PTL DEF SecretSpec
<1>4. [KeepsCurrent /\ KeepsWayBack]_secretVars =>
        /\ [Holders("AWSCURRENT") # {} /\ secret'.there =>
              Holders("AWSCURRENT")' # {}]_secretVars
        /\ [\A old \in Holders("AWSCURRENT"), new \in Holders("AWSCURRENT")' :
              old # new /\ "AWSPREVIOUS" \notin versions'[new].stages =>
                "AWSPREVIOUS" \in versions'[old].stages]_secretVars
  BY DEF KeepsCurrent, KeepsWayBack
<1> QED
  BY <1>3, <1>4, PTL DEF LabelsHandedOver, CurrentStays, RollbackPossible

-----------------------------------------------------------------------------
(* EventBridge.                                                            *)

PuttingRecord ==
  [at : {"idle", "calls", "capture", "append", "done"}, calls : SUBSET RuleTargets]

ReplayingRecord ==
  [at : {"idle", "walk", "record", "done"}, name : ReplayNames \cup {"none"},
   left : Seq(Entries), calls : SUBSET (RuleTargets \X Entries)]

OnceIn(s) == \A i, j \in DOMAIN s : s[i] = s[j] => i = j

\* What was sent, and what is going to be sent in the background.
SentTyped == sending \in [Passes -> Nat] /\ got \in [Passes -> Nat]

\* The deliveries of a pass, made and still possible, and the most there may be.
spent == [x \in Passes |-> got[x] + sending[x]]

Share(t) == IF t \in HttpTargets THEN Attempts ELSE 1

EventShape ==
  /\ archived \in Seq(Entries)
  /\ putting \in [Entries -> PuttingRecord]
  /\ replaying \in [Replays -> ReplayingRecord]
  /\ SentTyped

\* The first pass of an entry: what is still to be called was not yet, and
\* only then is the event archived.
FirstPass ==
  /\ \A e \in Entries :
       /\ putting[e].at # "calls" => putting[e].calls = {}
       /\ \A t \in RuleTargets :
            /\ spent[<<t, e, e>>] <= Share(t)
            /\ putting[e].at = "idle" \/ t \in putting[e].calls => spent[<<t, e, e>>] = 0
  /\ \A t \in RuleTargets, e, v \in Entries : v # e => spent[<<t, e, v>>] = 0
  /\ \A i \in DOMAIN archived : putting[archived[i]].at = "done"

\* A replay: what is left of its snapshot and what it is about to call was
\* neither sent by it nor is it still in its first pass.
LaterPass ==
  \A r \in Replays :
    /\ replaying[r].at = "idle" => replaying[r].calls = {}
    /\ OnceIn(replaying[r].left)
    /\ \A i \in DOMAIN replaying[r].left :
         /\ putting[replaying[r].left[i]].at = "done"
         /\ \A t \in RuleTargets :
              /\ spent[<<t, replaying[r].left[i], r>>] = 0
              /\ <<t, replaying[r].left[i]>> \notin replaying[r].calls
    /\ \A t \in RuleTargets, e \in Entries :
         /\ spent[<<t, e, r>>] <= Share(t)
         /\ spent[<<t, e, r>>] > 0 \/ <<t, e>> \in replaying[r].calls => putting[e].at = "done"
         /\ replaying[r].at = "idle" \/ <<t, e>> \in replaying[r].calls => spent[<<t, e, r>>] = 0

EventInv == EventTypeOK /\ EventShape /\ FirstPass /\ LaterPass

\* The share of a target.
LEMMA Shares == \A t \in RuleTargets : Share(t) \in Nat \ {0}
  BY DEF Share, Attempts

\* A bus that has had no events.
LEMMA EventInitInv == EventInit => EventInv
<1> SUFFICES ASSUME EventInit PROVE EventInv
  OBVIOUS
<1>1. \A e \in Entries : putting[e] = [at |-> "idle", calls |-> {}]
  BY DEF EventInit
<1>2. \A r \in Replays : replaying[r] = NotReplaying
  BY DEF EventInit
<1>3. archived = <<>> /\ DOMAIN archived = {} /\ archived \in Seq(Entries)
  BY DEF EventInit
<1>9. SentTyped /\ \A x \in Passes : got[x] = 0 /\ sending[x] = 0
  BY DEF EventInit, SentTyped
<1>4. \A t \in RuleTargets, e \in Entries, v \in Entries \cup Replays : spent[<<t, e, v>>] = 0
  BY <1>9 DEF spent, Passes
<1>5. EventTypeOK
  <2>1. archive \in [there : BOOLEAN, born : 0..MaxArchives]
    BY EventConstants DEF EventInit
  <2> QED
    BY <1>1, <1>2, <1>3, <1>9, <2>1 DEF EventInit, EventTypeOK, NotReplaying, SentTyped
<1>6. EventShape
  <2>1. putting \in [Entries -> PuttingRecord]
    BY DEF EventInit, PuttingRecord
  <2>2. NotReplaying \in ReplayingRecord
    BY DEF NotReplaying, ReplayingRecord
  <2>3. replaying \in [Replays -> ReplayingRecord]
    BY <2>2 DEF EventInit
  <2> QED
    BY <1>3, <1>9, <2>1, <2>3 DEF EventShape
<1>7. FirstPass
  BY <1>1, <1>3, <1>4, Shares DEF FirstPass
<1>8. LaterPass
  <2>1. \A r \in Replays : replaying[r].left = <<>> /\ replaying[r].calls = {} /\ DOMAIN replaying[r].left = {}
    BY <1>2 DEF NotReplaying
  <2> QED
    BY <1>4, <2>1, Shares DEF LaterPass, OnceIn
<1> QED
  BY <1>5, <1>6, <1>7, <1>8 DEF EventInv

\* What a pass has spent is a number, and the same as long as nothing is sent.
LEMMA SpentIs ==
  ASSUME SentTyped
  PROVE  /\ spent \in [Passes -> Nat]
         /\ \A x \in Passes : spent[x] = got[x] + sending[x]
  BY DEF SentTyped, spent

LEMMA SpentSame ==
  ASSUME UNCHANGED <<sending, got>>
  PROVE  UNCHANGED spent /\ (SentTyped => SentTyped')
  BY DEF SentTyped, spent

\* A request that reaches the target or does not, at x alone.
LEMMA ReachesCounts ==
  ASSUME got \in [Passes -> Nat], NEW x \in Passes, Reaches(x)
  PROVE  /\ got' \in [Passes -> Nat] /\ got'[x] \in {got[x], got[x] + 1}
         /\ \A y \in Passes : y # x => got'[y] = got[y]
  BY DEF Reaches

\* A call spends its share at most, for its own target, event and pass.
LEMMA CalledCounts ==
  ASSUME EventShape, NEW t \in RuleTargets, NEW e \in Entries, NEW via \in Entries \cup Replays,
         Called(t, e, via)
  PROVE  /\ SentTyped' /\ spent' \in [Passes -> Nat]
         /\ spent'[<<t, e, via>>] <= spent[<<t, e, via>>] + Share(t)
         /\ \A t2 \in RuleTargets, e2 \in Entries, v2 \in Entries \cup Replays :
              t2 # t \/ e2 # e \/ v2 # via => spent'[<<t2, e2, v2>>] = spent[<<t2, e2, v2>>]
<1> DEFINE x == <<t, e, via>>
<1>1. x \in Passes /\ SentTyped
  BY DEF EventShape, Passes
<1>2. \A t2 \in RuleTargets, e2 \in Entries, v2 \in Entries \cup Replays :
        <<t2, e2, v2>> \in Passes /\ (t2 # t \/ e2 # e \/ v2 # via => <<t2, e2, v2>> # x)
  BY DEF Passes
<1>3. \/ t \notin HttpTargets /\ Reaches(x) /\ UNCHANGED sending
      \/ t \in HttpTargets /\ dispatchAPIDestination(x)
  BY DEF Called
<1> HIDE DEF x
<1>4. /\ SentTyped' /\ got'[x] + sending'[x] <= got[x] + sending[x] + Share(t)
      /\ \A y \in Passes : y # x => got'[y] = got[y] /\ sending'[y] = sending[y]
  <2>1. CASE t \notin HttpTargets /\ Reaches(x) /\ UNCHANGED sending
    <3>1. /\ got' \in [Passes -> Nat] /\ got'[x] \in {got[x], got[x] + 1}
          /\ \A y \in Passes : y # x => got'[y] = got[y]
      BY <1>1, <2>1, ReachesCounts DEF SentTyped
    <3> QED
      BY <1>1, <2>1, <3>1 DEF SentTyped, Share
  <2>2. CASE t \in HttpTargets /\ dispatchAPIDestination(x)
    BY <1>1, <2>2 DEF SentTyped, Share, Attempts, dispatchAPIDestination
  <2> QED
    BY <1>3, <2>1, <2>2
<1>5. /\ spent' \in [Passes -> Nat]
      /\ \A y \in Passes : spent'[y] = got'[y] + sending'[y] /\ spent[y] = got[y] + sending[y]
  BY <1>1, <1>4 DEF SentTyped, spent
<1>6. spent'[x] <= spent[x] + Share(t) /\ \A y \in Passes : y # x => spent'[y] = spent[y]
  BY <1>1, <1>4, <1>5
<1> QED
  BY <1>2, <1>4, <1>5, <1>6 DEF x

\* An attempt of deliverHTTP spends what was put aside for it.
LEMMA DeliverCounts ==
  ASSUME SentTyped, NEW x \in Passes, deliverHTTP(x)
  PROVE  /\ SentTyped' /\ spent' \in [Passes -> Nat]
         /\ \A y \in Passes : spent'[y] <= spent[y]
<1>1. /\ got' \in [Passes -> Nat] /\ got'[x] \in {got[x], got[x] + 1}
      /\ \A y \in Passes : y # x => got'[y] = got[y]
  BY ReachesCounts DEF SentTyped, deliverHTTP
<1>2. /\ sending' \in [Passes -> Nat] /\ sending[x] > 0 /\ sending'[x] \in {0, sending[x] - 1}
      /\ \A y \in Passes : y # x => sending'[y] = sending[y]
  BY DEF SentTyped, deliverHTTP
<1>3. /\ spent' \in [Passes -> Nat]
      /\ \A y \in Passes : spent'[y] = got'[y] + sending'[y] /\ spent[y] = got[y] + sending[y]
  BY <1>1, <1>2 DEF SentTyped, spent
<1>4. ASSUME NEW y \in Passes PROVE spent'[y] <= spent[y]
  <2>1. /\ got[y] \in Nat /\ sending[y] \in Nat /\ got'[y] \in Nat /\ sending'[y] \in Nat
        /\ got[x] \in Nat /\ sending[x] \in Nat
    BY <1>1, <1>2 DEF SentTyped
  <2> QED
    BY <1>1, <1>2, <1>3, <2>1
<1> QED
  BY <1>1, <1>2, <1>3, <1>4 DEF SentTyped

\* Rules and archives.
LEMMA ConfigStep ==
  ASSUME EventInv,
         \/ PutRule \/ EnableDisableRule \/ DeleteRule
         \/ \E t \in RuleTargets : PutTargets(t) \/ RemoveTargets(t)
         \/ CreateArchive \/ DeleteArchive
  PROVE  EventInv'
<1>0. EventTypeOK /\ EventShape /\ FirstPass /\ LaterPass
  BY DEF EventInv
<1>1. UNCHANGED <<putting, replaying, spent, sending, got>>
  BY SpentSame DEF PutRule, EnableDisableRule, DeleteRule, PutTargets, RemoveTargets, CreateArchive, DeleteArchive
<1>2. LaterPass'
  BY <1>0, <1>1 DEF LaterPass, OnceIn
<1>3. archived' \in {archived, <<>>} /\ (~archive'.there => archived' = <<>>)
  BY <1>0 DEF EventTypeOK, PutRule, EnableDisableRule, DeleteRule, PutTargets, RemoveTargets,
              CreateArchive, DeleteArchive
<1>4. <<>> \in Seq(Entries) /\ DOMAIN <<>> = {}
  OBVIOUS
<1>5. EventShape' /\ FirstPass'
  <2>1. EventShape'
    BY <1>0, <1>1, <1>3, <1>4 DEF EventShape, SentTyped
  <2>2. FirstPass'
    BY <1>0, <1>1, <1>3, <1>4 DEF FirstPass
  <2> QED
    BY <2>1, <2>2
<1>6. EventTypeOK'
  <2>1. evRule' \in [there : BOOLEAN, enabled : BOOLEAN, targets : SUBSET RuleTargets]
    <3>1. evRule \in [there : BOOLEAN, enabled : BOOLEAN, targets : SUBSET RuleTargets]
      BY <1>0 DEF EventTypeOK
    <3>2. CASE PutRule \/ EnableDisableRule
      BY <3>1, <3>2 DEF PutRule, EnableDisableRule
    <3>3. CASE DeleteRule
      BY <3>3 DEF DeleteRule
    <3>4. CASE \E t \in RuleTargets : PutTargets(t) \/ RemoveTargets(t)
      BY <3>1, <3>4 DEF PutTargets, RemoveTargets
    <3>5. CASE CreateArchive \/ DeleteArchive
      BY <3>1, <3>5 DEF CreateArchive, DeleteArchive
    <3> QED
      BY <3>2, <3>3, <3>4, <3>5
  <2>2. archive' \in [there : BOOLEAN, born : 0..MaxArchives]
    <3>1. CASE UNCHANGED archive
      BY <1>0, <3>1 DEF EventTypeOK
    <3>2. CASE CreateArchive
      <4>1. archive.born + 1 \in 0..MaxArchives
        BY <1>0, <3>2, EventConstants DEF EventTypeOK, CreateArchive
      <4> QED
        BY <3>2, <4>1 DEF CreateArchive
    <3>3. CASE DeleteArchive
      BY <1>0, <3>3 DEF EventTypeOK, DeleteArchive
    <3> QED
      BY <3>1, <3>2, <3>3 DEF PutRule, EnableDisableRule, DeleteRule, PutTargets, RemoveTargets
  <2>3. \A i, j \in DOMAIN archived' : archived'[i] = archived'[j] => i = j
    BY <1>0, <1>3, <1>4 DEF EventTypeOK
  <2> QED
    BY <1>0, <1>1, <1>3, <2>1, <2>2, <2>3 DEF EventTypeOK
<1> QED
  BY <1>2, <1>5, <1>6 DEF EventInv

\* The steps of a PutEvents entry.
LEMMA EntryStep ==
  ASSUME EventInv, NEW e \in Entries, PutEvents(e) \/ EntryNext(e)
  PROVE  EventInv'
<1>0. EventTypeOK /\ EventShape /\ FirstPass /\ LaterPass
  BY DEF EventInv
<1>1. putting[e] \in PuttingRecord /\ e \notin Replays
  BY <1>0, EventConstants DEF EventShape
<1>2. UNCHANGED <<evRule, archive, replaying>>
  BY DEF PutEvents, EntryNext, CallTarget, Capture, AppendEvent
<1>3. Matched \subseteq RuleTargets
  BY <1>0 DEF Matched, EventTypeOK
\* The entry moves on, and what is in its place afterwards.
<1>4. ASSUME NEW k \in PuttingRecord, putting' = [putting EXCEPT ![e] = k]
      PROVE  /\ putting' \in [Entries -> PuttingRecord] /\ putting'[e] = k
             /\ \A d \in Entries \ {e} : putting'[d] = putting[d]
  BY <1>0, <1>4 DEF EventShape
<1>5. ASSUME NEW k \in PuttingRecord, putting' = [putting EXCEPT ![e] = k],
             putting[e].at # "done", UNCHANGED archived,
             SentTyped',
             \A t \in RuleTargets, d \in Entries, v \in Entries \cup Replays :
               d # e \/ v # e => spent'[<<t, d, v>>] = spent[<<t, d, v>>],
             k.at # "calls" => k.calls = {},
             \A t \in RuleTargets :
               spent'[<<t, e, e>>] <= Share(t) /\ (k.at = "idle" \/ t \in k.calls => spent'[<<t, e, e>>] = 0)
      PROVE  EventInv'
  <2>1. /\ putting' \in [Entries -> PuttingRecord] /\ putting'[e] = k
        /\ \A d \in Entries \ {e} : putting'[d] = putting[d]
    BY <1>4, <1>5
  <2>2. EventShape'
    BY <1>0, <1>2, <1>5, <2>1 DEF EventShape
  <2>3. \A d \in Entries : putting[d].at = "done" => putting'[d].at = "done"
    BY <1>5, <2>1
  <2>4. FirstPass'
    <3>1. \A d \in Entries :
            /\ putting'[d].at # "calls" => putting'[d].calls = {}
            /\ \A t \in RuleTargets :
                 /\ spent'[<<t, d, d>>] <= Share(t)
                 /\ putting'[d].at = "idle" \/ t \in putting'[d].calls => spent'[<<t, d, d>>] = 0
      BY <1>0, <1>5, <2>1 DEF FirstPass
    <3>2. \A i \in DOMAIN archived' : putting'[archived'[i]].at = "done"
      BY <1>0, <1>5, <2>3 DEF FirstPass, EventShape
    <3>3. \A t \in RuleTargets, d, v \in Entries : v # d => spent'[<<t, d, v>>] = 0
      BY <1>0, <1>5 DEF FirstPass
    <3> QED
      BY <3>1, <3>2, <3>3 DEF FirstPass
  <2>5. LaterPass'
    <3>1. \A t \in RuleTargets, d \in Entries, r \in Replays : spent'[<<t, d, r>>] = spent[<<t, d, r>>]
      BY <1>1, <1>5
    <3>2. \A r \in Replays : replaying[r].left \in Seq(Entries)
      BY <1>0 DEF EventShape, ReplayingRecord
    <3>3. \A r \in Replays : \A i \in DOMAIN replaying[r].left : replaying[r].left[i] \in Entries
      BY <3>2
    <3> QED
      BY <1>0, <1>2, <2>3, <3>1, <3>3 DEF LaterPass, OnceIn
  <2>6. EventTypeOK'
    BY <1>0, <1>2, <1>5, <2>1 DEF EventTypeOK, PuttingRecord, SentTyped
  <2> QED
    BY <2>2, <2>4, <2>5, <2>6 DEF EventInv
<1>6. CASE PutEvents(e)
  <2> DEFINE k == [at |-> "calls", calls |-> Matched]
  <2>1. k \in PuttingRecord /\ k.at = "calls"
    BY <1>3 DEF PuttingRecord
  <2>2. \A t \in RuleTargets : spent[<<t, e, e>>] = 0
    BY <1>0, <1>6 DEF FirstPass, PutEvents
  <2>3. SentTyped' /\ UNCHANGED spent
    BY <1>0, <1>6, SpentSame DEF EventShape, PutEvents
  <2>4. putting' = [putting EXCEPT ![e] = k] /\ putting[e].at = "idle" /\ UNCHANGED archived
    BY <1>6 DEF PutEvents
  <2> HIDE DEF k
  <2>5. spent' = spent /\ \A t \in RuleTargets : spent'[<<t, e, e>>] <= Share(t) /\ spent'[<<t, e, e>>] = 0
    BY <2>2, <2>3, Shares
  <2> QED
    BY <1>5, <2>1, <2>3, <2>4, <2>5
<1>7. ASSUME NEW t \in RuleTargets, CallTarget(e, t) PROVE EventInv'
  <2> DEFINE k == [putting[e] EXCEPT !.calls = @ \ {t}]
  <2>1. k \in PuttingRecord /\ k.at = putting[e].at /\ k.calls = putting[e].calls \ {t}
    BY <1>1 DEF PuttingRecord
  <2>2. putting[e].at = "calls" /\ t \in putting[e].calls /\ UNCHANGED archived /\ Called(t, e, e)
        /\ putting' = [putting EXCEPT ![e] = k]
    BY <1>7 DEF CallTarget
  <2> HIDE DEF k
  <2>3. /\ SentTyped' /\ spent' \in [Passes -> Nat]
        /\ spent'[<<t, e, e>>] <= spent[<<t, e, e>>] + Share(t)
        /\ \A t2 \in RuleTargets, e2 \in Entries, v2 \in Entries \cup Replays :
             t2 # t \/ e2 # e \/ v2 # e => spent'[<<t2, e2, v2>>] = spent[<<t2, e2, v2>>]
    <3>1. e \in Entries \cup Replays
      OBVIOUS
    <3> QED
      BY <1>0, <2>2, <3>1, CalledCounts
  <2>4. spent[<<t, e, e>>] = 0
    BY <1>0, <2>2 DEF FirstPass
  <2>5. \A t2 \in RuleTargets :
               spent'[<<t2, e, e>>] <= Share(t2) /\ (k.at = "idle" \/ t2 \in k.calls => spent'[<<t2, e, e>>] = 0)
    <3> SUFFICES ASSUME NEW t2 \in RuleTargets
                 PROVE  spent'[<<t2, e, e>>] <= Share(t2) /\ (k.at = "idle" \/ t2 \in k.calls => spent'[<<t2, e, e>>] = 0)
      OBVIOUS
    <3>1. CASE t2 = t
      BY <2>1, <2>2, <2>3, <2>4, <3>1, Shares
    <3>2. CASE t2 # t
      <4>1. spent'[<<t2, e, e>>] = spent[<<t2, e, e>>]
        BY <2>3, <3>2
      <4> QED
        BY <1>0, <2>1, <2>2, <4>1 DEF FirstPass
    <3> QED
      BY <3>1, <3>2
  <2> QED
    BY <1>5, <2>1, <2>2, <2>3, <2>5
<1>8. ASSUME NEW a \in {"append", "done"}, putting' = [putting EXCEPT ![e].at = a],
             putting[e].at # "done", putting[e].at # "idle", putting[e].calls = {}
      PROVE  \E k \in PuttingRecord : putting' = [putting EXCEPT ![e] = k] /\ k.at = a /\ k.calls = {}
  <2> DEFINE k == [putting[e] EXCEPT !.at = a]
  <2>1. k \in PuttingRecord /\ k.at = a /\ k.calls = {}
    BY <1>1, <1>8 DEF PuttingRecord
  <2>2. putting' = [putting EXCEPT ![e] = k]
    BY <1>8
  <2> QED
    BY <2>1, <2>2
<1>9. CASE Capture(e)
  <2>1. PICK a \in {"append", "done"} : putting' = [putting EXCEPT ![e].at = a]
    BY <1>9 DEF Capture
  <2>2. putting[e].at = "calls" /\ putting[e].calls = {} /\ UNCHANGED archived
    BY <1>9 DEF Capture, CallsOver
  <2>3. PICK k \in PuttingRecord : putting' = [putting EXCEPT ![e] = k] /\ k.at = a /\ k.calls = {}
    BY <1>8, <2>1, <2>2
  <2>4. SentTyped' /\ UNCHANGED spent
    BY <1>0, <1>9, SpentSame DEF EventShape, Capture
  <2>5. \A t \in RuleTargets : spent[<<t, e, e>>] <= Share(t)
    BY <1>0 DEF FirstPass
  <2> QED
    BY <1>5, <2>1, <2>2, <2>3, <2>4, <2>5
<1>10. CASE AppendEvent(e)
  <2>1. putting[e].at = "append" /\ UNCHANGED spent /\ archived' = Appends(e)
        /\ putting' = [putting EXCEPT ![e].at = "done"] /\ SentTyped'
    BY <1>0, <1>10, SpentSame DEF AppendEvent, EventShape
  <2>2. putting[e].calls = {}
    BY <1>0, <2>1 DEF FirstPass
  <2>3. PICK k \in PuttingRecord : putting' = [putting EXCEPT ![e] = k] /\ k.at = "done" /\ k.calls = {}
    BY <1>8, <2>1, <2>2
  <2>4. /\ putting' \in [Entries -> PuttingRecord] /\ putting'[e] = k
        /\ \A d \in Entries \ {e} : putting'[d] = putting[d]
    BY <1>4, <2>3
  <2>5. \A d \in Entries : putting[d].at = "done" => putting'[d].at = "done"
    BY <2>3, <2>4
  <2>6. /\ archived' \in Seq(Entries) /\ OnceIn(archived')
        /\ ~archive.there => archived' = <<>>
        /\ \A i \in DOMAIN archived' : putting'[archived'[i]].at = "done"
    <3>1. archived \in Seq(Entries) /\ OnceIn(archived) /\ (~archive.there => archived = <<>>)
          /\ \A i \in DOMAIN archived : archived[i] \in Entries /\ putting[archived[i]].at = "done"
      BY <1>0 DEF EventShape, EventTypeOK, OnceIn, FirstPass
    <3>2. CASE archived' = archived
      BY <2>5, <3>1, <3>2
    <3>3. CASE archived' = Append(archived, e) /\ archive.there
      <4>1. /\ archived' \in Seq(Entries) /\ Len(archived) \in Nat
            /\ DOMAIN archived = 1..Len(archived) /\ DOMAIN archived' = 1..(Len(archived) + 1)
            /\ archived'[Len(archived) + 1] = e
            /\ \A i \in 1..Len(archived) : archived'[i] = archived[i]
        BY <3>1, <3>3
      <4>2. OnceIn(archived')
        BY <2>1, <3>1, <4>1 DEF OnceIn
      <4>3. \A i \in DOMAIN archived' : putting'[archived'[i]].at = "done"
        BY <2>3, <2>4, <2>5, <3>1, <4>1
      <4> QED
        BY <3>3, <4>1, <4>2, <4>3
    <3> QED
      BY <2>1, <3>2, <3>3 DEF Appends
  <2>7. EventShape'
    BY <1>0, <1>2, <2>1, <2>4, <2>6 DEF EventShape
  <2>8. FirstPass'
    <3>1. \A d \in Entries :
            /\ putting'[d].at # "calls" => putting'[d].calls = {}
            /\ \A t \in RuleTargets :
                 /\ spent'[<<t, d, d>>] <= Share(t)
                 /\ putting'[d].at = "idle" \/ t \in putting'[d].calls => spent'[<<t, d, d>>] = 0
      BY <1>0, <2>1, <2>3, <2>4 DEF FirstPass
    <3>2. \A t \in RuleTargets, d, v \in Entries : v # d => spent'[<<t, d, v>>] = 0
      BY <1>0, <2>1 DEF FirstPass
    <3> QED
      BY <2>6, <3>1, <3>2 DEF FirstPass
  <2>9. LaterPass'
    <3>1. \A r \in Replays : replaying[r].left \in Seq(Entries)
      BY <1>0 DEF EventShape, ReplayingRecord
    <3>2. \A r \in Replays : \A i \in DOMAIN replaying[r].left : replaying[r].left[i] \in Entries
      BY <3>1
    <3> QED
      BY <1>0, <1>2, <2>1, <2>5, <3>2 DEF LaterPass, OnceIn
  <2>10. EventTypeOK'
    BY <1>0, <1>2, <2>1, <2>4, <2>6 DEF EventTypeOK, PuttingRecord, OnceIn, SentTyped
  <2> QED
    BY <2>7, <2>8, <2>9, <2>10 DEF EventInv
<1> QED
  BY <1>6, <1>7, <1>9, <1>10 DEF EntryNext

\* What LaterPass says of one replay.
ReplayFits(r) ==
  /\ replaying[r].at = "idle" => replaying[r].calls = {}
  /\ OnceIn(replaying[r].left)
  /\ \A i \in DOMAIN replaying[r].left :
       /\ putting[replaying[r].left[i]].at = "done"
       /\ \A t \in RuleTargets :
            /\ spent[<<t, replaying[r].left[i], r>>] = 0
            /\ <<t, replaying[r].left[i]>> \notin replaying[r].calls
  /\ \A t \in RuleTargets, e \in Entries :
       /\ spent[<<t, e, r>>] <= Share(t)
       /\ spent[<<t, e, r>>] > 0 \/ <<t, e>> \in replaying[r].calls => putting[e].at = "done"
       /\ replaying[r].at = "idle" \/ <<t, e>> \in replaying[r].calls => spent[<<t, e, r>>] = 0

\* The steps of a replay.
LEMMA ReplayStep ==
  ASSUME EventInv, NEW r \in Replays,
         (\E n \in ReplayNames : StartReplay(r, n)) \/ ReplayNext(r)
  PROVE  EventInv'
<1>0. EventTypeOK /\ EventShape /\ FirstPass /\ LaterPass
  BY DEF EventInv
<1>1. replaying[r] \in ReplayingRecord /\ r \notin Entries /\ ReplayFits(r)
      /\ replaying[r].left \in Seq(Entries)
  BY <1>0, EventConstants DEF EventShape, LaterPass, ReplayFits, ReplayingRecord
<1>2. UNCHANGED <<evRule, archive, archived, putting>>
  BY DEF StartReplay, ReplayNext, ReplayMatch, ReplayEnds, PutReplay, ReplayCall
<1>3. ASSUME NEW k \in ReplayingRecord, replaying' = [replaying EXCEPT ![r] = k],
             SentTyped',
             \A t \in RuleTargets, e \in Entries, v \in Entries \cup Replays :
               v # r => spent'[<<t, e, v>>] = spent[<<t, e, v>>],
             OnceIn(k.left), k.at = "idle" => k.calls = {},
             \A i \in DOMAIN k.left :
               /\ putting[k.left[i]].at = "done"
               /\ \A t \in RuleTargets :
                    spent'[<<t, k.left[i], r>>] = 0 /\ <<t, k.left[i]>> \notin k.calls,
             \A t \in RuleTargets, e \in Entries :
               /\ spent'[<<t, e, r>>] <= Share(t)
               /\ spent'[<<t, e, r>>] > 0 \/ <<t, e>> \in k.calls => putting[e].at = "done"
               /\ k.at = "idle" \/ <<t, e>> \in k.calls => spent'[<<t, e, r>>] = 0
      PROVE  EventInv'
  <2>1. /\ replaying' \in [Replays -> ReplayingRecord] /\ replaying'[r] = k
        /\ \A q \in Replays \ {r} : replaying'[q] = replaying[q]
    BY <1>0, <1>3 DEF EventShape
  <2>2. EventShape'
    BY <1>0, <1>2, <1>3, <2>1 DEF EventShape
  <2>3. FirstPass'
    <3>1. \A t \in RuleTargets, e, v \in Entries : spent'[<<t, e, v>>] = spent[<<t, e, v>>]
      BY <1>1, <1>3
    <3> QED
      BY <1>0, <1>2, <3>1 DEF FirstPass
  <2>4. LaterPass'
    <3>1. ReplayFits(r)'
      BY <1>2, <1>3, <2>1 DEF ReplayFits
    <3>2. ASSUME NEW q \in Replays \ {r} PROVE ReplayFits(q)'
      <4>1. \A t \in RuleTargets, e \in Entries : spent'[<<t, e, q>>] = spent[<<t, e, q>>]
        BY <1>3
      <4>2. ReplayFits(q) /\ replaying[q].left \in Seq(Entries)
        BY <1>0 DEF LaterPass, ReplayFits, EventShape, ReplayingRecord
      <4>3. \A i \in DOMAIN replaying[q].left : replaying[q].left[i] \in Entries
        BY <4>2
      <4> QED
        BY <1>2, <2>1, <4>1, <4>2, <4>3 DEF ReplayFits
    <3> QED
      BY <3>1, <3>2 DEF LaterPass, ReplayFits
  <2>5. EventTypeOK'
    BY <1>0, <1>2, <1>3, <2>1 DEF EventTypeOK, ReplayingRecord, SentTyped
  <2> QED
    BY <2>2, <2>3, <2>4, <2>5 DEF EventInv
<1>4. UNCHANGED <<sending, got>> => SentTyped' /\ UNCHANGED spent
  BY <1>0, SpentSame DEF EventShape
<1>5. ASSUME NEW n \in ReplayNames, StartReplay(r, n) PROVE EventInv'
  <2> DEFINE k == [at |-> "walk", name |-> n, left |-> archived, calls |-> {}]
  <2>1. k \in ReplayingRecord /\ k.left = archived /\ k.calls = {} /\ k.at = "walk"
    BY <1>0 DEF ReplayingRecord, EventShape
  <2>2. replaying[r].at = "idle" /\ replaying' = [replaying EXCEPT ![r] = k] /\ spent' = spent /\ SentTyped'
    BY <1>4, <1>5 DEF StartReplay
  <2> HIDE DEF k
  <2>3. \A t \in RuleTargets, e \in Entries : spent'[<<t, e, r>>] = 0
    BY <1>1, <2>2 DEF ReplayFits
  <2>4. OnceIn(archived) /\ \A i \in DOMAIN archived : archived[i] \in Entries /\ putting[archived[i]].at = "done"
    BY <1>0 DEF EventTypeOK, OnceIn, FirstPass, EventShape
  <2>5. /\ \A i \in DOMAIN k.left :
               /\ putting[k.left[i]].at = "done"
               /\ \A t \in RuleTargets :
                    spent'[<<t, k.left[i], r>>] = 0 /\ <<t, k.left[i]>> \notin k.calls
        /\ OnceIn(k.left)
    BY <2>1, <2>3, <2>4
  <2>6. \A t \in RuleTargets, e \in Entries :
               /\ spent'[<<t, e, r>>] <= Share(t)
               /\ spent'[<<t, e, r>>] > 0 \/ <<t, e>> \in k.calls => putting[e].at = "done"
               /\ k.at = "idle" \/ <<t, e>> \in k.calls => spent'[<<t, e, r>>] = 0
    BY <2>1, <2>3, Shares
  <2> QED
    BY <1>3, <2>1, <2>2, <2>5, <2>6
<1>6. CASE ReplayMatch(r)
  <2> DEFINE h == Head(replaying[r].left)
             c == {<<t, h>> : t \in Matched}
             l == Tail(replaying[r].left)
             k == [replaying[r] EXCEPT !.calls = c, !.left = l]
  <2>1. /\ replaying[r].at = "walk" /\ replaying[r].left # <<>> /\ replaying[r].calls = {}
        /\ spent' = spent /\ SentTyped'
        /\ replaying' = [replaying EXCEPT ![r].calls = c, ![r].left = Tail(@)]
    BY <1>4, <1>6 DEF ReplayMatch
  <2>2. replaying' = [replaying EXCEPT ![r] = k]
    BY <1>1, <2>1 DEF ReplayingRecord
  <2>3. Matched \subseteq RuleTargets
    BY <1>0 DEF Matched, EventTypeOK
  <2> DEFINE s == replaying[r].left
  <2>4. /\ h \in Entries /\ l \in Seq(Entries) /\ 1 \in DOMAIN s /\ s[1] = h
        /\ \A i \in DOMAIN l : i + 1 \in DOMAIN s /\ l[i] = s[i + 1] /\ l[i] # h /\ l[i] \in Entries
        /\ OnceIn(l)
    <3>1. s \in Seq(Entries) /\ s # <<>> /\ OnceIn(s)
      BY <1>1, <2>1 DEF ReplayFits
    <3> HIDE DEF s
    <3>2. /\ Tail(s) \in Seq(Entries) /\ Head(s) = s[1] /\ DOMAIN s = 1..Len(s) /\ Len(s) \in Nat \ {0}
          /\ DOMAIN Tail(s) = 1..(Len(s) - 1)
          /\ \A i \in 1..(Len(s) - 1) : Tail(s)[i] = s[i + 1]
      BY <3>1
    <3>3. /\ 1 \in DOMAIN s /\ s[1] \in Entries
          /\ \A i \in DOMAIN Tail(s) : i + 1 \in DOMAIN s /\ i + 1 # 1
      BY <3>1, <3>2
    <3>4. \A i \in DOMAIN Tail(s) : Tail(s)[i] = s[i + 1] /\ Tail(s)[i] # s[1] /\ Tail(s)[i] \in Entries
      BY <3>1, <3>2, <3>3 DEF OnceIn
    <3>5. OnceIn(Tail(s))
      BY <3>1, <3>2, <3>3 DEF OnceIn
    <3> QED
      BY <3>2, <3>3, <3>4, <3>5 DEF s
  <2>5. /\ putting[h].at = "done" /\ \A t \in RuleTargets : spent[<<t, h, r>>] = 0
        /\ \A i \in DOMAIN l : putting[l[i]].at = "done" /\ \A t \in RuleTargets : spent[<<t, l[i], r>>] = 0
    <3>1. putting[s[1]].at = "done" /\ \A t \in RuleTargets : spent[<<t, s[1], r>>] = 0
      BY <1>1, <2>4 DEF ReplayFits
    <3>2. ASSUME NEW i \in DOMAIN l
          PROVE  putting[l[i]].at = "done" /\ \A t \in RuleTargets : spent[<<t, l[i], r>>] = 0
      <4>1. i + 1 \in DOMAIN s /\ l[i] = s[i + 1]
        BY <2>4
      <4>2. putting[s[i + 1]].at = "done" /\ \A t \in RuleTargets : spent[<<t, s[i + 1], r>>] = 0
        BY <1>1, <4>1 DEF ReplayFits
      <4> QED
        BY <4>1, <4>2
    <3>3. s[1] = h
      BY <2>4
    <3> HIDE DEF h, l, s
    <3> QED
      BY <3>1, <3>2, <3>3
  <2>6. c \subseteq RuleTargets \X Entries /\ \A t \in RuleTargets, e \in Entries : <<t, e>> \in c => e = h
    BY <2>3, <2>4
  <2> HIDE DEF c, h, l
  <2>7. k \in ReplayingRecord /\ k.left = l /\ k.calls = c /\ k.at = "walk"
    BY <1>1, <2>1, <2>4, <2>6 DEF ReplayingRecord
  <2> HIDE DEF k
  <2>8. \A i \in DOMAIN k.left :
               /\ putting[k.left[i]].at = "done"
               /\ \A t \in RuleTargets :
                    spent'[<<t, k.left[i], r>>] = 0 /\ <<t, k.left[i]>> \notin k.calls
    BY <2>1, <2>4, <2>5, <2>6, <2>7
  <2>9. \A t \in RuleTargets, e \in Entries :
               /\ spent'[<<t, e, r>>] <= Share(t)
               /\ spent'[<<t, e, r>>] > 0 \/ <<t, e>> \in k.calls => putting[e].at = "done"
               /\ k.at = "idle" \/ <<t, e>> \in k.calls => spent'[<<t, e, r>>] = 0
    BY <1>1, <2>1, <2>5, <2>6, <2>7 DEF ReplayFits
  <2> QED
    BY <1>3, <2>1, <2>2, <2>4, <2>7, <2>8, <2>9
<1>7. CASE ReplayEnds(r) \/ PutReplay(r)
  <2>1. PICK a \in {"record", "done"} : replaying' = [replaying EXCEPT ![r].at = a]
    BY <1>7 DEF ReplayEnds, PutReplay
  <2> DEFINE k == [replaying[r] EXCEPT !.at = a]
  <2>2. replaying' = [replaying EXCEPT ![r] = k] /\ spent' = spent /\ SentTyped'
    BY <1>4, <1>7, <2>1 DEF ReplayEnds, PutReplay
  <2>3. k \in ReplayingRecord /\ k.left = replaying[r].left /\ k.calls = replaying[r].calls /\ k.at # "idle"
    BY <1>1, <2>1 DEF ReplayingRecord
  <2> HIDE DEF k
  <2>4. OnceIn(k.left) /\ \A i \in DOMAIN k.left :
               /\ putting[k.left[i]].at = "done"
               /\ \A t \in RuleTargets :
                    spent'[<<t, k.left[i], r>>] = 0 /\ <<t, k.left[i]>> \notin k.calls
    BY <1>1, <2>2, <2>3 DEF ReplayFits
  <2>5. \A t \in RuleTargets, e \in Entries :
               /\ spent'[<<t, e, r>>] <= Share(t)
               /\ spent'[<<t, e, r>>] > 0 \/ <<t, e>> \in k.calls => putting[e].at = "done"
               /\ k.at = "idle" \/ <<t, e>> \in k.calls => spent'[<<t, e, r>>] = 0
    BY <1>1, <2>2, <2>3 DEF ReplayFits
  <2> QED
    BY <1>3, <2>2, <2>3, <2>4, <2>5
<1>8. ASSUME NEW c \in replaying[r].calls, ReplayCall(r, c) PROVE EventInv'
  <2>1. PICK t \in RuleTargets, e \in Entries : c = <<t, e>>
    BY <1>1, <1>8 DEF ReplayingRecord
  <2> DEFINE k == [replaying[r] EXCEPT !.calls = @ \ {c}]
  <2>2. replaying' = [replaying EXCEPT ![r] = k] /\ Called(t, e, r)
    BY <1>8, <2>1 DEF ReplayCall
  <2>3. k \in ReplayingRecord /\ k.left = replaying[r].left /\ k.calls = replaying[r].calls \ {c}
        /\ k.at = replaying[r].at
    BY <1>1, <2>1 DEF ReplayingRecord
  <2> HIDE DEF k
  <2>4. /\ SentTyped' /\ spent' \in [Passes -> Nat]
        /\ spent'[<<t, e, r>>] <= spent[<<t, e, r>>] + Share(t)
        /\ \A t2 \in RuleTargets, e2 \in Entries, v2 \in Entries \cup Replays :
             t2 # t \/ e2 # e \/ v2 # r => spent'[<<t2, e2, v2>>] = spent[<<t2, e2, v2>>]
    <3>1. r \in Entries \cup Replays
      OBVIOUS
    <3> QED
      BY <1>0, <2>2, <3>1, CalledCounts
  <2>5. spent[<<t, e, r>>] = 0 /\ putting[e].at = "done"
    BY <1>1, <1>8, <2>1 DEF ReplayFits
  <2>6. \A t2 \in RuleTargets, e2 \in Entries :
          <<t2, e2>> \in k.calls => <<t2, e2>> \in replaying[r].calls /\ (t2 # t \/ e2 # e)
    BY <2>1, <2>3
  <2>i. replaying[r].at # "idle"
    BY <1>1, <1>8 DEF ReplayFits
  <2>7. OnceIn(k.left) /\ \A i \in DOMAIN k.left :
               /\ putting[k.left[i]].at = "done"
               /\ \A t2 \in RuleTargets :
                    spent'[<<t2, k.left[i], r>>] = 0 /\ <<t2, k.left[i]>> \notin k.calls
    <3>1. OnceIn(k.left)
      BY <1>1, <2>3 DEF ReplayFits
    <3>2. ASSUME NEW i \in DOMAIN k.left, NEW t2 \in RuleTargets
          PROVE  /\ putting[k.left[i]].at = "done" /\ spent'[<<t2, k.left[i], r>>] = 0
                 /\ <<t2, k.left[i]>> \notin k.calls
      <4>1. k.left[i] \in Entries
        BY <1>1, <2>3
      <4>2. putting[k.left[i]].at = "done" /\ spent[<<t2, k.left[i], r>>] = 0
            /\ <<t2, k.left[i]>> \notin replaying[r].calls /\ <<t, k.left[i]>> \notin replaying[r].calls
        BY <1>1, <2>3 DEF ReplayFits
      <4>3. k.left[i] # e
        BY <1>8, <2>1, <4>2
      <4>4. spent'[<<t2, k.left[i], r>>] = spent[<<t2, k.left[i], r>>]
        BY <2>4, <4>1, <4>3
      <4> QED
        BY <2>3, <4>2, <4>4
    <3>3. \A i \in DOMAIN k.left : putting[k.left[i]].at = "done"
      BY <1>1, <2>3 DEF ReplayFits
    <3> QED
      BY <3>1, <3>2, <3>3
  <2>8. ASSUME NEW t2 \in RuleTargets, NEW e2 \in Entries
        PROVE  /\ spent'[<<t2, e2, r>>] <= Share(t2)
               /\ spent'[<<t2, e2, r>>] > 0 \/ <<t2, e2>> \in k.calls => putting[e2].at = "done"
               /\ k.at = "idle" \/ <<t2, e2>> \in k.calls => spent'[<<t2, e2, r>>] = 0
    <3>1. CASE t2 = t /\ e2 = e
      BY <2>3, <2>4, <2>5, <2>6, <2>i, <3>1, Shares
    <3>2. CASE t2 # t \/ e2 # e
      <4>1. spent'[<<t2, e2, r>>] = spent[<<t2, e2, r>>]
        BY <2>4, <3>2
      <4> QED
        BY <1>1, <2>3, <2>6, <4>1 DEF ReplayFits
    <3> QED
      BY <3>1, <3>2
  <2>9. \A t2 \in RuleTargets, e2 \in Entries, v \in Entries \cup Replays :
               v # r => spent'[<<t2, e2, v>>] = spent[<<t2, e2, v>>]
    BY <2>4
  <2> QED
    BY <1>3, <2>2, <2>3, <2>4, <2>i, <2>7, <2>8, <2>9
<1> QED
  BY <1>5, <1>6, <1>7, <1>8 DEF ReplayNext

\* An attempt of a goroutine.
LEMMA DeliverStep == ASSUME EventInv, NEW x \in Passes, deliverHTTP(x) PROVE EventInv'
<1>0. EventTypeOK /\ EventShape /\ FirstPass /\ LaterPass
  BY DEF EventInv
<1>1. UNCHANGED <<evRule, archive, archived, putting, replaying, recorded>>
  BY DEF deliverHTTP
<1>2. SentTyped' /\ spent' \in [Passes -> Nat] /\ \A y \in Passes : spent'[y] <= spent[y]
  BY <1>0, DeliverCounts DEF EventShape
<1>3. EventTypeOK' /\ EventShape'
  BY <1>0, <1>1, <1>2 DEF EventTypeOK, EventShape, SentTyped
<1>4. \A t \in RuleTargets, e \in Entries, v \in Entries \cup Replays :
        /\ spent[<<t, e, v>>] \in Nat /\ spent'[<<t, e, v>>] \in Nat /\ Share(t) \in Nat
        /\ spent'[<<t, e, v>>] <= spent[<<t, e, v>>]
  <2>1. spent \in [Passes -> Nat]
    BY <1>0, SpentIs DEF EventShape
  <2>2. \A t \in RuleTargets, e \in Entries, v \in Entries \cup Replays : <<t, e, v>> \in Passes
    BY DEF Passes
  <2> QED
    BY <1>2, <2>1, <2>2, Shares
<1>5. FirstPass'
  BY <1>0, <1>1, <1>4 DEF FirstPass
<1>6. LaterPass'
  <2>1. \A r \in Replays : replaying[r].left \in Seq(Entries)
    BY <1>0 DEF EventShape, ReplayingRecord
  <2>2. \A r \in Replays : \A i \in DOMAIN replaying[r].left : replaying[r].left[i] \in Entries
    BY <2>1
  <2> SUFFICES ASSUME NEW r \in Replays PROVE ReplayFits(r)'
    BY DEF LaterPass, ReplayFits
  <2>3. ReplayFits(r)
    BY <1>0 DEF LaterPass, ReplayFits
  <2> QED
    BY <1>1, <1>4, <2>2, <2>3 DEF ReplayFits, OnceIn
<1> QED
  BY <1>3, <1>5, <1>6 DEF EventInv

\* Every step of a request, an entry, a replay and a goroutine keeps the passes
\* apart.
LEMMA EventStep == EventInv /\ [EventNext]_eventVars => EventInv'
<1> SUFFICES ASSUME EventInv, [EventNext]_eventVars PROVE EventInv'
  OBVIOUS
<1>1. CASE UNCHANGED eventVars
  <2>1. UNCHANGED spent
    BY <1>1, SpentSame DEF eventVars
  <2> QED
    BY <1>1, <2>1 DEF eventVars, EventInv, EventTypeOK, EventShape, FirstPass, LaterPass, OnceIn,
                      SentTyped
<1>2. CASE EventNext
  BY <1>2, ConfigStep, EntryStep, ReplayStep, DeliverStep DEF EventNext
<1> QED
  BY <1>1, <1>2

\* EventTypeOK for every set of entries, replays and targets.
THEOREM EventsTyped == EventSpec => []EventTypeOK
<1>1. EventInv => EventTypeOK
  BY DEF EventInv
<1> QED
  BY <1>1, EventInitInv, EventStep, PTL DEF EventSpec

\* SentInOrder for every set of entries, replays and targets: PutEvents and
\* StartReplay (eventbridge/archive.go) send an event to a target once per
\* pass, to an API destination twice at most (deliverHTTP), and a replay calls
\* only for events whose first pass has made its calls, whatever rules, targets
\* and archives change meanwhile.  In what order the goroutines of two passes
\* reach an API destination is not part of it.
THEOREM PassesInOrder == EventSpec => []SentInOrder
<1>1. EventInv => SentInOrder
  <2> SUFFICES ASSUME EventInv PROVE SentInOrder
    OBVIOUS
  <2>0. EventShape /\ FirstPass /\ LaterPass
    BY DEF EventInv
  <2>1. SentOncePerPass
    <3>1. \A x \in Passes : spent[x] = got[x] + sending[x]
      BY <2>0, SpentIs DEF EventShape
    <3>2. \A t \in RuleTargets, e \in Entries, v \in Entries \cup Replays : spent[<<t, e, v>>] <= Share(t)
      <4>1. \A t \in RuleTargets, e \in Entries, v \in Replays : spent[<<t, e, v>>] <= Share(t)
        BY <2>0 DEF LaterPass
      <4>2. ASSUME NEW t \in RuleTargets, NEW e \in Entries, NEW v \in Entries
            PROVE  spent[<<t, e, v>>] <= Share(t)
        <5>1. CASE v = e
          BY <2>0, <5>1 DEF FirstPass
        <5>2. CASE v # e
          <6>1. spent[<<t, e, v>>] = 0
            BY <2>0, <5>2 DEF FirstPass
          <6> QED
            BY <6>1, Shares
        <5> QED
          BY <5>1, <5>2
      <4> QED
        BY <4>1, <4>2
    <3> QED
      BY <3>1, <3>2 DEF SentOncePerPass, Share, Passes
  <2>2. ReplayAfterFirst
    <3> SUFFICES ASSUME NEW t \in RuleTargets, NEW e \in Entries, NEW r \in Replays,
                        got[<<t, e, r>>] + sending[<<t, e, r>>] > 0
                 PROVE  putting[e].at = "done" /\ putting[e].calls = {}
      BY DEF ReplayAfterFirst
    <3>1. spent[<<t, e, r>>] > 0
      BY <2>0, SpentIs DEF EventShape, Passes
    <3>2. putting[e].at = "done"
      BY <2>0, <3>1 DEF LaterPass
    <3> QED
      BY <2>0, <3>2 DEF FirstPass
  <2> QED
    BY <2>1, <2>2 DEF SentInOrder
<1> QED
  BY <1>1, EventInitInv, EventStep, PTL DEF EventSpec

-----------------------------------------------------------------------------
(* CloudWatch Logs and the shippers.                                       *)

\* Where the worker is drives everything: it holds the mutex exactly while it
\* reads the filters, it drains only when quit is closed, and it is gone only
\* drained or marked dead.
WorkerPlaced ==
  /\ consumer = "fan" => (muHeld <=> fanWorker.pc \in {"read", "fill"})
  /\ fanWorker.pc = "drain" \/ (fanWorker.pc \in InBatch /\ fanWorker.back = "drain") => QuitClosed
  /\ fanWorker.pc = "dead" => fanFlags.dead
  /\ fanWorker.pc = "gone" => QuitClosed \/ fanFlags.dead
  /\ fanWorker.pc = "gone" /\ ~fanFlags.dead => \A i \in DOMAIN batches : ~batches[i]
  /\ closing = "closed" => fanWorker.pc = "gone"

Forgetting == \E c \in LogClients : logClient[c] = "forget"

\* What the fan-out has cached, and what it has read and is about to cache, is
\* what is stored, unless a request still has to forget it.
CacheFresh ==
  consumer = "fan" /\ ~Forgetting =>
    /\ cached \subseteq {Compiled(filters)}
    /\ fanWorker.pc = "fill" => fanWorker.found = Compiled(filters)

LogsInv == LogsTypeOK /\ WorkerPlaced /\ CacheFresh

\* A group without filters.
LEMMA NoFiltersFits == NoFilters \in FilterSets
<1>1. NoFilters \in [{} -> Patterns] /\ {} \in SUBSET FilterNames
  BY DEF NoFilters
<1> QED
  BY <1>1 DEF FilterSets

\* Stored filters are patterns by name.
LEMMA FilterShape == ASSUME NEW F \in FilterSets
                     PROVE  DOMAIN F \subseteq FilterNames /\ F \in [DOMAIN F -> Patterns]
BY DEF FilterSets

\* What compiles of stored filters is again filters.
LEMMA CompiledFits == ASSUME NEW F \in FilterSets PROVE Compiled(F) \in FilterSets
<1> DEFINE S == {m \in DOMAIN F : F[m] \notin Unusable}
<1>1. S \in SUBSET FilterNames /\ \A n \in S : F[n] \in Patterns
  BY FilterShape
<1>2. [n \in S |-> F[n]] \in [S -> Patterns]
  BY <1>1
<1> QED
  BY <1>1, <1>2 DEF FilterSets, Compiled

\* No group, an empty channel and a worker that waits.
LEMMA LogsInitInv == LogsInit => LogsInv
<1> SUFFICES ASSUME LogsInit PROVE LogsInv
  OBVIOUS
<1>1. LogsTypeOK
  <2>1. logClient \in [LogClients -> ClientSteps]
    BY DEF LogsInit, ClientSteps
  <2>2. batches \in Seq(BOOLEAN) /\ Len(batches) <= FanBuffer
    BY LogsAssumption DEF LogsInit
  <2> QED
    BY <2>1, <2>2, NoFiltersFits DEF LogsInit, LogsTypeOK
<1>2. WorkerPlaced
  BY DEF LogsInit, WorkerPlaced, InBatch
<1>3. CacheFresh
  BY DEF LogsInit, CacheFresh, NoCache
<1> QED
  BY <1>1, <1>2, <1>3 DEF LogsInv

\* A request moves from a step to another.
LEMMA GoesMoves ==
  ASSUME LogsTypeOK, NEW c \in LogClients, NEW from, NEW to \in ClientSteps, Goes(c, from, to)
  PROVE  /\ logClient' \in [LogClients -> ClientSteps]
         /\ logClient'[c] = to
         /\ from # "forget" => (Forgetting => Forgetting')
         /\ to = "forget" => Forgetting'
BY DEF LogsTypeOK, Goes, Forgetting

\* A request leaves the channel and the worker alone.
LEMMA RequestKeepsPlace ==
  ASSUME LogsInv, UNCHANGED <<consumer, muHeld, batches, fanFlags, closing, fanWorker>>
  PROVE  WorkerPlaced'
BY DEF LogsInv, WorkerPlaced, QuitClosed

\* The steps of the requests.
LEMMA StepsThere ==
  {"idle", "writeGroup", "dropGroup", "newStream", "writeStream", "oldStream",
   "dropStream", "putFilter", "dropFilter", "forget", "findStream", "putEvents",
   "check", "send"} \subseteq ClientSteps
BY DEF ClientSteps

\* Requests that change no filter.
LEMMA PlainRequest ==
  ASSUME LogsInv, NEW c \in LogClients,
         \/ CreateLogGroup(c) \/ MustGroup(c) \/ WriteGroup(c)
         \/ LooksForStream(c) \/ WriteStream(c) \/ StoreEvents(c) \/ EnqueueChecks(c)
  PROVE  LogsInv'
<1>0. LogsTypeOK /\ WorkerPlaced /\ CacheFresh
  BY DEF LogsInv
<1>1. UNCHANGED <<consumer, filters, fanVars>>
  BY DEF CreateLogGroup, MustGroup, WriteGroup, LooksForStream, WriteStream, StoreEvents,
         EnqueueChecks, groupVars
<1>2. PICK from \in ClientSteps \ {"forget"}, to \in ClientSteps : Goes(c, from, to)
  <2>1. CASE CreateLogGroup(c) \/ MustGroup(c)
    BY <2>1 DEF CreateLogGroup, MustGroup, ClientSteps
  <2>2. CASE WriteGroup(c) \/ WriteStream(c)
    BY <2>2 DEF WriteGroup, WriteStream, ClientSteps
  <2>3. CASE LooksForStream(c)
    BY <2>3 DEF LooksForStream, ClientSteps
  <2>4. CASE StoreEvents(c) \/ EnqueueChecks(c)
    BY <2>4 DEF StoreEvents, EnqueueChecks, ClientSteps
  <2> QED
    BY <2>1, <2>2, <2>3, <2>4
<1>3. logClient' \in [LogClients -> ClientSteps] /\ (Forgetting => Forgetting')
  BY <1>0, <1>2, GoesMoves
<1>4. group' \in BOOLEAN /\ stream' \in BOOLEAN
  BY <1>0 DEF LogsTypeOK, CreateLogGroup, MustGroup, WriteGroup, LooksForStream, WriteStream,
              StoreEvents, EnqueueChecks, groupVars
<1>5. LogsTypeOK'
  BY <1>0, <1>1, <1>3, <1>4 DEF LogsTypeOK, fanVars
<1>6. WorkerPlaced'
  BY <1>1, RequestKeepsPlace DEF fanVars
<1>7. CacheFresh'
  <2>1. Compiled(filters)' = Compiled(filters)
    BY <1>1 DEF Compiled
  <2> QED
    BY <1>0, <1>1, <1>3, <2>1 DEF CacheFresh, fanVars
<1> QED
  BY <1>5, <1>6, <1>7 DEF LogsInv

\* Requests that change the filters leave them to be forgotten.
LEMMA FilterRequest ==
  ASSUME LogsInv, NEW c \in LogClients, DropGroup(c) \/ PutFilter(c) \/ DropFilter(c)
  PROVE  LogsInv'
<1>0. LogsTypeOK /\ WorkerPlaced /\ CacheFresh
  BY DEF LogsInv
<1>1. UNCHANGED <<consumer, fanVars>>
  BY DEF DropGroup, PutFilter, DropFilter
<1>2. filters \in FilterSets /\ DOMAIN filters \subseteq FilterNames /\ filters \in [DOMAIN filters -> Patterns]
  BY <1>0, FilterShape DEF LogsTypeOK
<1>3. PICK from \in ClientSteps \ {"forget"}, to \in ClientSteps :
        /\ Goes(c, from, to)
        /\ filters' \in FilterSets
        /\ consumer = "fan" /\ to # "forget" => filters' = filters
  <2>1. CASE DropGroup(c)
    BY <1>2, <2>1, NoFiltersFits DEF DropGroup, ClientSteps
  <2>2. ASSUME NEW n \in FilterNames, NEW p \in Patterns,
               filters' = [m \in DOMAIN filters \cup {n} |-> IF m = n THEN p ELSE filters[m]]
        PROVE  filters' \in FilterSets
    <3>1. DOMAIN filters \cup {n} \in SUBSET FilterNames
      BY <1>2
    <3>2. filters' \in [DOMAIN filters \cup {n} -> Patterns]
      BY <1>2, <2>2
    <3> QED
      BY <3>1, <3>2 DEF FilterSets
  <2>3. CASE PutFilter(c)
    BY <1>2, <2>2, <2>3 DEF PutFilter, ClientSteps
  <2>4. CASE DropFilter(c)
    <3>1. PICK n \in FilterNames :
            /\ filters' = [m \in DOMAIN filters \ {n} |-> filters[m]]
            /\ Goes(c, "dropFilter", IF n \in DOMAIN filters THEN "forget" ELSE "idle")
      BY <2>4 DEF DropFilter
    <3>2. filters' \in FilterSets
      <4>1. DOMAIN filters \ {n} \in SUBSET FilterNames
        BY <1>2
      <4>2. filters' \in [DOMAIN filters \ {n} -> Patterns]
        BY <1>2, <3>1
      <4> QED
        BY <4>1, <4>2 DEF FilterSets
    <3>3. CASE n \in DOMAIN filters
      BY <3>1, <3>2, <3>3 DEF ClientSteps
    <3>4. CASE n \notin DOMAIN filters
      <4>1. filters' = filters
        BY <1>2, <3>1, <3>4
      <4> QED
        BY <3>1, <3>2, <3>4, <4>1 DEF ClientSteps
    <3> QED
      BY <3>3, <3>4
  <2> QED
    BY <2>1, <2>3, <2>4
<1>4. logClient' \in [LogClients -> ClientSteps] /\ (Forgetting => Forgetting') /\ (to = "forget" => Forgetting')
  BY <1>0, <1>3, GoesMoves
<1>5. LogsTypeOK'
  <2>1. group' \in BOOLEAN /\ stream' \in BOOLEAN
    BY <1>0 DEF LogsTypeOK, DropGroup, PutFilter, DropFilter
  <2> QED
    BY <1>0, <1>1, <1>3, <1>4, <2>1 DEF LogsTypeOK, fanVars
<1>6. WorkerPlaced'
  BY <1>1, RequestKeepsPlace DEF fanVars
<1>7. CacheFresh'
  <2>1. CASE consumer = "fan" /\ to = "forget"
    BY <1>4, <2>1 DEF CacheFresh
  <2>2. CASE consumer = "fan" /\ to # "forget"
    <3>1. Compiled(filters)' = Compiled(filters)
      BY <1>3, <2>2 DEF Compiled
    <3> QED
      BY <1>0, <1>1, <1>4, <3>1 DEF CacheFresh, fanVars
  <2>3. CASE consumer # "fan"
    BY <1>1, <2>3 DEF CacheFresh
  <2> QED
    BY <2>1, <2>2, <2>3
<1> QED
  BY <1>5, <1>6, <1>7 DEF LogsInv

\* forget, which waits for the mutex, and the send of a batch.
LEMMA FanRequest ==
  ASSUME LogsInv, NEW c \in LogClients, Forget(c) \/ EnqueueSends(c)
  PROVE  LogsInv'
<1>0. LogsTypeOK /\ WorkerPlaced /\ CacheFresh
  BY DEF LogsInv
<1>1. CASE Forget(c)
  <2>1. UNCHANGED <<consumer, group, stream, filters, muHeld, batches, fanFlags, closing, fanWorker>>
    BY <1>1 DEF Forget, groupVars
  <2>2. logClient' \in [LogClients -> ClientSteps]
    BY <1>0, <1>1, GoesMoves, StepsThere DEF Forget
  <2>3. LogsTypeOK'
    BY <1>0, <1>1, <2>1, <2>2 DEF LogsTypeOK, Forget
  <2>4. WorkerPlaced'
    BY <2>1, RequestKeepsPlace
  <2>5. CacheFresh'
    BY <1>0, <1>1, <2>1 DEF CacheFresh, WorkerPlaced, Forget, NoCache
  <2> QED
    BY <2>3, <2>4, <2>5 DEF LogsInv
<1>2. CASE EnqueueSends(c)
  <2>1. UNCHANGED <<consumer, group, stream, filters, cached, muHeld, fanFlags, closing, fanWorker>>
    BY <1>2 DEF EnqueueSends, groupVars
  <2>2. logClient' \in [LogClients -> ClientSteps] /\ (Forgetting => Forgetting')
    BY <1>0, <1>2, GoesMoves, StepsThere DEF EnqueueSends
  <2>3. /\ batches' \in Seq(BOOLEAN) /\ Len(batches') <= FanBuffer
        /\ QuitClosed /\ (\A i \in DOMAIN batches : ~batches[i]) => \A i \in DOMAIN batches' : ~batches'[i]
    <3>1. CASE batches' = batches
      BY <1>0, <3>1 DEF LogsTypeOK
    <3>2. CASE Len(batches) < FanBuffer /\ batches' = Append(batches, ~QuitClosed)
      <4> DEFINE b == ~QuitClosed
      <4>1. b \in BOOLEAN /\ (QuitClosed => ~b)
        OBVIOUS
      <4>2. batches \in Seq(BOOLEAN) /\ batches' = Append(batches, b)
        BY <1>0, <3>2 DEF LogsTypeOK
      <4> HIDE DEF b
      <4>3. /\ batches' \in Seq(BOOLEAN) /\ Len(batches) \in Nat /\ Len(batches') = Len(batches) + 1
            /\ DOMAIN batches = 1..Len(batches)
            /\ DOMAIN batches' = 1..(Len(batches) + 1)
            /\ batches'[Len(batches) + 1] = b
            /\ \A i \in 1..Len(batches) : batches'[i] = batches[i]
        BY <4>1, <4>2
      <4>4. Len(batches') <= FanBuffer
        BY <3>2, <4>3, LogsAssumption
      <4>5. \A i \in DOMAIN batches' : i \in DOMAIN batches \/ i = Len(batches) + 1
        BY <4>3
      <4>6. ASSUME QuitClosed, \A i \in DOMAIN batches : ~batches[i]
            PROVE  \A i \in DOMAIN batches' : ~batches'[i]
        BY <4>1, <4>3, <4>5, <4>6
      <4> QED
        BY <4>3, <4>4, <4>6
    <3> QED
      BY <1>2, <3>1, <3>2 DEF EnqueueSends
  <2>4. LogsTypeOK'
    BY <1>0, <2>1, <2>2, <2>3 DEF LogsTypeOK
  <2>5. WorkerPlaced'
    BY <1>0, <2>1, <2>3 DEF WorkerPlaced, QuitClosed
  <2>6. CacheFresh'
    <3>1. Compiled(filters)' = Compiled(filters)
      BY <2>1 DEF Compiled
    <3> QED
      BY <1>0, <2>1, <2>2, <3>1 DEF CacheFresh
  <2> QED
    BY <2>4, <2>5, <2>6 DEF LogsInv
<1> QED
  BY <1>1, <1>2

FanWorker == [pc : {"select", "drain", "dying", "dead", "gone"} \cup InBatch,
              back : {"select", "drain"}, found : FilterSets]

\* The worker's steps.
LEMMA WorkerStep ==
  ASSUME LogsInv, FanWorks
  PROVE  LogsInv'
<1>0. LogsTypeOK /\ WorkerPlaced /\ CacheFresh
  BY DEF LogsInv
<1>1. fanWorker \in FanWorker /\ filters \in FilterSets /\ batches \in Seq(BOOLEAN)
      /\ Len(batches) <= FanBuffer
  BY <1>0 DEF LogsTypeOK, FanWorker
<1>2. UNCHANGED <<consumer, group, stream, filters, closing, logClient>>
  BY DEF FanWorks, TakeBatch, SeesQuit, Drained, LookUp, ReadFilters, FillCache, Deliver,
         Panics, Dies, groupVars
<1>3. (QuitClosed' <=> QuitClosed) /\ (Forgetting' <=> Forgetting) /\ Compiled(filters)' = Compiled(filters)
  BY <1>2 DEF QuitClosed, Forgetting, Compiled
\* It moves to a new place.
<1>4. ASSUME NEW k \in FanWorker, fanWorker' = k,
             muHeld' \in BOOLEAN, cached' \in {NoCache} \cup {{F} : F \in FilterSets},
             batches' \in Seq(BOOLEAN) /\ Len(batches') <= FanBuffer,
             fanFlags' \in [closed : BOOLEAN, dead : BOOLEAN]
      PROVE  LogsTypeOK'
  BY <1>0, <1>2, <1>4 DEF LogsTypeOK, FanWorker
<1>5. CASE TakeBatch
  <2> DEFINE k == [fanWorker EXCEPT !.pc = "lookup", !.back = fanWorker.pc]
  <2>1. fanWorker' = k /\ fanWorker.pc \in {"select", "drain"} /\ batches # <<>> /\ batches' = Tail(batches)
        /\ UNCHANGED <<cached, muHeld, fanFlags>>
    BY <1>5 DEF TakeBatch
  <2>2. k \in FanWorker /\ k.pc = "lookup" /\ k.back = fanWorker.pc
    BY <1>1, <2>1 DEF FanWorker, InBatch
  <2>3. batches' \in Seq(BOOLEAN) /\ Len(batches') <= FanBuffer
    <3>1. Len(Tail(batches)) = Len(batches) - 1 /\ Len(batches) \in Nat /\ Tail(batches) \in Seq(BOOLEAN)
      BY <1>1, <2>1
    <3> QED
      BY <1>1, <2>1, <3>1, LogsAssumption
  <2> HIDE DEF k
  <2>4. LogsTypeOK'
    BY <1>0, <1>4, <2>1, <2>2, <2>3 DEF LogsTypeOK
  <2>5. closing # "closed"
    BY <1>0, <2>1 DEF WorkerPlaced
  <2>6. WorkerPlaced'
    BY <1>0, <1>2, <1>3, <2>1, <2>2, <2>5 DEF WorkerPlaced
  <2>7. CacheFresh'
    BY <1>0, <1>2, <1>3, <2>1, <2>2 DEF CacheFresh
  <2> QED
    BY <2>4, <2>6, <2>7 DEF LogsInv
\* The steps that only move it, or keep the channel as it is.
<1>6. ASSUME NEW k \in FanWorker, fanWorker' = k, UNCHANGED batches,
             muHeld' \in BOOLEAN, cached' \in {NoCache} \cup {{F} : F \in FilterSets},
             fanFlags' \in [closed : BOOLEAN, dead : BOOLEAN], fanFlags.dead => fanFlags'.dead,
             fanWorker.pc # "gone",
             consumer = "fan" => (muHeld' <=> k.pc \in {"read", "fill"}),
             k.pc = "drain" \/ (k.pc \in InBatch /\ k.back = "drain") => QuitClosed,
             k.pc = "dead" => fanFlags'.dead,
             k.pc = "gone" => fanFlags'.dead \/ (QuitClosed /\ batches = <<>>),
             consumer = "fan" /\ ~Forgetting =>
               cached' \subseteq {Compiled(filters)} /\ (k.pc = "fill" => k.found = Compiled(filters))
      PROVE  LogsInv'
  <2>1. LogsTypeOK'
    BY <1>1, <1>4, <1>6
  <2>2. closing # "closed"
    BY <1>0, <1>6 DEF WorkerPlaced
  <2>3. batches = <<>> => DOMAIN batches = {}
    OBVIOUS
  <2>4. WorkerPlaced'
    BY <1>2, <1>3, <1>6, <2>2, <2>3 DEF WorkerPlaced
  <2>5. CacheFresh'
    BY <1>2, <1>3, <1>6 DEF CacheFresh
  <2> QED
    BY <2>1, <2>4, <2>5 DEF LogsInv
<1>7. /\ muHeld \in BOOLEAN /\ cached \in {NoCache} \cup {{F} : F \in FilterSets}
      /\ fanFlags \in [closed : BOOLEAN, dead : BOOLEAN]
      /\ consumer = "fan" => (muHeld <=> fanWorker.pc \in {"read", "fill"})
      /\ consumer = "fan" /\ ~Forgetting =>
           cached \subseteq {Compiled(filters)} /\ (fanWorker.pc = "fill" => fanWorker.found = Compiled(filters))
      /\ fanWorker.pc = "drain" \/ (fanWorker.pc \in InBatch /\ fanWorker.back = "drain") => QuitClosed
  BY <1>0 DEF LogsTypeOK, WorkerPlaced, CacheFresh
<1>8. CASE SeesQuit \/ Drained
  <2>1. PICK p \in {"drain", "gone"} :
          /\ fanWorker' = [fanWorker EXCEPT !.pc = p] /\ fanWorker.pc \in {"select", "drain"} /\ QuitClosed
          /\ UNCHANGED <<cached, muHeld, fanFlags, batches>>
          /\ p = "gone" => batches = <<>>
    BY <1>7, <1>8 DEF SeesQuit, Drained, WorkerGoes
  <2> DEFINE k == [fanWorker EXCEPT !.pc = p]
  <2>2. k \in FanWorker /\ k.pc = p /\ fanWorker' = k
    BY <1>1, <2>1 DEF FanWorker
  <2> HIDE DEF k
  <2> QED
    BY <1>6, <1>7, <2>1, <2>2
<1>9. CASE LookUp
  <2> DEFINE p == IF cached # NoCache THEN "deliver" ELSE "read"
             k == [fanWorker EXCEPT !.pc = p]
  <2>1. fanWorker.pc = "lookup" /\ fanWorker' = k /\ muHeld' = (cached = NoCache /\ KeepsLock)
        /\ UNCHANGED <<cached, batches, fanFlags>>
    BY <1>9 DEF LookUp, WorkerGoes
  <2>2. k \in FanWorker /\ k.pc = p /\ k.back = fanWorker.back /\ p \in {"deliver", "read"} /\ (p = "read" <=> cached = NoCache)
    BY <1>1 DEF FanWorker, InBatch
  <2>3. consumer = "fan" => (muHeld' <=> p = "read")
    BY <2>1, <2>2 DEF KeepsLock
  <2>4. muHeld' \in BOOLEAN
    BY <2>1
  <2>5. fanWorker.pc \in InBatch /\ p # "fill"
    BY <2>1, <2>2 DEF InBatch
  <2> HIDE DEF k, p
  <2> QED
    BY <1>6, <1>7, <2>1, <2>2, <2>3, <2>4, <2>5
<1>10. CASE ReadFilters
  <2>1. fanWorker.pc = "read" /\ fanWorker.pc \in InBatch /\ UNCHANGED <<cached, batches, fanFlags>>
    BY <1>10 DEF ReadFilters, InBatch
  <2>2. CASE fanWorker' = [fanWorker EXCEPT !.pc = "fill", !.found = Compiled(filters)] /\ UNCHANGED muHeld
    <3> DEFINE k == [fanWorker EXCEPT !.pc = "fill", !.found = Compiled(filters)]
    <3>1. Compiled(filters) \in FilterSets
      BY <1>1, CompiledFits
    <3>2. k \in FanWorker /\ k.pc = "fill" /\ k.back = fanWorker.back /\ k.found = Compiled(filters) /\ fanWorker' = k
      BY <1>1, <2>2, <3>1 DEF FanWorker, InBatch
    <3> HIDE DEF k
    <3> QED
      BY <1>6, <1>7, <2>1, <2>2, <3>2
  <2>3. CASE fanWorker' = [fanWorker EXCEPT !.pc = fanWorker.back] /\ muHeld' = FALSE
    <3> DEFINE k == [fanWorker EXCEPT !.pc = fanWorker.back]
    <3>1. k \in FanWorker /\ k.pc = fanWorker.back /\ k.pc \in {"select", "drain"} /\ fanWorker' = k
      BY <1>1, <2>3 DEF FanWorker
    <3>2. k.pc \notin InBatch
      BY <3>1 DEF InBatch
    <3> HIDE DEF k
    <3> QED
      BY <1>6, <1>7, <2>1, <2>3, <3>1, <3>2
  <2> QED
    BY <1>10, <2>2, <2>3 DEF ReadFilters
<1>11. CASE FillCache
  <2> DEFINE k == [fanWorker EXCEPT !.pc = "deliver", !.found = NoFilters]
  <2>1. /\ fanWorker.pc = "fill" /\ fanWorker.pc \in InBatch /\ UNCHANGED <<batches, fanFlags>>
        /\ cached' = {fanWorker.found} /\ muHeld' = FALSE /\ fanWorker' = k
    BY <1>11 DEF FillCache, InBatch
  <2>2. k \in FanWorker /\ k.pc = "deliver" /\ k.back = fanWorker.back /\ fanWorker.found \in FilterSets
    BY <1>1, NoFiltersFits DEF FanWorker, InBatch
  <2> HIDE DEF k
  <2> QED
    BY <1>6, <1>7, <2>1, <2>2
<1>12. CASE Deliver
  <2> DEFINE k == [fanWorker EXCEPT !.pc = fanWorker.back]
  <2>1. fanWorker.pc = "deliver" /\ fanWorker.pc \in InBatch /\ fanWorker' = k
        /\ UNCHANGED <<cached, muHeld, batches, fanFlags>>
    BY <1>12 DEF Deliver, WorkerGoes, InBatch
  <2>2. k \in FanWorker /\ k.pc = fanWorker.back /\ k.pc \in {"select", "drain"}
    BY <1>1 DEF FanWorker
  <2>3. k.pc \notin InBatch
    BY <2>2 DEF InBatch
  <2> HIDE DEF k
  <2> QED
    BY <1>6, <1>7, <2>1, <2>2, <2>3
<1>13. CASE Panics
  <2> DEFINE k == [fanWorker EXCEPT !.pc = "dying", !.found = NoFilters]
  <2>1. fanWorker.pc \in InBatch /\ fanWorker' = k /\ muHeld' = FALSE
        /\ UNCHANGED <<cached, batches, fanFlags>>
    BY <1>13 DEF Panics
  <2>2. k \in FanWorker /\ k.pc = "dying" /\ "dying" \notin InBatch /\ "gone" \notin InBatch
    BY <1>1, NoFiltersFits DEF FanWorker, InBatch
  <2> HIDE DEF k
  <2> QED
    BY <1>6, <1>7, <2>1, <2>2
<1>14. CASE Dies
  <2>1. PICK p \in {"dead", "gone"} :
          /\ fanWorker' = [fanWorker EXCEPT !.pc = p] /\ fanWorker.pc \in {"dying", "dead"}
          /\ UNCHANGED <<cached, muHeld, batches>>
          /\ fanFlags' \in [closed : BOOLEAN, dead : BOOLEAN] /\ fanFlags'.dead
    <3>1. CASE WorkerGoes("dying", "dead") /\ fanFlags' = [closed |-> TRUE, dead |-> TRUE]
      BY <1>14, <3>1 DEF Dies, WorkerGoes
    <3>2. CASE WorkerGoes("dead", "gone") /\ UNCHANGED fanFlags
      <4>1. fanFlags.dead
        BY <1>0, <3>2 DEF WorkerPlaced, WorkerGoes
      <4> QED
        BY <1>7, <1>14, <3>2, <4>1 DEF Dies, WorkerGoes
    <3> QED
      BY <1>14, <3>1, <3>2 DEF Dies
  <2> DEFINE k == [fanWorker EXCEPT !.pc = p]
  <2>2. k \in FanWorker /\ k.pc = p /\ fanWorker' = k /\ p \notin InBatch
    BY <1>1, <2>1 DEF FanWorker, InBatch
  <2> HIDE DEF k
  <2> QED
    BY <1>6, <1>7, <2>1, <2>2
<1> QED
  BY <1>5, <1>8, <1>9, <1>10, <1>11, <1>12, <1>13, <1>14 DEF FanWorks

\* close.
LEMMA CloseStep == ASSUME LogsInv, FanCloses PROVE LogsInv'
<1>0. LogsTypeOK /\ WorkerPlaced /\ CacheFresh
  BY DEF LogsInv
<1>1. UNCHANGED <<consumer, group, stream, filters, cached, muHeld, batches, fanWorker, logClient>>
  BY DEF FanCloses, groupVars
<1>2. /\ fanFlags' \in [closed : BOOLEAN, dead : BOOLEAN] /\ fanFlags'.dead = fanFlags.dead
      /\ closing' \in {"flagged", "quitting", "closed"} /\ (QuitClosed => QuitClosed')
      /\ closing' = "closed" => fanWorker.pc = "gone"
  BY <1>0 DEF FanCloses, LogsTypeOK, QuitClosed
<1>3. LogsTypeOK'
  BY <1>0, <1>1, <1>2 DEF LogsTypeOK
<1>4. WorkerPlaced'
  BY <1>0, <1>1, <1>2 DEF WorkerPlaced
<1>5. CacheFresh'
  BY <1>0, <1>1 DEF CacheFresh, Forgetting, Compiled
<1> QED
  BY <1>3, <1>4, <1>5 DEF LogsInv

\* Every step of the requests, the worker and close keeps the worker in its
\* place and the cache fresh.
LEMMA LogsStep == LogsInv /\ [LogsNext]_logsVars => LogsInv'
<1> SUFFICES ASSUME LogsInv, [LogsNext]_logsVars PROVE LogsInv'
  OBVIOUS
<1>1. CASE UNCHANGED logsVars
  <2>1. LogsTypeOK'
    BY <1>1 DEF logsVars, LogsInv, LogsTypeOK
  <2>2. WorkerPlaced'
    BY <1>1, RequestKeepsPlace DEF logsVars
  <2>3. CacheFresh'
    <3>1. Compiled(filters)' = Compiled(filters) /\ (Forgetting' <=> Forgetting)
      BY <1>1 DEF logsVars, Compiled, Forgetting
    <3> QED
      BY <1>1, <3>1 DEF logsVars, LogsInv, CacheFresh
  <2> QED
    BY <2>1, <2>2, <2>3 DEF LogsInv
<1>2. CASE LogsNext
  BY <1>2, PlainRequest, FilterRequest, FanRequest, WorkerStep, CloseStep DEF LogsNext, LogRequest
<1> QED
  BY <1>1, <1>2

\* LogsTypeOK for every set of requests, filters and patterns.
THEOREM LogsTyped == LogsSpec => []LogsTypeOK
<1>1. LogsInv => LogsTypeOK
  BY DEF LogsInv
<1> QED
  BY <1>1, LogsInitInv, LogsStep, PTL DEF LogsSpec

\* FanoutFresh for every set of requests and filters: once the requests that
\* changed subscriptions have returned, the fan-out (logs/fanout.go) has cached
\* what is stored or nothing, because it reads the filters under its mutex.
THEOREM FanoutKeepsUp == LogsSpec => []FanoutFresh
<1>1. LogsInv => FanoutFresh
  BY DEF LogsInv, CacheFresh, Forgetting, FanoutFresh
<1> QED
  BY <1>1, LogsInitInv, LogsStep, PTL DEF LogsSpec

\* DrainedOnClose and DeathReported for every buffer and number of requests.
THEOREM LogsDrained == LogsSpec => [](DrainedOnClose /\ DeathReported)
<1>1. LogsInv => DrainedOnClose /\ DeathReported
  BY DEF LogsInv, WorkerPlaced, DrainedOnClose, DeathReported
<1> QED
  BY <1>1, LogsInitInv, LogsStep, PTL DEF LogsSpec

-----------------------------------------------------------------------------

\* The timer field says that a flush is to come: a nil one leaves nothing
\* pending, a fired one has its Flush on the way.
TimerTrue ==
  /\ shipTimer = "nil" => pending = {}
  /\ shipTimer = "fired" => \E f \in Flushers : flusher[f].pc = "take"

QuitTold == shipClose.pc \in {"wait", "closed", "abandoned"}

\* The worker holds a batch only while it ships it, drains only when told to
\* quit, and is gone only drained or marked dead.
ShipperPlaced ==
  /\ shipWorker.pc # "ship" => shipWorker.batch = {}
  /\ shipWorker.pc = "drain" \/ (shipWorker.pc = "ship" /\ shipWorker.back = "drain") => QuitTold
  /\ shipWorker.pc = "dead" => shipFlags.dead
  /\ WorkerGone => QuitTold \/ shipFlags.dead
  /\ shipClose.pc = "closed" => WorkerGone

Dying == shipFlags.dead \/ shipWorker.pc \in {"dying", "dead"}

\* What Close took and has sent is in the channel, in the worker's hands or
\* handled, until the worker dies; once the worker is gone it is handled.
CloseCarried ==
  ~Dying /\ (shipClose.pc = "quit" \/ QuitTold) =>
    \A e \in shipClose.batch :
      \/ e \in handled
      \/ /\ ~WorkerGone
         /\ e \in shipWorker.batch \/ \E i \in DOMAIN work : e \in work[i]

ShipInv == ShipperTypeOK /\ TimerTrue /\ ShipperPlaced /\ CloseCarried

Batched == [pc : {"idle", "take", "send"}, batch : SUBSET Events]
ShipWorker == [pc : {"select", "drain", "ship", "dying", "dead", "gone"},
               back : {"select", "drain"}, batch : SUBSET Events]
ShipClose == [pc : {"open", "taken", "send", "quit", "wait", "closed", "abandoned"},
              batch : SUBSET Events]

\* A shipper before its first event.
LEMMA ShipperInitInv == ShipperInit => ShipInv
<1> SUFFICES ASSUME ShipperInit PROVE ShipInv
  OBVIOUS
<1>1. ShipperTypeOK
  <2>1. nextEvent \in 1..MaxEvents + 1 /\ work \in Seq(SUBSET Events) /\ Len(work) <= WorkMax
    BY ShipperAssumption DEF ShipperInit
  <2>2. flusher \in [Flushers -> [pc : {"idle", "take", "send"}, batch : SUBSET Events]]
    BY DEF ShipperInit
  <2> QED
    BY <2>1, <2>2 DEF ShipperInit, ShipperTypeOK
<1>2. TimerTrue
  BY DEF ShipperInit, TimerTrue
<1>3. ShipperPlaced
  BY DEF ShipperInit, ShipperPlaced, WorkerGone
<1>4. CloseCarried
  BY DEF ShipperInit, CloseCarried
<1> QED
  BY <1>1, <1>2, <1>3, <1>4 DEF ShipInv

\* A batch sent to the channel is in it, after what was there.
LEMMA SentKeeps ==
  ASSUME ShipperTypeOK, NEW batch \in SUBSET Events, Sent(batch)
  PROVE  /\ work' \in Seq(SUBSET Events) /\ Len(work') <= WorkMax
         /\ \A e : (\E i \in DOMAIN work : e \in work[i]) => \E i \in DOMAIN work' : e \in work'[i]
         /\ ~WorkerGone => \A e \in batch : \E i \in DOMAIN work' : e \in work'[i]
<1>1. work \in Seq(SUBSET Events) /\ Len(work) <= WorkMax
  BY DEF ShipperTypeOK
<1>2. CASE Len(work) < WorkMax /\ work' = Append(work, batch)
  <2>1. /\ work' \in Seq(SUBSET Events) /\ Len(work) \in Nat /\ Len(work') = Len(work) + 1
        /\ DOMAIN work = 1..Len(work) /\ DOMAIN work' = 1..(Len(work) + 1)
        /\ work'[Len(work) + 1] = batch
        /\ \A i \in 1..Len(work) : work'[i] = work[i]
    BY <1>1, <1>2
  <2>2. Len(work') <= WorkMax
    BY <1>2, <2>1, ShipperAssumption
  <2>3. Len(work) + 1 \in DOMAIN work' /\ \A i \in DOMAIN work : i \in DOMAIN work' /\ work'[i] = work[i]
    BY <2>1
  <2> QED
    BY <2>1, <2>2, <2>3
<1>3. CASE (WorkerGone \/ batch = {}) /\ UNCHANGED work
  BY <1>1, <1>3
<1> QED
  BY <1>2, <1>3 DEF Sent

\* Put and Flush.
LEMMA FlushStep ==
  ASSUME ShipInv,
         \/ PutEvent
         \/ \E f \in Flushers : FlushBegins(f) \/ TimerFlushes(f) \/ Take(f) \/ Send(f)
  PROVE  ShipInv'
<1>0. ShipperTypeOK /\ TimerTrue /\ ShipperPlaced /\ CloseCarried
  BY DEF ShipInv
<1>1. UNCHANGED <<shipFlags, shipWorker, shipClose, handled>>
  BY DEF PutEvent, FlushBegins, TimerFlushes, Take, Send
<1>2. ShipperPlaced'
  BY <1>0, <1>1 DEF ShipperPlaced, QuitTold, WorkerGone
<1>3. ASSUME \A e : (\E i \in DOMAIN work : e \in work[i]) => \E i \in DOMAIN work' : e \in work'[i]
      PROVE  CloseCarried'
  <2>1. (Dying' <=> Dying) /\ (QuitTold' <=> QuitTold) /\ (WorkerGone' <=> WorkerGone)
    BY <1>1 DEF Dying, QuitTold, WorkerGone
  <2> QED
    BY <1>0, <1>1, <1>3, <2>1 DEF CloseCarried
<1>4. flusher \in [Flushers -> Batched] /\ pending \subseteq Events
  BY <1>0 DEF ShipperTypeOK, Batched
<1>5. CASE PutEvent
  <2>1. /\ nextEvent' = nextEvent + 1 /\ nextEvent <= MaxEvents
        /\ UNCHANGED <<flusher, work>>
        /\ pending' \in {pending, pending \cup {nextEvent}}
        /\ shipTimer' \in {shipTimer, "armed"}
        /\ pending' = pending \/ shipTimer' # "nil"
        /\ shipTimer' = "fired" => shipTimer = "fired"
        /\ shipTimer' = "nil" => shipTimer = "nil"
    BY <1>0, <1>5 DEF PutEvent, ShipperTypeOK
  <2>2. nextEvent \in Events /\ nextEvent' \in 1..MaxEvents + 1
    BY <1>0, <2>1, ShipperAssumption DEF ShipperTypeOK, Events
  <2>3. ShipperTypeOK'
    BY <1>0, <1>1, <2>1, <2>2 DEF ShipperTypeOK
  <2>4. TimerTrue'
    BY <1>0, <2>1 DEF TimerTrue
  <2> QED
    BY <1>2, <1>3, <2>1, <2>3, <2>4 DEF ShipInv
\* A Flush goes on.
<1>6. ASSUME NEW f \in Flushers, NEW k \in Batched, flusher' = [flusher EXCEPT ![f] = k],
             work' \in Seq(SUBSET Events) /\ Len(work') <= WorkMax,
             pending' \in {pending, {}}, shipTimer' \in {"nil", "armed", "fired"}, UNCHANGED nextEvent
      PROVE  ShipperTypeOK' /\ flusher'[f] = k /\ \A g \in Flushers \ {f} : flusher'[g] = flusher[g]
  <2>1. flusher' \in [Flushers -> Batched]
    BY <1>4, <1>6
  <2>2. ShipperTypeOK'
    BY <1>0, <1>1, <1>6, <2>1 DEF ShipperTypeOK, Batched
  <2> QED
    BY <1>4, <1>6, <2>2
<1>7. work \in Seq(SUBSET Events) /\ Len(work) <= WorkMax /\ shipTimer \in {"nil", "armed", "fired"}
  BY <1>0 DEF ShipperTypeOK
<1>8. ASSUME NEW f \in Flushers, FlushBegins(f) \/ TimerFlushes(f) PROVE ShipInv'
  <2> DEFINE k == [flusher[f] EXCEPT !.pc = "take"]
  <2>1. /\ flusher' = [flusher EXCEPT ![f] = k] /\ UNCHANGED <<pending, work, nextEvent>>
        /\ shipTimer' = shipTimer \/ (shipTimer = "armed" /\ shipTimer' = "fired")
    BY <1>8 DEF FlushBegins, TimerFlushes
  <2>2. k \in Batched /\ k.pc = "take"
    BY <1>4 DEF Batched
  <2> HIDE DEF k
  <2>3. ShipperTypeOK' /\ flusher'[f] = k
    BY <1>6, <1>7, <2>1, <2>2
  <2>4. TimerTrue'
    BY <1>0, <2>1, <2>2, <2>3 DEF TimerTrue
  <2> QED
    BY <1>2, <1>3, <2>1, <2>3, <2>4 DEF ShipInv
<1>9. ASSUME NEW f \in Flushers, Take(f) PROVE ShipInv'
  <2> DEFINE p == IF pending = {} THEN "idle" ELSE "send"
             k == [pc |-> p, batch |-> pending]
  <2>1. flusher' = [flusher EXCEPT ![f] = k] /\ UNCHANGED <<work, nextEvent>> /\ pending' = {} /\ shipTimer' = "nil"
    BY <1>9 DEF Take, Detached
  <2>2. k \in Batched
    BY <1>4 DEF Batched
  <2> HIDE DEF k
  <2>3. ShipperTypeOK'
    BY <1>6, <1>7, <2>1, <2>2
  <2>4. TimerTrue'
    BY <2>1 DEF TimerTrue
  <2> QED
    BY <1>2, <1>3, <2>1, <2>3, <2>4 DEF ShipInv
<1>10. ASSUME NEW f \in Flushers, Send(f) PROVE ShipInv'
  <2> DEFINE k == [pc |-> "idle", batch |-> {}]
  <2>1. flusher' = [flusher EXCEPT ![f] = k] /\ UNCHANGED <<pending, shipTimer, nextEvent>>
        /\ Sent(flusher[f].batch) /\ flusher[f].pc = "send"
    BY <1>10 DEF Send
  <2>2. k \in Batched /\ flusher[f].batch \in SUBSET Events
    BY <1>4 DEF Batched
  <2> HIDE DEF k
  <2>3. /\ work' \in Seq(SUBSET Events) /\ Len(work') <= WorkMax
        /\ \A e : (\E i \in DOMAIN work : e \in work[i]) => \E i \in DOMAIN work' : e \in work'[i]
    BY <1>0, <2>1, <2>2, SentKeeps
  <2>4. ShipperTypeOK' /\ \A g \in Flushers \ {f} : flusher'[g] = flusher[g]
    BY <1>6, <1>7, <2>1, <2>2, <2>3
  <2>5. TimerTrue'
    BY <1>0, <2>1, <2>4 DEF TimerTrue
  <2> QED
    BY <1>2, <1>3, <2>3, <2>4, <2>5 DEF ShipInv
<1> QED
  BY <1>5, <1>8, <1>9, <1>10

\* The worker.
LEMMA ShipWorkStep == ASSUME ShipInv, ShipWorks PROVE ShipInv'
<1>0. ShipperTypeOK /\ TimerTrue /\ ShipperPlaced /\ CloseCarried
  BY DEF ShipInv
<1>1. UNCHANGED <<shipTimer, flusher, shipClose, nextEvent>> /\ shipWorker.pc # "gone"
  BY DEF ShipWorks, NextBatch, QuitSeen, DrainEnds, Ship, WorkerDies, WorkerTo
<1>2. shipWorker \in ShipWorker /\ work \in Seq(SUBSET Events) /\ Len(work) <= WorkMax
      /\ handled \subseteq Events /\ shipFlags \in [closed : BOOLEAN, dead : BOOLEAN, disabled : BOOLEAN]
  BY <1>0 DEF ShipperTypeOK, ShipWorker
<1>3. QuitTold' <=> QuitTold
  BY <1>1 DEF QuitTold
<1>4. pending' \in {pending, {}}
  BY DEF ShipWorks, NextBatch, QuitSeen, DrainEnds, Ship, WorkerDies, WorkerTo
<1>5. TimerTrue'
  BY <1>0, <1>1, <1>4 DEF TimerTrue
<1>6. shipClose.pc # "closed"
  BY <1>0, <1>1 DEF ShipperPlaced, WorkerGone
<1>7. ASSUME NEW k \in ShipWorker, shipWorker' = k, handled' \subseteq Events,
             work' \in Seq(SUBSET Events) /\ Len(work') <= WorkMax,
             shipFlags' \in [closed : BOOLEAN, dead : BOOLEAN, disabled : BOOLEAN],
             k.pc # "ship" => k.batch = {},
             k.pc = "drain" \/ (k.pc = "ship" /\ k.back = "drain") => QuitTold,
             k.pc = "dead" => shipFlags'.dead,
             k.pc = "gone" => QuitTold \/ shipFlags'.dead,
             CloseCarried'
      PROVE  ShipInv'
  <2>1. ShipperTypeOK'
    BY <1>0, <1>1, <1>4, <1>7 DEF ShipperTypeOK, ShipWorker
  <2>2. ShipperPlaced'
    BY <1>1, <1>3, <1>6, <1>7 DEF ShipperPlaced, WorkerGone
  <2> QED
    BY <1>5, <1>7, <2>1, <2>2 DEF ShipInv
<1>8. /\ shipWorker.pc # "ship" => shipWorker.batch = {}
      /\ shipWorker.pc = "drain" \/ (shipWorker.pc = "ship" /\ shipWorker.back = "drain") => QuitTold
      /\ shipWorker.pc = "dead" => shipFlags.dead
  BY <1>0 DEF ShipperPlaced
<1>9. CASE NextBatch
  <2> DEFINE k == [pc |-> "ship", back |-> shipWorker.pc, batch |-> Head(work)]
  <2>1. /\ shipWorker.pc \in {"select", "drain"} /\ work # <<>> /\ work' = Tail(work) /\ shipWorker' = k
        /\ UNCHANGED <<shipFlags, handled>>
    BY <1>9 DEF NextBatch
  <2>2. /\ Head(work) = work[1] /\ Head(work) \in SUBSET Events /\ Tail(work) \in Seq(SUBSET Events)
        /\ DOMAIN work = 1..Len(work) /\ DOMAIN Tail(work) = 1..(Len(work) - 1)
        /\ Len(work) \in Nat \ {0} /\ Len(Tail(work)) = Len(work) - 1
        /\ \A i \in 1..(Len(work) - 1) : Tail(work)[i] = work[i + 1]
    BY <1>2, <2>1
  <2>3. k \in ShipWorker /\ k.pc = "ship" /\ k.back = shipWorker.pc /\ k.batch = work[1]
    BY <2>1, <2>2 DEF ShipWorker
  <2> HIDE DEF k
  <2>4. \A e : (\E i \in DOMAIN work : e \in work[i]) => e \in k.batch \/ \E i \in DOMAIN work' : e \in work'[i]
    <3> SUFFICES ASSUME NEW e, NEW i \in DOMAIN work, e \in work[i]
                 PROVE  e \in k.batch \/ \E j \in DOMAIN work' : e \in work'[j]
      OBVIOUS
    <3>1. CASE i = 1
      BY <2>3, <3>1
    <3>2. CASE i # 1
      <4>1. i - 1 \in 1..(Len(work) - 1) /\ (i - 1) + 1 = i
        BY <2>2, <3>2
      <4>2. i - 1 \in DOMAIN work' /\ work'[i - 1] = work[i]
        BY <2>1, <2>2, <4>1
      <4> QED
        BY <4>2
    <3> QED
      BY <3>1, <3>2
  <2>5. CloseCarried'
    <3>1. Dying' => Dying
      BY <2>1, <2>3 DEF Dying
    <3>2. ~WorkerGone' /\ shipWorker.batch = {} /\ (Dying => Dying')
      BY <1>8, <2>1, <2>3 DEF WorkerGone, Dying
    <3> QED
      BY <1>0, <1>1, <1>3, <2>1, <2>4, <3>1, <3>2 DEF CloseCarried
  <2>6. Len(work') <= WorkMax
    BY <1>2, <2>1, <2>2, ShipperAssumption
  <2> QED
    BY <1>2, <1>7, <1>8, <2>1, <2>2, <2>3, <2>5, <2>6
<1>10. CASE QuitSeen
  <2> DEFINE k == [shipWorker EXCEPT !.pc = "drain"]
  <2>1. shipWorker.pc = "select" /\ shipWorker' = k /\ UNCHANGED <<work, shipFlags, handled>> /\ QuitTold
    BY <1>10 DEF QuitSeen, WorkerTo, QuitTold
  <2>2. k \in ShipWorker /\ k.pc = "drain" /\ k.batch = shipWorker.batch
    BY <1>2 DEF ShipWorker
  <2> HIDE DEF k
  <2>3. CloseCarried'
    <3>1. (Dying' <=> Dying) /\ ~WorkerGone' /\ ~WorkerGone
      BY <2>1, <2>2 DEF Dying, WorkerGone
    <3> QED
      BY <1>0, <1>1, <1>3, <2>1, <2>2, <3>1 DEF CloseCarried
  <2> QED
    BY <1>2, <1>7, <1>8, <2>1, <2>2, <2>3
<1>11. CASE DrainEnds
  <2> DEFINE k == [shipWorker EXCEPT !.pc = "gone"]
  <2>1. shipWorker.pc = "drain" /\ shipWorker' = k /\ UNCHANGED <<work, shipFlags, handled>> /\ work = <<>>
    BY <1>11 DEF DrainEnds, WorkerTo
  <2>2. k \in ShipWorker /\ k.pc = "gone" /\ k.batch = shipWorker.batch
    BY <1>2 DEF ShipWorker
  <2> HIDE DEF k
  <2>3. CloseCarried'
    <3>1. (Dying' <=> Dying) /\ DOMAIN work = {} /\ shipWorker.batch = {}
      BY <1>8, <2>1, <2>2 DEF Dying
    <3> QED
      BY <1>0, <1>1, <1>3, <2>1, <2>2, <3>1 DEF CloseCarried
  <2> QED
    BY <1>2, <1>7, <1>8, <2>1, <2>2, <2>3
<1>12. CASE Ship
  <2> DEFINE k == [shipWorker EXCEPT !.pc = shipWorker.back, !.batch = {}]
  <2>1. /\ shipWorker.pc = "ship" /\ shipWorker' = k /\ UNCHANGED work /\ handled' = handled \cup shipWorker.batch
        /\ shipFlags' \in [closed : BOOLEAN, dead : BOOLEAN, disabled : BOOLEAN]
        /\ shipFlags'.dead = shipFlags.dead
    BY <1>2, <1>12 DEF Ship
  <2>2. k \in ShipWorker /\ k.pc = shipWorker.back /\ k.pc \in {"select", "drain"} /\ k.batch = {}
        /\ shipWorker.batch \in SUBSET Events
    BY <1>2 DEF ShipWorker
  <2> HIDE DEF k
  <2>3. CloseCarried'
    <3>1. (Dying' <=> Dying) /\ ~WorkerGone' /\ ~WorkerGone
      BY <2>1, <2>2 DEF Dying, WorkerGone
    <3> QED
      BY <1>0, <1>1, <1>3, <2>1, <2>2, <3>1 DEF CloseCarried
  <2> QED
    BY <1>2, <1>7, <1>8, <2>1, <2>2, <2>3
<1>13. CASE WorkerDies
  <2>1. PICK p \in {"dying", "dead", "gone"}, b \in {{}, shipWorker.batch} :
          /\ shipWorker' = [shipWorker EXCEPT !.pc = p, !.batch = b]
          /\ b = {}
          /\ shipFlags' \in [closed : BOOLEAN, dead : BOOLEAN, disabled : BOOLEAN]
          /\ p = "dead" \/ p = "gone" => shipFlags'.dead
          /\ UNCHANGED <<work, handled>>
    <3>1. CASE shipWorker' = [shipWorker EXCEPT !.pc = "dying", !.batch = {}] /\ UNCHANGED shipFlags
      BY <1>2, <1>13, <3>1 DEF WorkerDies
    <3>2. CASE WorkerTo("dying", "dead") /\ shipFlags' = [shipFlags EXCEPT !.closed = TRUE, !.dead = TRUE]
      <4>1. shipWorker.batch = {} /\ shipWorker' = [shipWorker EXCEPT !.pc = "dead"]
        BY <1>8, <3>2 DEF WorkerTo
      <4>2. shipWorker' = [shipWorker EXCEPT !.pc = "dead", !.batch = {}]
        BY <1>2, <4>1 DEF ShipWorker
      <4> QED
        BY <1>2, <1>13, <3>2, <4>2 DEF WorkerDies
    <3>3. CASE WorkerTo("dead", "gone") /\ UNCHANGED shipFlags
      <4>1. shipWorker.batch = {} /\ shipWorker' = [shipWorker EXCEPT !.pc = "gone"] /\ shipFlags.dead
        BY <1>8, <3>3 DEF WorkerTo
      <4>2. shipWorker' = [shipWorker EXCEPT !.pc = "gone", !.batch = {}]
        BY <1>2, <4>1 DEF ShipWorker
      <4> QED
        BY <1>2, <1>13, <3>3, <4>1, <4>2 DEF WorkerDies
    <3> QED
      BY <1>13, <3>1, <3>2, <3>3 DEF WorkerDies
  <2> DEFINE k == [shipWorker EXCEPT !.pc = p, !.batch = b]
  <2>2. k \in ShipWorker /\ k.pc = p /\ k.batch = {} /\ shipWorker' = k
    BY <1>2, <2>1 DEF ShipWorker
  <2> HIDE DEF k
  <2>3. CloseCarried'
    <3>1. Dying'
      BY <2>1, <2>2 DEF Dying
    <3> QED
      BY <3>1 DEF CloseCarried
  <2> QED
    BY <1>2, <1>7, <2>1, <2>2, <2>3
<1> QED
  BY <1>9, <1>10, <1>11, <1>12, <1>13 DEF ShipWorks

\* Close.
LEMMA ShipCloseStep == ASSUME ShipInv, ShipperCloses PROVE ShipInv'
<1>0. ShipperTypeOK /\ TimerTrue /\ ShipperPlaced /\ CloseCarried
  BY DEF ShipInv
<1>1. UNCHANGED <<flusher, shipWorker, handled, nextEvent>>
  BY DEF ShipperCloses, CloseTakes, CloseFlags, CloseSends, CloseWaits
<1>2. shipClose \in ShipClose /\ pending \subseteq Events
      /\ shipFlags \in [closed : BOOLEAN, dead : BOOLEAN, disabled : BOOLEAN]
      /\ work \in Seq(SUBSET Events) /\ Len(work) <= WorkMax
  BY <1>0 DEF ShipperTypeOK, ShipClose
<1>3. ASSUME NEW k \in ShipClose, shipClose' = k,
             (pending' = {} /\ shipTimer' = "nil") \/ UNCHANGED <<pending, shipTimer>>,
             work' \in Seq(SUBSET Events) /\ Len(work') <= WorkMax,
             shipFlags' \in [closed : BOOLEAN, dead : BOOLEAN, disabled : BOOLEAN],
             shipFlags'.dead = shipFlags.dead,
             QuitTold => QuitTold', k.pc = "closed" => WorkerGone,
             CloseCarried'
      PROVE  ShipInv'
  <2>1. pending' \subseteq Events /\ shipTimer' \in {"nil", "armed", "fired"}
    BY <1>0, <1>3 DEF ShipperTypeOK
  <2>2. ShipperTypeOK'
    BY <1>0, <1>1, <1>3, <2>1 DEF ShipperTypeOK, ShipClose
  <2>3. TimerTrue'
    BY <1>0, <1>1, <1>3 DEF TimerTrue
  <2>4. ShipperPlaced'
    BY <1>0, <1>1, <1>3 DEF ShipperPlaced, WorkerGone
  <2> QED
    BY <1>3, <2>2, <2>3, <2>4 DEF ShipInv
<1>4. CASE CloseTakes
  <2> DEFINE k == [pc |-> "taken", batch |-> pending]
  <2>1. shipClose.pc = "open" /\ shipClose' = k /\ UNCHANGED <<work, shipFlags>> /\ pending' = {} /\ shipTimer' = "nil"
    BY <1>4 DEF CloseTakes, Detached
  <2>2. k \in ShipClose /\ k.pc = "taken"
    BY <1>2 DEF ShipClose
  <2> HIDE DEF k
  <2>3. CloseCarried' /\ ~QuitTold
    BY <2>1, <2>2 DEF CloseCarried, QuitTold
  <2> QED
    BY <1>2, <1>3, <2>1, <2>2, <2>3
<1>5. CASE CloseFlags
  <2> DEFINE k == [shipClose EXCEPT !.pc = "send"]
  <2>1. shipClose.pc = "taken" /\ shipClose' = k /\ UNCHANGED <<work, pending, shipTimer>>
        /\ shipFlags' = [shipFlags EXCEPT !.closed = TRUE]
    BY <1>5 DEF CloseFlags, CloseTo
  <2>2. k \in ShipClose /\ k.pc = "send"
    BY <1>2 DEF ShipClose
  <2> HIDE DEF k
  <2>3. CloseCarried' /\ ~QuitTold
    BY <2>1, <2>2 DEF CloseCarried, QuitTold
  <2>4. shipFlags' \in [closed : BOOLEAN, dead : BOOLEAN, disabled : BOOLEAN] /\ shipFlags'.dead = shipFlags.dead
    BY <1>2, <2>1
  <2> QED
    BY <1>2, <1>3, <2>1, <2>2, <2>3, <2>4
<1>6. CASE CloseSends
  <2> DEFINE k == [shipClose EXCEPT !.pc = "quit"]
  <2>1. shipClose.pc = "send" /\ shipClose' = k /\ UNCHANGED <<shipFlags, pending, shipTimer>>
        /\ Sent(shipClose.batch)
    BY <1>6 DEF CloseSends, CloseTo
  <2>2. k \in ShipClose /\ k.pc = "quit" /\ k.batch = shipClose.batch /\ shipClose.batch \in SUBSET Events
    BY <1>2 DEF ShipClose
  <2> HIDE DEF k
  <2>3. /\ work' \in Seq(SUBSET Events) /\ Len(work') <= WorkMax
        /\ ~WorkerGone => \A e \in shipClose.batch : \E i \in DOMAIN work' : e \in work'[i]
    BY <1>0, <2>1, <2>2, SentKeeps
  <2>4. ~QuitTold
    BY <2>1 DEF QuitTold
  <2>5. CloseCarried'
    <3>1. (Dying' <=> Dying) /\ (WorkerGone' <=> WorkerGone)
      BY <1>1, <2>1 DEF Dying, WorkerGone
    <3>2. WorkerGone => Dying
      BY <1>0, <2>4 DEF ShipperPlaced, Dying
    <3> QED
      BY <2>1, <2>2, <2>3, <3>1, <3>2 DEF CloseCarried
  <2> QED
    BY <1>2, <1>3, <2>1, <2>2, <2>3, <2>4, <2>5
<1>7. CASE CloseWaits
  <2>1. PICK p \in {"wait", "closed", "abandoned"} :
          /\ shipClose' = [shipClose EXCEPT !.pc = p] /\ shipClose.pc \in {"quit", "wait"}
          /\ p = "closed" => WorkerGone
          /\ UNCHANGED <<shipFlags, pending, shipTimer, work>>
    BY <1>7 DEF CloseWaits, CloseTo
  <2> DEFINE k == [shipClose EXCEPT !.pc = p]
  <2>2. k \in ShipClose /\ k.pc = p /\ k.batch = shipClose.batch /\ shipClose' = k
    BY <1>2, <2>1 DEF ShipClose
  <2> HIDE DEF k
  <2>3. QuitTold'
    BY <2>1, <2>2 DEF QuitTold
  <2>4. CloseCarried'
    <3>1. (Dying' <=> Dying) /\ (WorkerGone' <=> WorkerGone) /\ (shipClose.pc = "quit" \/ QuitTold)
      BY <1>1, <2>1 DEF Dying, WorkerGone, QuitTold
    <3> QED
      BY <1>0, <1>1, <2>1, <2>2, <3>1 DEF CloseCarried
  <2> QED
    BY <1>2, <1>3, <2>1, <2>2, <2>3, <2>4
<1> QED
  BY <1>4, <1>5, <1>6, <1>7 DEF ShipperCloses

\* Every step of Put, Flush, the worker and Close keeps what is pending timed
\* and what Close took on its way.
LEMMA ShipperStep == ShipInv /\ [ShipperNext]_shipVars => ShipInv'
<1> SUFFICES ASSUME ShipInv, [ShipperNext]_shipVars PROVE ShipInv'
  OBVIOUS
<1>1. CASE UNCHANGED shipVars
  <2>1. ShipperTypeOK' /\ TimerTrue'
    BY <1>1 DEF shipVars, ShipInv, ShipperTypeOK, TimerTrue
  <2>2. ShipperPlaced'
    BY <1>1 DEF shipVars, ShipInv, ShipperPlaced, QuitTold, WorkerGone
  <2>3. CloseCarried'
    BY <1>1 DEF shipVars, ShipInv, CloseCarried, QuitTold, WorkerGone, Dying
  <2> QED
    BY <2>1, <2>2, <2>3 DEF ShipInv
<1>2. CASE ShipperNext
  BY <1>2, FlushStep, ShipWorkStep, ShipCloseStep DEF ShipperNext
<1> QED
  BY <1>1, <1>2

\* ShipperTypeOK for every number of flushers and events.
THEOREM ShipperTyped == ShipperSpec => []ShipperTypeOK
<1>1. ShipInv => ShipperTypeOK
  BY DEF ShipInv
<1> QED
  BY <1>1, ShipperInitInv, ShipperStep, PTL DEF ShipperSpec

\* PendingIsTimed and ShippedOnClose for every number of flushers and events and
\* every channel.
THEOREM ShipperKeeps == ShipperSpec => [](PendingIsTimed /\ ShippedOnClose)
<1>1. ShipInv => PendingIsTimed /\ ShippedOnClose
  <2> SUFFICES ASSUME ShipInv PROVE PendingIsTimed /\ ShippedOnClose
    OBVIOUS
  <2>1. PendingIsTimed
    BY DEF ShipInv, ShipperTypeOK, TimerTrue, PendingIsTimed
  <2>2. ShippedOnClose
    BY DEF ShipInv, ShipperPlaced, CloseCarried, QuitTold, Dying, WorkerGone, ShippedOnClose
  <2> QED
    BY <2>1, <2>2
<1> QED
  BY <1>1, ShipperInitInv, ShipperStep, PTL DEF ShipperSpec

-----------------------------------------------------------------------------
(* The services together.                                                  *)

\* A behaviour of the data services is, of each of them, its own behaviour:
\* the steps of the others leave its state alone.
LEMMA DataLogsStep == [DataNext]_dataVars => [LogsNext]_logsVars
BY DEF DataNext, dataVars, PassNext, passVars, BucketNext

\* The same for the shipper.
LEMMA DataShipperStep == [DataNext]_dataVars => [ShipperNext]_shipVars
BY DEF DataNext, dataVars, PassNext, passVars, BucketNext

\* TelemetryKept for every set of requests, flushers and events: what the log
\* group's channel (logs/fanout.go, logs/metricemit.go) and the shippers
\* (internal/logship, internal/metricship) had accepted before close is handled
\* when close returns, pending events have a flush to come, and a worker that
\* died is marked.
THEOREM TelemetrySurvives == DataSpec => []TelemetryKept
<1>1. DataInit => LogsInit /\ ShipperInit
  BY DEF DataInit
<1>2. DataSpec => LogsSpec /\ ShipperSpec
  BY <1>1, DataLogsStep, DataShipperStep, PTL DEF DataSpec, LogsSpec, ShipperSpec
<1>3. DrainedOnClose /\ DeathReported /\ PendingIsTimed /\ ShippedOnClose => TelemetryKept
  BY DEF TelemetryKept
<1> QED
  BY <1>2, <1>3, LogsDrained, ShipperKeeps, PTL

\* The same for the bucket, the table, the secret and the bus.
LEMMA DataStoreStep ==
  [DataNext]_dataVars => /\ [S3Next]_s3Vars /\ [DdbNext]_ddbVars
                         /\ [SecretNext]_secretVars /\ [EventNext]_eventVars
<1>1. [DataNext]_dataVars => [S3Next]_s3Vars
  BY DEF DataNext, dataVars, PassNext, passVars, BucketNext
<1>2. [DataNext]_dataVars => [DdbNext]_ddbVars
  BY DEF DataNext, dataVars, PassNext, passVars, BucketNext
<1>3. [DataNext]_dataVars => [SecretNext]_secretVars
  BY DEF DataNext, dataVars, PassNext, passVars, BucketNext
<1>4. [DataNext]_dataVars => [EventNext]_eventVars
  BY DEF DataNext, dataVars, PassNext, passVars, BucketNext, BusNext
<1> QED
  BY <1>1, <1>2, <1>3, <1>4

\* DataTypeOK for every value of the constants: what the stores, the bus, the
\* group and the shipper keep stays what the code declares.
THEOREM DataTyped == DataSpec => []DataTypeOK
<1>1. DataInit => /\ S3Init /\ DdbInit /\ SecretInit /\ EventInit /\ LogsInit /\ ShipperInit
  BY DEF DataInit
<1>2. DataSpec => S3Spec /\ DdbSpec /\ SecretSpec /\ EventSpec
  BY <1>1, DataStoreStep, PTL DEF DataSpec, S3Spec, DdbSpec, SecretSpec, EventSpec
<1>3. DataSpec => LogsSpec /\ ShipperSpec
  BY <1>1, DataLogsStep, DataShipperStep, PTL DEF DataSpec, LogsSpec, ShipperSpec
<1>4. /\ S3TypeOK /\ DdbTypeOK /\ SecretTypeOK /\ EventTypeOK /\ LogsTypeOK /\ ShipperTypeOK
      => DataTypeOK
  BY DEF DataTypeOK
<1> QED
  BY <1>2, <1>3, <1>4, BucketTyped, TableTypes, SecretTyped, EventsTyped, LogsTyped,
     ShipperTyped, PTL

=============================================================================
