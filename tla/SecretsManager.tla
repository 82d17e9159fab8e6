--------------------------- MODULE SecretsManager ---------------------------
(***************************************************************************)
(* One secret of Secrets Manager (secretsmanager): its versions and their  *)
(* staging labels, its scheduled deletion, and rotations of it.  A store   *)
(* operation is one bbolt transaction.  A rotation is not: it loads the    *)
(* secret, calls the rotation function four times, and then marks the      *)
(* secret by name; clients, other rotations, deletion and the purge run    *)
(* between the calls.  A version is its staging labels; the value, sealed, *)
(* is never looked at.                                                     *)
(***************************************************************************)
EXTENDS Naturals, FiniteSets

CONSTANTS
  Versions,     \* version ids: client request tokens
  Rotations,    \* RotateSecret requests
  Recovery,     \* the recovery window
  SecretTime    \* bound: the clock

ASSUME SecretConstants == Recovery \in Nat \ {0} /\ SecretTime \in Nat \ {0}

VARIABLES
  secret,      \* the stored secret, apart from its versions
  versions,    \* sec.Versions: version id -> is it there, and its labels
  rotating,    \* rotations -> the version a rotation makes and its next step
  secretClock

secretVars == <<secret, versions, rotating, secretClock>>

Labels == {"AWSCURRENT", "AWSPREVIOUS", "AWSPENDING"}
Steps == {"idle", "createSecret", "setSecret", "testSecret", "finishSecret", "mark"}

NotRotating == [step |-> "idle", version |-> "none"]
NoVersion == [there |-> FALSE, stages |-> {}]
NoSecret == [there |-> FALSE, deletedAt |-> 0, purgeAt |-> 0, rotated |-> FALSE]

SecretTypeOK ==
  /\ secret \in [there : BOOLEAN, deletedAt : 0..SecretTime, purgeAt : 0..(SecretTime + Recovery),
                 rotated : BOOLEAN]
  /\ versions \in [Versions -> [there : BOOLEAN, stages : SUBSET Labels]]
  /\ \A v \in Versions : versions[v].stages # {} => versions[v].there /\ secret.there
  /\ rotating \in [Rotations -> [step : Steps, version : Versions \cup {"none"}]]
  /\ secretClock \in 1..SecretTime

SecretInit ==
  /\ secret = NoSecret
  /\ versions = [v \in Versions |-> NoVersion]
  /\ rotating = [r \in Rotations |-> NotRotating]
  /\ secretClock = 1

-----------------------------------------------------------------------------
(* Staging labels                                                          *)

Holders(stage) == {v \in Versions : stage \in versions[v].stages}

\* Weakened form of Added: only AWSCURRENT is taken from the version that has it.
AddedCarelessly(v, stages) ==
  [u \in Versions |->
     IF u = v THEN [there |-> TRUE, stages |-> stages]
     ELSE [versions[u] EXCEPT !.stages =
       IF "AWSCURRENT" \in stages
       THEN IF "AWSCURRENT" \in @ THEN (@ \ {"AWSCURRENT"}) \cup {"AWSPREVIOUS"}
            ELSE @ \ {"AWSPREVIOUS"}
       ELSE @]]

\* AddVersion: AWSCURRENT leaves AWSPREVIOUS behind, which leaves the version
\* that had it; every other label asked for is taken from its holder.
Added(v, stages) ==
  [u \in Versions |->
     IF u = v THEN [there |-> TRUE, stages |-> stages]
     ELSE [versions[u] EXCEPT !.stages =
       (IF "AWSCURRENT" \in stages
        THEN IF "AWSCURRENT" \in @ THEN (@ \ {"AWSCURRENT"}) \cup {"AWSPREVIOUS"}
             ELSE @ \ {"AWSPREVIOUS"}
        ELSE @) \ (stages \ {"AWSCURRENT"})]]

\* Weakened form of Moved: the version that loses AWSCURRENT is not remembered.
MovedForgetting(stage, to) ==
  [u \in Versions |->
     [versions[u] EXCEPT !.stages = IF u = to THEN @ \cup {stage} ELSE @ \ {stage}]]

\* The label moves to a version; when it is AWSCURRENT, the version it left,
\* if that is another one, alone has AWSPREVIOUS.
Moved(stage, to) ==
  LET held == Holders(stage) \ {to}
      back == stage = "AWSCURRENT" /\ held # {} /\ to \notin Holders(stage)
  IN [u \in Versions |->
       [versions[u] EXCEPT !.stages =
          LET kept == IF u = to THEN @ \cup {stage} ELSE @ \ {stage}
          IN CASE ~back -> kept
               [] back /\ u \in held -> kept \cup {"AWSPREVIOUS"}
               [] OTHER -> kept \ {"AWSPREVIOUS"}]]

-----------------------------------------------------------------------------
(* The store's operations                                                  *)

Usable == secret.there /\ secret.deletedAt = 0

\* CreateSecret; without a value the secret has no version.
CreateSecret(v, valued) ==
  /\ ~secret.there
  /\ secret' = [NoSecret EXCEPT !.there = TRUE]
  /\ versions' = IF valued
                 THEN [versions EXCEPT ![v] = [there |-> TRUE, stages |-> {"AWSCURRENT"}]]
                 ELSE versions
  /\ UNCHANGED <<rotating, secretClock>>

\* The value of a version is stored once: its id sent again changes nothing.
PutSecretValue(v, stages) ==
  /\ Usable
  /\ ~versions[v].there
  /\ versions' = Added(v, stages)
  /\ UNCHANGED <<secret, rotating, secretClock>>

\* The guards of UpdateSecretVersionStage; from is a set of at most one
\* version id.  A secret scheduled for deletion is not refused.
MayMove(stage, to, from) ==
  /\ secret.there
  /\ from \subseteq Holders(stage)
  /\ versions[to].there

UpdateSecretVersionStage(stage, to, from) ==
  /\ MayMove(stage, to, from)
  /\ versions' = Moved(stage, to)
  /\ UNCHANGED <<secret, rotating, secretClock>>

\* AWSCURRENT can only be moved.
RemovableLabels == Labels \ {"AWSCURRENT"}

RemoveVersionStage(stage, from) ==
  /\ stage \in RemovableLabels
  /\ secret.there
  /\ from \in Holders(stage)
  /\ versions' = [versions EXCEPT ![from].stages = @ \ {stage}]
  /\ UNCHANGED <<secret, rotating, secretClock>>

SecretGone ==
  /\ secret' = NoSecret
  /\ versions' = [v \in Versions |-> NoVersion]

DeleteSecret(force) ==
  /\ secret.there
  /\ IF force THEN SecretGone
     ELSE /\ secret.deletedAt = 0
          /\ secret' = [secret EXCEPT !.deletedAt = secretClock,
                                      !.purgeAt = secretClock + Recovery]
          /\ UNCHANGED versions
  /\ UNCHANGED <<rotating, secretClock>>

Restored == [secret EXCEPT !.deletedAt = 0, !.purgeAt = 0]

RestoreSecret ==
  /\ secret.there
  /\ secret' = Restored
  /\ UNCHANGED <<versions, rotating, secretClock>>

\* SweepDeleted, in one transaction.
PurgeSecret ==
  /\ secret.there
  /\ secret.purgeAt > 0 /\ secret.purgeAt <= secretClock
  /\ SecretGone
  /\ UNCHANGED <<rotating, secretClock>>

-----------------------------------------------------------------------------
(* Rotation.  The rotation function is the user's; what it does in its     *)
(* four steps is the protocol Secrets Manager documents for it.            *)

GoesOn(r, step) == rotating' = [rotating EXCEPT ![r].step = step]

Ends(r) == rotating' = [rotating EXCEPT ![r] = NotRotating]

\* The secret is loaded, whatever its state, and the version id is new.
RotateSecret(r, v) ==
  /\ rotating[r].step = "idle"
  /\ secret.there
  /\ ~versions[v].there
  /\ \A o \in Rotations : rotating[o].step # "idle" => rotating[o].version # v
  /\ rotating' = [rotating EXCEPT ![r] = [step |-> "createSecret", version |-> v]]
  /\ UNCHANGED <<secret, versions, secretClock>>

\* createSecret puts the new value under AWSPENDING.
RotationCreates(r) ==
  /\ rotating[r].step = "createSecret"
  /\ Usable
  /\ versions' = IF versions[rotating[r].version].there THEN versions
                 ELSE Added(rotating[r].version, {"AWSPENDING"})
  /\ GoesOn(r, "setSecret")
  /\ UNCHANGED <<secret, secretClock>>

\* setSecret and testSecret leave the secret alone.
RotationTests(r) ==
  /\ rotating[r].step \in {"setSecret", "testSecret"}
  /\ GoesOn(r, IF rotating[r].step = "setSecret" THEN "testSecret" ELSE "finishSecret")
  /\ UNCHANGED <<secret, versions, secretClock>>

\* finishSecret moves AWSCURRENT to the new version.
RotationFinishes(r) ==
  /\ rotating[r].step = "finishSecret"
  /\ MayMove("AWSCURRENT", rotating[r].version, {})
  /\ versions' = Moved("AWSCURRENT", rotating[r].version)
  /\ GoesOn(r, "mark")
  /\ UNCHANGED <<secret, secretClock>>

\* A failed call ends the rotation with an error; nothing is undone.
RotationFails(r) ==
  /\ rotating[r].step \notin {"idle", "mark"}
  /\ Ends(r)
  /\ UNCHANGED <<secret, versions, secretClock>>

\* The secret of that name, if there still is one, is marked as rotated.
RotationMarks(r) ==
  /\ rotating[r].step = "mark"
  /\ secret' = IF secret.there THEN [secret EXCEPT !.rotated = TRUE] ELSE secret
  /\ Ends(r)
  /\ UNCHANGED <<versions, secretClock>>

CancelRotateSecret ==
  /\ secret.there
  /\ secret' = [secret EXCEPT !.rotated = FALSE]
  /\ UNCHANGED <<versions, rotating, secretClock>>

SecretTick ==
  /\ secretClock < SecretTime
  /\ secretClock' = secretClock + 1
  /\ UNCHANGED <<secret, versions, rotating>>

SecretNext ==
  \/ \E v \in Versions, valued \in BOOLEAN : CreateSecret(v, valued)
  \/ \E v \in Versions, stages \in SUBSET Labels \ {{}} : PutSecretValue(v, stages)
  \/ \E stage \in Labels, to \in Versions, from \in {{}} \cup {{v} : v \in Versions} :
       UpdateSecretVersionStage(stage, to, from)
  \/ \E stage \in Labels, from \in Versions : RemoveVersionStage(stage, from)
  \/ \E force \in BOOLEAN : DeleteSecret(force)
  \/ RestoreSecret
  \/ PurgeSecret
  \/ \E r \in Rotations :
       \/ \E v \in Versions : RotateSecret(r, v)
       \/ RotationCreates(r) \/ RotationTests(r) \/ RotationFinishes(r)
       \/ RotationFails(r) \/ RotationMarks(r)
  \/ CancelRotateSecret
  \/ SecretTick

SecretSpec == SecretInit /\ [][SecretNext]_secretVars

-----------------------------------------------------------------------------
(* Properties                                                              *)

\* A staging label names at most one version, whatever rotations, retries
\* and clients did to the labels: GetSecretValue, which takes the first
\* version it finds in a Go map, has one answer.
OneVersionPerLabel == \A stage \in Labels : Cardinality(Holders(stage)) <= 1

\* A secret that has a current value keeps one until it is deleted.
CurrentStays ==
  [][Holders("AWSCURRENT") # {} /\ secret'.there =>
       Holders("AWSCURRENT")' # {}]_secretVars

\* The value that stops being current can be gone back to: its version has
\* AWSPREVIOUS, unless the new version was put with that label too.
RollbackPossible ==
  [][\A old \in Holders("AWSCURRENT"), new \in Holders("AWSCURRENT")' :
       old # new /\ "AWSPREVIOUS" \notin versions'[new].stages =>
         "AWSPREVIOUS" \in versions'[old].stages]_secretVars

\* Whatever moves the labels, a secret keeps a current value and the way back
\* to the one before.
LabelsHandedOver == CurrentStays /\ RollbackPossible

=============================================================================
