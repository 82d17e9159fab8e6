------------------------------- MODULE S3Api -------------------------------
(***************************************************************************)
(* What a bucket promises its clients: for every key its versions in the   *)
(* order they were put, each with the body that was put, and operations    *)
(* that happen at once.  A delete marker is a version without a body.  A   *)
(* delete never takes a version that is under legal hold.  How bodies are  *)
(* stored, uploads assembled and files cleaned up does not appear; S3Store *)
(* is shown to implement this.                                             *)
(***************************************************************************)
EXTENDS Naturals

CONSTANTS
  Keys,      \* the object keys
  Contents   \* every body an object may have

VARIABLES
  exists,    \* the bucket exists
  mode,      \* its versioning: "", "Enabled" or "Suspended"
  stack      \* the versions of each key, by numbers that grow: the newest is on top

apiVars == <<exists, mode, stack>>

\* The id that versions outside of versioning have.
NullId == 0

Marker == <<>>

NoVersions == [n \in {} |-> Marker]

ApiInit == exists = FALSE /\ mode = "" /\ stack = [k \in Keys |-> NoVersions]

Dropped(s, N) == [n \in DOMAIN s \ N |-> s[n]]

Nulls(s) == {n \in DOMAIN s : s[n].id = NullId}

\* Outside of Enabled versioning a version takes the place of the null version.
Under(s) == IF mode = "Enabled" THEN s ELSE Dropped(s, Nulls(s))

\* Version n of key k is new and on top.  It has a body of B and, in a
\* versioned bucket, an id that no other has.
Pushed(k, B) ==
  LET s == stack[k]
      t == stack'[k]
  IN \E n \in DOMAIN t :
       /\ \A m \in DOMAIN s : m < n
       /\ t[n].body \in B
       /\ t[n].id = NullId <=> mode # "Enabled"
       /\ \A m \in DOMAIN Under(s) : s[m].id # t[n].id
       /\ stack' = [stack EXCEPT ![k] = [m \in DOMAIN Under(s) \cup {n} |->
                                           IF m = n THEN t[n] ELSE s[m]]]

ApiCreate ==
  /\ ~exists
  /\ exists' = TRUE /\ mode' \in {"", "Enabled"}
  /\ UNCHANGED stack

ApiDelete ==
  /\ exists /\ \A k \in Keys : stack[k] = NoVersions
  /\ exists' = FALSE /\ mode' = ""
  /\ UNCHANGED stack

ApiVersioning ==
  /\ exists
  /\ mode' \in {"Enabled", "Suspended"}
  /\ UNCHANGED <<exists, stack>>

ApiPut(k) ==
  /\ exists
  /\ Pushed(k, Contents)
  /\ UNCHANGED <<exists, mode>>

Held(k, n) == stack[k][n].held

OnTop(k, n) == \A m \in DOMAIN stack[k] : m <= n

\* A delete that names a version takes exactly that one.
ApiRemoveVersion(k, n) ==
  /\ exists /\ ~Held(k, n)
  /\ stack' = [stack EXCEPT ![k] = Dropped(@, {n})]
  /\ UNCHANGED <<exists, mode>>

\* A delete that names no version: in a bucket that was never versioned the end
\* of the object, else a marker.
ApiRemove(k) ==
  \/ mode = "" /\ \E n \in DOMAIN stack[k] : OnTop(k, n) /\ ApiRemoveVersion(k, n)
  \/ /\ exists /\ mode # ""
     /\ mode = "Suspended" => \A n \in Nulls(stack[k]) : ~Held(k, n)
     /\ Pushed(k, {Marker})
     /\ UNCHANGED <<exists, mode>>

\* A legal hold is put on a version or lifted.
ApiHold(k, n) ==
  /\ exists
  /\ stack' = [stack EXCEPT ![k][n].held = ~@]
  /\ UNCHANGED <<exists, mode>>

ApiNext ==
  \/ ApiCreate \/ ApiDelete \/ ApiVersioning
  \/ \E k \in Keys :
       \/ ApiPut(k) \/ ApiRemove(k)
       \/ \E n \in DOMAIN stack[k] : ApiRemoveVersion(k, n) \/ ApiHold(k, n)

ApiSpec == ApiInit /\ [][ApiNext]_apiVars

=============================================================================
