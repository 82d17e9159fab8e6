------------------------------- MODULE MC_Data -------------------------------
(***************************************************************************)
(* Small instances for TLC of the services that store and pass on data: an *)
(* S3 bucket, a DynamoDB table, a secret, an event bus, a log group and a  *)
(* shipper.  They share no state, so interleaving them would only multiply *)
(* their states: a behaviour is that of one of them, active.  Object lock  *)
(* and uploads of a bucket meet only in PutVersion, so a bucket's          *)
(* behaviour has one or the other; under locks versioning changes at any   *)
(* time, under uploads it is on from before the first blob, or never.  The *)
(* targets of a bus are API destinations or others, and to the first only  *)
(* one event is sent.                                                      *)
(***************************************************************************)
EXTENDS S3Store, DynamoDB, SecretsManager, EventBridge, Logs, Shipper

VARIABLE active

passVars == <<eventVars, logsVars, shipVars>>

dataVars == <<active, s3Vars, ddbVars, secretVars, passVars>>

DataInit ==
  /\ active \in {"uploads", "locks", "table", "secret", "bus",
                 "destination", "logs", "shipper"}
  /\ S3Init /\ DdbInit /\ SecretInit /\ EventInit
  /\ LogsInit /\ (consumer = "fan" \/ active = "logs")
  /\ ShipperInit

BucketNext ==
  /\ active \in {"uploads", "locks"} /\ S3Next
  /\ active = "uploads" =>
       /\ ~bucket'.lock /\ \A v \in vers' : v.lock = "none"
       /\ bucket'.versioning # "Suspended"
       /\ nextBlob = 1 \/ bucket'.versioning = bucket.versioning \/ ~bucket'.there
  /\ active = "locks" => uploads' = Empty

BusNext ==
  /\ active \in {"bus", "destination"} /\ EventNext
  /\ active = "bus" => evRule'.targets \cap HttpTargets = {}
  /\ active = "destination" =>
       /\ evRule'.targets \subseteq HttpTargets
       /\ \A e, f \in Entries : "idle" \in {putting'[e].at, putting'[f].at} \/ e = f

PassNext ==
  \/ BusNext /\ UNCHANGED <<logsVars, shipVars>>
  \/ active = "logs" /\ LogsNext /\ UNCHANGED <<eventVars, shipVars>>
  \/ active = "shipper" /\ ShipperNext /\ UNCHANGED <<eventVars, logsVars>>

DataNext ==
  /\ UNCHANGED active
  /\ \/ BucketNext /\ UNCHANGED <<ddbVars, secretVars, passVars>>
     \/ /\ active = "table" /\ DdbNext
        /\ UNCHANGED <<s3Vars, secretVars, passVars>>
     \/ /\ active = "secret" /\ SecretNext
        /\ UNCHANGED <<s3Vars, ddbVars, passVars>>
     \/ PassNext /\ UNCHANGED <<s3Vars, ddbVars, secretVars>>

DataSpec == DataInit /\ [][DataNext]_dataVars

-----------------------------------------------------------------------------
(* The writes of the DynamoDB clients: a put with an index key and a time  *)
(* to live, an update of the index key, a delete of an item that is there, *)
(* and a check that one is not.                                            *)

Item(ix, dies) == [ix |-> ix, dies |-> dies, there |-> TRUE]

Op(kind, item, cond) ==
  {[key |-> k, kind |-> kind, row |-> item, cond |-> cond] : k \in ItemKeys}

SomeWrites ==
  Op("put", Item({"x"}, {1}), "none") \cup Op("update", Item({"y"}, {}), "none")
    \cup Op("delete", Item({}, {}), "exists") \cup Op("check", Item({}, {}), "absent")

\* Puts that are in no index and never expire.
PlainPuts == Op("put", Item({}, {}), "none")

\* The model values of a set are interchangeable, in every service.
DataSymmetry == Permutations(Requests) \cup Permutations(Pieces)

-----------------------------------------------------------------------------
(* Properties.                                                             *)

\* The types of all of them: versions, rows, secrets, events, filters and
\* batches stay what the code declares.
DataTypeOK ==
  /\ S3TypeOK /\ DdbTypeOK /\ SecretTypeOK
  /\ EventTypeOK /\ LogsTypeOK /\ ShipperTypeOK

\* What a log group or a shipper has accepted is going to be sent: a close
\* drains what was queued or pending before it, nothing pending waits without
\* a timer, and a worker that died says so.
TelemetryKept == DrainedOnClose /\ DeathReported /\ PendingIsTimed /\ ShippedOnClose
=============================================================================
