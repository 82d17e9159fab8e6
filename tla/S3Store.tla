------------------------------ MODULE S3Store ------------------------------
(***************************************************************************)
(* One S3 bucket (internal/s3store and the handlers of s3/ that change     *)
(* it): version rows and an index of current versions in bbolt, bodies as  *)
(* blob files, multipart uploads, and the requests under way.  A bbolt     *)
(* transaction is one step; so is a blob that becomes visible by its       *)
(* rename, and so are the removals of files after a commit.  Between the   *)
(* steps of a request other requests run, and the process may die.         *)
(*                                                                         *)
(* A body is a sequence of pieces, one for a simple put, one per part for  *)
(* a multipart upload.  An ETag identifies a body, so it is the body.      *)
(***************************************************************************)
EXTENDS Integers, Sequences, FiniteSets

CONSTANTS
  Keys,        \* object keys
  Pieces,      \* what a simple put or a part may hold
  PartNumbers, \* part numbers of an upload
  Locks,       \* lock states of versions: a set with "none" in it
  Requests,    \* requests that may be under way at once
  MaxBlob,     \* bound: blobs written
  MaxSeq,      \* bound: versions written in one life of the bucket
  MaxUploads,  \* bound: uploads created
  MaxCreates   \* bound: the bucket is created no more often

VARIABLES
  bucket,    \* exists, versioning, and whether it was made with object lock
  vers,      \* ver:<bucket>: the version rows
  cur,       \* cur:<bucket>: key -> seq of the version it shows, or 0
  nextVer,   \* the sequence of ver:<bucket>
  disk,      \* blob files: blob -> body
  uploads,   \* up: and parts: rows: upload -> key and parts
  req,       \* the requests
  nextBlob, nextUp, creates   \* history: numbers used

s3Vars == <<bucket, vers, cur, nextVer, disk, uploads, req, nextBlob, nextUp,
            creates>>

-----------------------------------------------------------------------------
ASSUME S3Assumption ==
  /\ IsFiniteSet(Keys) /\ IsFiniteSet(Requests)
  /\ "none" \in Locks /\ Locks \subseteq {"none", "governance", "hold"}
  /\ PartNumbers \subseteq Nat \ {0}
  /\ MaxBlob \in Nat /\ MaxSeq \in Nat /\ MaxUploads \in Nat /\ MaxCreates \in Nat

NoBlob == 0

NullVersion == 0

\* A delete marker has no blob and an empty ETag.
IsMarker(v) == v.blob = NoBlob

Version ==
  [key : Keys, seq : 1..MaxSeq, id : 0..MaxSeq, blob : 0..MaxBlob,
   etag : Seq(Pieces), lock : Locks]

\* What a conditional put asks of the current version.
AnyState == [if |-> "any", etag |-> <<>>]
IfAbsent == [if |-> "absent", etag |-> <<>>]
IfMatch(e) == [if |-> "match", etag |-> e]

Done == [pc |-> "done"]

S3TypeOK ==
  /\ bucket \in [there : BOOLEAN, versioning : {"", "Enabled", "Suspended"},
                 lock : BOOLEAN]
  /\ vers \subseteq Version
  /\ cur \in [Keys -> 0..MaxSeq]
  /\ DOMAIN disk \subseteq 1..(nextBlob - 1)
  /\ \A b \in DOMAIN disk : disk[b] \in Seq(Pieces)
  /\ DOMAIN uploads \subseteq 1..(nextUp - 1)
  /\ \A u \in DOMAIN uploads :
       uploads[u].key \in Keys /\ DOMAIN uploads[u].parts \subseteq PartNumbers
  /\ DOMAIN req = Requests
  /\ \A r \in Requests :
       req[r].pc \in {"done", "copy", "commit", "putpart", "assemble", "drop", "clean"}

NoBucket == [there |-> FALSE, versioning |-> "", lock |-> FALSE]

Empty == [x \in {} |-> <<>>]

S3Init ==
  /\ bucket = NoBucket /\ vers = {} /\ cur = [k \in Keys |-> 0]
  /\ nextVer = 1 /\ disk = Empty /\ uploads = Empty
  /\ req = [r \in Requests |-> Done]
  /\ nextBlob = 1 /\ nextUp = 1 /\ creates = 0

-----------------------------------------------------------------------------
(* The version rows.                                                       *)

VersionsOf(V, k) == {v \in V : v.key = k}

\* currentVersion: the newest row of the key, markers included.
Newest(V, k) == CHOOSE v \in VersionsOf(V, k) : \A w \in VersionsOf(V, k) : w.seq <= v.seq

\* recomputeCurrent.
Shown(V, k) ==
  IF VersionsOf(V, k) = {} \/ IsMarker(Newest(V, k)) THEN 0 ELSE Newest(V, k).seq

\* findVersion.
Named(k, id) == {v \in VersionsOf(vers, k) : v.id = id}

BlobsOf(V) == {v.blob : v \in V} \ {NoBlob}

\* Weakened form of Blocked: the bypass lifts a legal hold, too.
BlockedUnlessBypass(v, bypass) == v.lock # "none" /\ ~bypass

\* lockBlocksDeletion.
Blocked(v, bypass) == v.lock = "hold" \/ (v.lock = "governance" /\ ~bypass)

-----------------------------------------------------------------------------
(* Blob files and requests.                                                *)

Free(r) == req[r].pc = "done"

Onto(r, to) == req' = [req EXCEPT ![r] = to]

Cleaning(blobs) == IF blobs = {} THEN Done ELSE [pc |-> "clean", drop |-> blobs]

\* Weakened form of Written: the next blob gets the same name.
WrittenReused(body) ==
  /\ nextBlob <= MaxBlob
  /\ disk' = [b \in DOMAIN disk \cup {nextBlob} |->
                IF b = nextBlob THEN body ELSE disk[b]]
  /\ UNCHANGED nextBlob

\* WriteBlob.
Written(body) ==
  /\ nextBlob <= MaxBlob
  /\ disk' = [b \in DOMAIN disk \cup {nextBlob} |->
                IF b = nextBlob THEN body ELSE disk[b]]
  /\ nextBlob' = nextBlob + 1

\* DeleteBlob, after the commit.
Clean(r) ==
  /\ req[r].pc = "clean"
  /\ disk' = [b \in DOMAIN disk \ req[r].drop |-> disk[b]]
  /\ Onto(r, Done)
  /\ UNCHANGED <<bucket, vers, cur, nextVer, uploads, nextBlob, nextUp, creates>>

-----------------------------------------------------------------------------
(* Putting, copying and deleting objects.                                  *)

\* up is the upload that the version completes, or 0; drop its parts' blobs.
Committing(k, b, etag, up, drop) ==
  [pc |-> "commit", key |-> k, blob |-> b, etag |-> etag, up |-> up, drop |-> drop]

\* putObject up to the blob: the bucket is not looked at before.
PutObject(r, k, piece) ==
  /\ Free(r)
  /\ Written(<<piece>>)
  /\ Onto(r, Committing(k, nextBlob, <<piece>>, 0, {}))
  /\ UNCHANGED <<bucket, vers, cur, nextVer, uploads, nextUp, creates>>

Refuses(k, cond) ==
  LET none == VersionsOf(vers, k) = {}
      now == Newest(vers, k)
  IN  \/ cond.if = "absent" /\ ~none /\ ~IsMarker(now)
      \/ cond.if = "match" /\ (~none => now.etag # cond.etag)

\* Weakened form of Replaced: a suspended bucket keeps its null versions.
ReplacedUnversioned(k) == IF bucket.versioning # "" THEN {} ELSE Named(k, NullVersion)

\* The null versions that a write outside of Enabled versioning replaces.
Replaced(k) == IF bucket.versioning = "Enabled" THEN {} ELSE Named(k, NullVersion)

NewRow(k, b, etag, lock) ==
  [key |-> k, seq |-> nextVer, blob |-> b, etag |-> etag, lock |-> lock,
   id |-> IF bucket.versioning = "Enabled" THEN nextVer ELSE NullVersion]

\* PutVersion, with the condition and the lock of the request's headers, which
\* are not looked at before; completing an upload sets no lock.  A refusal
\* removes the blob; success removes the replaced blob, and for a completed
\* upload goes on to drop it.
PutVersion(r, cond, lock) ==
  LET q == req[r]
      old == Replaced(q.key)
  IN  /\ q.pc = "commit"
      /\ q.up # 0 => lock = "none"
      /\ \/ /\ ~bucket.there \/ Refuses(q.key, cond)
            /\ Onto(r, Cleaning({q.blob}))
            /\ UNCHANGED <<vers, cur, nextVer>>
         \/ /\ bucket.there /\ ~Refuses(q.key, cond)
            /\ nextVer <= MaxSeq
            /\ vers' = (vers \ old) \cup {NewRow(q.key, q.blob, q.etag, lock)}
            /\ cur' = [cur EXCEPT ![q.key] = nextVer]
            /\ nextVer' = nextVer + 1
            /\ Onto(r, IF q.up = 0 THEN Cleaning(BlobsOf(old))
                       ELSE [pc |-> "drop", up |-> q.up, old |-> BlobsOf(old),
                             drop |-> q.drop])
      /\ UNCHANGED <<bucket, disk, uploads, nextBlob, nextUp, creates>>

\* copyObject and uploadPartCopy up to GetVersion; part is 0 for an object.
CopyFrom(r, v, k, up, part) ==
  /\ Free(r) /\ bucket.there
  /\ v \in vers
  /\ IF part = 0 THEN ~IsMarker(v) ELSE up \in DOMAIN uploads
  /\ Onto(r, [pc |-> "copy", blob |-> v.blob, etag |-> v.etag, key |-> k,
              up |-> up, part |-> part])
  /\ UNCHANGED <<bucket, vers, cur, nextVer, disk, uploads, nextBlob, nextUp,
                 creates>>

PuttingPart(u, n, b, etag) ==
  [pc |-> "putpart", up |-> u, part |-> n, blob |-> b, etag |-> etag]

\* OpenBlob and WriteBlob: the file may be gone by now.  A copied object keeps
\* the ETag of its source, a copied part gets that of what was read.
CopyBlob(r) ==
  LET q == req[r]
  IN  /\ q.pc = "copy"
      /\ \/ /\ q.blob \notin DOMAIN disk
            /\ Onto(r, Done)
            /\ UNCHANGED <<disk, nextBlob>>
         \/ /\ q.blob \in DOMAIN disk
            /\ Written(disk[q.blob])
            /\ Onto(r, IF q.part = 0
                       THEN Committing(q.key, nextBlob, q.etag, 0, {})
                       ELSE PuttingPart(q.up, q.part, nextBlob, disk[q.blob]))
      /\ UNCHANGED <<bucket, vers, cur, nextVer, uploads, nextUp, creates>>

\* DeleteObject naming a version.
DeleteVersion(r, v, bypass) ==
  /\ Free(r) /\ bucket.there
  /\ v \in vers /\ ~Blocked(v, bypass)
  /\ vers' = vers \ {v}
  /\ cur' = [cur EXCEPT ![v.key] = Shown(vers \ {v}, v.key)]
  /\ Onto(r, Cleaning(BlobsOf({v})))
  /\ UNCHANGED <<bucket, nextVer, disk, uploads, nextBlob, nextUp, creates>>

\* DeleteObject naming none, from a client or the lifecycle sweep: a marker in
\* a versioned bucket, else the newest version goes.
DeleteObject(r, k, bypass) ==
  LET versioned == bucket.versioning # ""
      old == IF versioned THEN Replaced(k)
             ELSE IF VersionsOf(vers, k) = {} THEN {} ELSE {Newest(vers, k)}
      left == vers \ old
  IN  /\ Free(r) /\ bucket.there
      /\ \A v \in old : ~Blocked(v, bypass)
      /\ \/ /\ versioned /\ nextVer <= MaxSeq
            /\ vers' = left \cup {NewRow(k, NoBlob, <<>>, "none")}
            /\ cur' = [cur EXCEPT ![k] = 0]
            /\ nextVer' = nextVer + 1
         \/ /\ ~versioned /\ old # {}
            /\ vers' = left
            /\ cur' = [cur EXCEPT ![k] = Shown(left, k)]
            /\ UNCHANGED nextVer
      /\ Onto(r, Cleaning(BlobsOf(old)))
      /\ UNCHANGED <<bucket, disk, uploads, nextBlob, nextUp, creates>>

\* PutObjectLegalHold and PutObjectRetention: UpdateVersion.  A retention in
\* force is not taken off again, except a governed one with the bypass.
SetLock(v, lock, bypass) ==
  /\ bucket.there /\ v \in vers /\ lock # v.lock
  /\ v.lock = "governance" => lock = "hold" \/ bypass
  /\ vers' = (vers \ {v}) \cup {[v EXCEPT !.lock = lock]}
  /\ UNCHANGED <<bucket, cur, nextVer, disk, uploads, req, nextBlob, nextUp, creates>>

-----------------------------------------------------------------------------
(* Multipart uploads.                                                      *)

CreateUpload(k) ==
  /\ bucket.there /\ nextUp <= MaxUploads
  /\ uploads' = [u \in DOMAIN uploads \cup {nextUp} |->
                   IF u = nextUp THEN [key |-> k, parts |-> Empty] ELSE uploads[u]]
  /\ nextUp' = nextUp + 1
  /\ UNCHANGED <<bucket, vers, cur, nextVer, disk, req, nextBlob, creates>>

\* uploadPart up to the blob.
UploadPart(r, u, n, piece) ==
  /\ Free(r) /\ u \in DOMAIN uploads
  /\ Written(<<piece>>)
  /\ Onto(r, PuttingPart(u, n, nextBlob, <<piece>>))
  /\ UNCHANGED <<bucket, vers, cur, nextVer, uploads, nextUp, creates>>

\* PutPart: re-uploading a part number replaces it.
PutPart(r) ==
  LET q == req[r]
      parts == uploads[q.up].parts
  IN  /\ q.pc = "putpart"
      /\ \/ /\ q.up \notin DOMAIN uploads
            /\ Onto(r, Cleaning({q.blob}))
            /\ UNCHANGED uploads
         \/ /\ q.up \in DOMAIN uploads
            /\ uploads' = [uploads EXCEPT ![q.up].parts =
                 [n \in DOMAIN parts \cup {q.part} |->
                    IF n = q.part THEN [blob |-> q.blob, etag |-> q.etag] ELSE parts[n]]]
            /\ Onto(r, Cleaning(IF q.part \in DOMAIN parts
                                THEN {parts[q.part].blob} ELSE {}))
      /\ UNCHANGED <<bucket, vers, cur, nextVer, disk, nextBlob, nextUp, creates>>

\* The parts named, in ascending order.
Ascending(S) ==
  CHOOSE s \in [1..Cardinality(S) -> S] : \A i, j \in 1..Cardinality(S) : i < j => s[i] < s[j]

\* The concatenation of bodies.
Concat(bodies) ==
  LET upTo[n \in 0..Len(bodies)] == IF n = 0 THEN <<>> ELSE upTo[n - 1] \o bodies[n]
  IN  upTo[Len(bodies)]

\* CompleteUpload up to its reading of the parts: the client names some of
\* them with their ETags.
CompleteUpload(r, u, numbers) ==
  LET parts == uploads[u].parts
      order == Ascending(numbers)
  IN  /\ Free(r) /\ u \in DOMAIN uploads
      /\ numbers # {} /\ numbers \subseteq DOMAIN parts
      /\ Onto(r, [pc |-> "assemble", up |-> u, key |-> uploads[u].key,
                  blobs |-> [i \in DOMAIN order |-> parts[order[i]].blob],
                  etag |-> Concat([i \in DOMAIN order |-> parts[order[i]].etag])])
      /\ UNCHANGED <<bucket, vers, cur, nextVer, disk, uploads, nextBlob, nextUp,
                     creates>>

\* Weakened form of ConcatBlobs: a part whose file is gone is passed over.
ConcatBlobsLeft(r) ==
  LET q == req[r]
      left == SelectSeq(q.blobs, LAMBDA b : b \in DOMAIN disk)
  IN  /\ q.pc = "assemble"
      /\ Written(Concat([i \in DOMAIN left |-> disk[left[i]]]))
      /\ Onto(r, Committing(q.key, nextBlob, q.etag, q.up, {left[i] : i \in DOMAIN left}))
      /\ UNCHANGED <<bucket, vers, cur, nextVer, uploads, nextUp, creates>>

\* ConcatBlobs: one missing file fails the request.
ConcatBlobs(r) ==
  LET q == req[r]
      used == {q.blobs[i] : i \in DOMAIN q.blobs}
  IN  /\ q.pc = "assemble"
      /\ \/ /\ ~(used \subseteq DOMAIN disk)
            /\ Onto(r, Done)
            /\ UNCHANGED <<disk, nextBlob>>
         \/ /\ used \subseteq DOMAIN disk
            /\ Written(Concat([i \in DOMAIN q.blobs |-> disk[q.blobs[i]]]))
            /\ Onto(r, Committing(q.key, nextBlob, q.etag, q.up, used))
      /\ UNCHANGED <<bucket, vers, cur, nextVer, uploads, nextUp, creates>>

\* AbortUpload, by a client or the lifecycle sweep, up to its reading.
AbortUpload(r, u) ==
  LET parts == uploads[u].parts
  IN  /\ Free(r) /\ u \in DOMAIN uploads
      /\ Onto(r, [pc |-> "drop", up |-> u, old |-> {},
                  drop |-> {parts[n].blob : n \in DOMAIN parts}])
      /\ UNCHANGED <<bucket, vers, cur, nextVer, disk, uploads, nextBlob, nextUp,
                     creates>>

\* dropUpload: the rows now, the files known to the request afterwards.  The
\* blob that PutVersion replaced has gone by then.
DropUpload(r) ==
  LET q == req[r]
  IN  /\ q.pc = "drop"
      /\ disk' = [b \in DOMAIN disk \ q.old |-> disk[b]]
      /\ uploads' = [u \in DOMAIN uploads \ {q.up} |-> uploads[u]]
      /\ Onto(r, Cleaning(q.drop))
      /\ UNCHANGED <<bucket, vers, cur, nextVer, nextBlob, nextUp, creates>>

-----------------------------------------------------------------------------
(* The bucket and the process.                                             *)

CreateBucket(lock) ==
  /\ ~bucket.there /\ creates < MaxCreates
  /\ bucket' = [there |-> TRUE, versioning |-> IF lock THEN "Enabled" ELSE "",
                lock |-> lock]
  /\ creates' = creates + 1
  /\ UNCHANGED <<vers, cur, nextVer, disk, uploads, req, nextBlob, nextUp>>

PutBucketVersioning(v) ==
  /\ bucket.there /\ v # bucket.versioning
  /\ ~(bucket.lock /\ v = "Suspended")
  /\ bucket' = [bucket EXCEPT !.versioning = v]
  /\ UNCHANGED <<vers, cur, nextVer, disk, uploads, req, nextBlob, nextUp, creates>>

\* DeleteBucket: no versions and no uploads; the whole blob tree goes.
DeleteBucket ==
  /\ bucket.there /\ vers = {} /\ uploads = Empty
  /\ bucket' = NoBucket
  /\ cur' = [k \in Keys |-> 0]
  /\ nextVer' = 1
  /\ disk' = Empty
  /\ UNCHANGED <<vers, uploads, req, nextBlob, nextUp, creates>>

\* The process dies: what was renamed into place stays.
S3Crash ==
  /\ \E r \in Requests : ~Free(r)
  /\ req' = [r \in Requests |-> Done]
  /\ UNCHANGED <<bucket, vers, cur, nextVer, disk, uploads, nextBlob, nextUp, creates>>

-----------------------------------------------------------------------------
Conditions == {AnyState, IfAbsent} \cup {IfMatch(v.etag) : v \in vers}

RequestBegins(r) ==
  \/ \E k \in Keys, p \in Pieces : PutObject(r, k, p)
  \/ \E v \in vers, k \in Keys : CopyFrom(r, v, k, 0, 0)
  \/ \E v \in vers, u \in DOMAIN uploads, n \in PartNumbers : CopyFrom(r, v, v.key, u, n)
  \/ \E v \in vers, b \in BOOLEAN : DeleteVersion(r, v, b)
  \/ \E k \in Keys, b \in BOOLEAN : DeleteObject(r, k, b)
  \/ \E u \in DOMAIN uploads, n \in PartNumbers, p \in Pieces : UploadPart(r, u, n, p)
  \/ \E u \in DOMAIN uploads :
       \E S \in SUBSET DOMAIN uploads[u].parts : CompleteUpload(r, u, S)
  \/ \E u \in DOMAIN uploads : AbortUpload(r, u)

RequestContinues(r) ==
  \/ \E c \in Conditions, l \in Locks : PutVersion(r, c, l)
  \/ CopyBlob(r) \/ PutPart(r) \/ ConcatBlobs(r)
  \/ DropUpload(r) \/ Clean(r)

S3Next ==
  \/ \E r \in Requests : RequestBegins(r) \/ RequestContinues(r)
  \/ \E v \in vers, l \in Locks, b \in BOOLEAN : SetLock(v, l, b)
  \/ \E k \in Keys : CreateUpload(k)
  \/ \E lock \in BOOLEAN : CreateBucket(lock)
  \/ \E v \in {"Enabled", "Suspended"} : PutBucketVersioning(v)
  \/ DeleteBucket
  \/ S3Crash

S3Spec == S3Init /\ [][S3Next]_s3Vars

-----------------------------------------------------------------------------
(* Properties.                                                             *)

\* The index of current versions and the version rows agree: a key shows its
\* newest version, and shows none when that is a delete marker.  Listings read
\* the index, GetObject the rows.
CurIsNewest == \A k \in Keys : cur[k] = Shown(vers, k)

\* A version can always be read back whole: its blob is there and holds what
\* its ETag says, whatever puts, re-uploaded parts, completions, aborts,
\* clean-ups and crashes came in between, as long as the bucket has not been
\* deleted and made again.
BlobsThere ==
  \A v \in vers : ~IsMarker(v) => v.blob \in DOMAIN disk /\ disk[v.blob] = v.etag

\* The rows, the index and the files agree: what a listing shows is the newest
\* version, and every version can be read.
RowsAgree == CurIsNewest /\ BlobsThere

\* What clients see: the versions of a key, by number, with the bodies read
\* from the files.
Body(v) == IF v.blob \in DOMAIN disk THEN disk[v.blob] ELSE <<>>

Row(k, n) == CHOOSE v \in vers : v.key = k /\ v.seq = n

Stack(k) ==
  [n \in {v.seq : v \in VersionsOf(vers, k)} |->
     [id |-> Row(k, n).id, body |-> Body(Row(k, n)), held |-> Row(k, n).lock = "hold"]]

Stacks == [k \in Keys |-> Stack(k)]

Api == INSTANCE S3Api WITH
  Contents <- Seq(Pieces) \ {<<>>},
  exists <- bucket.there, mode <- bucket.versioning, stack <- Stacks

\* The bucket implements what S3 promises its clients: whatever steps its
\* requests are made of, every operation on it happens at once or not at all
\* (PutVersion, DeleteObject, DeleteBucket and the blob files they leave), and
\* "legal holds always block" (object.go) deletes, by clients and sweeps.
ApiOK == Api!ApiSpec

=============================================================================
