--------------------------- MODULE StorageProofs ----------------------------
(***************************************************************************)
(* Proofs about the two stores behind the data plane: S3 objects, whose    *)
(* rows and blob files change in separate steps, and DynamoDB tables with  *)
(* their indexes, streams and transaction tokens, for every value of       *)
(* the constants.                                                          *)
(***************************************************************************)
EXTENDS S3Store, DynamoDB, TLAPS, FiniteSetTheorems, WellFoundedInduction

-----------------------------------------------------------------------------
(* Numbers.                                                                *)

\* A set of natural numbers that is not empty has a least one.
LEMMA LeastNat ==
  ASSUME NEW S \in SUBSET Nat, S # {}
  PROVE  \E x \in S : \A y \in S : x <= y
<1> DEFINE R == {ss \in Nat \X Nat : ss[1] < ss[2]}
<1>1. OpToRel(<, Nat) = R
  BY Zenon DEF OpToRel
<1>2. IsWellFoundedOn(R, Nat)
  BY <1>1, NatLessThanWellFounded, Zenon
<1>3. \A x, y \in Nat : y < x => <<y, x>> \in R
  OBVIOUS
<1>4. PICK x \in S : \A y \in S : ~(<<y, x>> \in R)
  BY <1>2, WFMin
<1> HIDE DEF R
<1>5. ASSUME NEW y \in S PROVE x <= y
  <2>1. ~(<<y, x>> \in R)
    BY <1>4
  <2>2. x \in Nat /\ y \in Nat /\ ~(y < x)
    BY <1>3, <2>1
  <2> QED
    BY <2>2
<1> QED
  BY <1>5

\* A bounded set of natural numbers that is not empty has a greatest one.
LEMMA GreatestNat ==
  ASSUME NEW S \in SUBSET Nat, S # {}, NEW b \in Nat, \A x \in S : x <= b
  PROVE  \E x \in S : \A y \in S : y <= x
<1> DEFINE T == {b - x : x \in S}
<1>1. T \in SUBSET Nat /\ T # {}
  <2>1. \A x \in S : b - x \in Nat
    OBVIOUS
  <2>2. \A t \in T : t \in Nat
    BY <2>1
  <2>3. PICK x \in S : TRUE
    OBVIOUS
  <2>4. b - x \in T
    BY <2>3
  <2> QED
    BY <2>2, <2>4
<1>2. PICK t \in T : \A y \in T : t <= y
  BY <1>1, LeastNat
<1>3. PICK x \in S : t = b - x
  BY <1>2
<1>4. \A y \in S : b - x <= b - y
  BY <1>2, <1>3
<1>5. \A y \in S : y <= x
  BY <1>4
<1> QED
  BY <1>5

\* A finite set of part numbers has an ascending order.
LEMMA Ascends ==
  ASSUME NEW S \in SUBSET Nat, IsFiniteSet(S)
  PROVE  Ascending(S) \in [1..Cardinality(S) -> S]
<1> DEFINE Sorts(T) == \E s \in [1..Cardinality(T) -> T] :
                         \A i, j \in 1..Cardinality(T) : i < j => s[i] < s[j]
           Bad == {n \in Nat : \E T \in SUBSET Nat :
                     IsFiniteSet(T) /\ Cardinality(T) = n /\ ~Sorts(T)}
<1>1. Bad = {}
  <2> SUFFICES ASSUME Bad # {} PROVE FALSE
    OBVIOUS
  <2>1. PICK n \in Bad : \A m \in Bad : n <= m
    <3> HIDE DEF Bad
    <3>1. Bad \in SUBSET Nat
      BY DEF Bad
    <3> QED
      BY <3>1, LeastNat
  <2>2. PICK T \in SUBSET Nat : IsFiniteSet(T) /\ Cardinality(T) = n /\ ~Sorts(T)
    BY <2>1
  <2>3. n \in Nat
    BY <2>1
  <2>4. T # {}
    <3> SUFFICES ASSUME T = {} PROVE FALSE
      OBVIOUS
    <3>1. Cardinality(T) = 0
      BY FS_EmptySet
    <3>2. [i \in 1..0 |-> i] \in [1..Cardinality(T) -> T]
      BY <3>1
    <3>3. 1..Cardinality(T) = {}
      BY <3>1
    <3>4. Sorts(T)
      BY <3>2, <3>3
    <3> QED
      BY <2>2, <3>4
  <2>5. PICK a \in T : \A y \in T : a <= y
    BY <2>4, LeastNat
  <2>6. IsFiniteSet(T \ {a}) /\ Cardinality(T \ {a}) = n - 1 /\ n # 0
    <3>1. IsFiniteSet(T \ {a}) /\ Cardinality(T \ {a}) = Cardinality(T) - 1
      BY <2>2, <2>5, FS_RemoveElement
    <3>2. Cardinality(T) # 0
      BY <2>2, <2>4, FS_EmptySet
    <3> QED
      BY <2>2, <3>1, <3>2
  <2>7. n - 1 \in Nat /\ n - 1 \notin Bad
    BY <2>1, <2>3, <2>6
  <2>8. Sorts(T \ {a})
    BY <2>6, <2>7
  <2>9. PICK s \in [1..(n - 1) -> T \ {a}] : \A i, j \in 1..(n - 1) : i < j => s[i] < s[j]
    BY <2>6, <2>8
  <2> DEFINE t == [i \in 1..n |-> IF i = 1 THEN a ELSE s[i - 1]]
  <2>10. \A i \in 1..n : i # 1 => i - 1 \in 1..(n - 1) /\ s[i - 1] \in T \ {a}
    BY <2>3, <2>9
  <2>11. t \in [1..n -> T]
    BY <2>5, <2>10
  <2>12. ASSUME NEW i \in 1..n, NEW j \in 1..n, i < j PROVE t[i] < t[j]
    <3>1. j # 1 /\ t[j] = s[j - 1] /\ s[j - 1] \in T \ {a} /\ j - 1 \in 1..(n - 1)
      BY <2>3, <2>10, <2>12
    <3>2. CASE i = 1
      <4>1. t[i] = a /\ a <= s[j - 1] /\ a # s[j - 1]
        BY <2>5, <3>1, <3>2
      <4>2. a \in Nat /\ s[j - 1] \in Nat
        BY <2>2, <2>5, <3>1
      <4> HIDE DEF t
      <4> QED
        BY <3>1, <4>1, <4>2
    <3>3. CASE i # 1
      <4>1. t[i] = s[i - 1] /\ i - 1 \in 1..(n - 1) /\ i - 1 < j - 1
        BY <2>3, <2>10, <2>12, <3>3
      <4> HIDE DEF t
      <4> QED
        BY <2>9, <3>1, <4>1
    <3> QED
      BY <3>2, <3>3
  <2> HIDE DEF t
  <2>13. Sorts(T)
    BY <2>2, <2>11, <2>12
  <2> QED
    BY <2>2, <2>13
<1>2. Cardinality(S) \in Nat
  BY FS_CardinalityType
<1>3. Sorts(S)
  BY <1>1, <1>2
<1> QED
  BY <1>3 DEF Ascending

-----------------------------------------------------------------------------
(* S3: the rows and the current bucket.                                    *)

\* The blobs that a request will remove, or that are parts or will be.
Loose(q) ==
  CASE q.pc = "clean" -> q.drop
    [] q.pc = "drop" -> q.old \cup q.drop
    [] q.pc = "commit" -> q.drop
    [] q.pc = "putpart" -> {q.blob}
    [] q.pc = "assemble" -> {q.blobs[i] : i \in DOMAIN q.blobs}
    [] OTHER -> {}

\* A request under way when n is the next blob.
ReqFits(q, n) ==
  /\ q.pc = "commit" => q.key \in Keys /\ q.blob \in 1..(n - 1)
  /\ q.pc = "copy" => q.key \in Keys /\ q.part \in Nat /\ q.blob \in 0..(n - 1)
  /\ q.pc = "putpart" => q.part \in Nat
  /\ q.pc = "assemble" => q.key \in Keys
  /\ Loose(q) \subseteq 1..(n - 1)

\* An upload under way when n is the next blob: parts by number, in blobs that
\* were written.
UploadFits(up, n) ==
  /\ up = [key |-> up.key, parts |-> up.parts]
  /\ up.key \in Keys
  /\ DOMAIN up.parts \subseteq Nat /\ IsFiniteSet(DOMAIN up.parts)
  /\ \A i \in DOMAIN up.parts : up.parts[i].blob \in 1..(n - 1)

\* Blobs, versions and requests are numbered from what was handed out.
StoreFits ==
  /\ bucket \in [there : BOOLEAN, versioning : {"", "Enabled", "Suspended"}, lock : BOOLEAN]
  /\ nextVer \in Nat \ {0} /\ nextBlob \in Nat \ {0} /\ creates \in Nat
  /\ bucket.there => creates # 0
  /\ ~bucket.there => vers = {}
  /\ DOMAIN disk \subseteq 1..(nextBlob - 1)
  /\ req = [r \in Requests |-> req[r]]
  /\ \A r \in Requests : ReqFits(req[r], nextBlob)
  /\ \A u \in DOMAIN uploads : UploadFits(uploads[u], nextBlob)

\* A row has a sequence number of its own, below the next.
RowsFit ==
  /\ \A v \in vers :
       /\ v.key \in Keys /\ v.seq \in Nat /\ v.seq < nextVer
       /\ v.blob \in 0..(nextBlob - 1)
       /\ v = [key |-> v.key, seq |-> v.seq, blob |-> v.blob, etag |-> v.etag,
               lock |-> v.lock, id |-> v.id]
  /\ \A v, w \in vers : v.seq = w.seq => v = w

\* The current bucket answers for every key with its newest row.
IndexFits == cur = [k \in Keys |-> cur[k]] /\ CurIsNewest

\* The row with the highest number is the newest.
LEMMA NewestIs ==
  ASSUME NEW V, NEW k, NEW v \in V, v.key = k,
         \A w \in V : w.key = k => w.seq \in Nat /\ w.seq <= v.seq,
         \A w \in V : w.key = k /\ w.seq = v.seq => w = v
  PROVE  Newest(V, k) = v
<1>1. v \in VersionsOf(V, k) /\ \A w \in VersionsOf(V, k) : w.seq <= v.seq
  BY DEF VersionsOf
<1>2. /\ Newest(V, k) \in VersionsOf(V, k)
      /\ \A w \in VersionsOf(V, k) : w.seq <= Newest(V, k).seq
  BY <1>1 DEF Newest
<1> QED
  BY <1>1, <1>2 DEF VersionsOf

\* A key with rows has a newest one.
LEMMA NewestThere ==
  ASSUME RowsFit, StoreFits, NEW k, VersionsOf(vers, k) # {}
  PROVE  /\ Newest(vers, k) \in vers /\ Newest(vers, k).key = k
         /\ \A w \in vers : w.key = k => w.seq <= Newest(vers, k).seq
<1> DEFINE S == {v.seq : v \in VersionsOf(vers, k)}
<1>1. S \in SUBSET Nat /\ S # {} /\ nextVer \in Nat /\ \A x \in S : x <= nextVer
  <2>1. \A v \in VersionsOf(vers, k) : v.seq \in Nat /\ v.seq < nextVer
    BY DEF RowsFit, VersionsOf
  <2>2. nextVer \in Nat
    BY DEF StoreFits
  <2>3. PICK v \in VersionsOf(vers, k) : TRUE
    OBVIOUS
  <2>4. v.seq \in S
    BY <2>3
  <2> QED
    BY <2>1, <2>2, <2>4
<1>2. PICK x \in S : \A y \in S : y <= x
  BY <1>1, GreatestNat
<1>3. PICK v \in VersionsOf(vers, k) : v.seq = x
  BY <1>2
<1>4. \A w \in VersionsOf(vers, k) : w.seq <= v.seq
  BY <1>2, <1>3
<1> QED
  BY <1>4 DEF Newest, VersionsOf

\* What a key shows depends on its own rows only.
LEMMA ShownLocal ==
  ASSUME NEW V, NEW W, NEW k, \A v : v.key = k => (v \in V <=> v \in W)
  PROVE  Shown(V, k) = Shown(W, k)
<1>1. VersionsOf(V, k) = VersionsOf(W, k)
  BY DEF VersionsOf
<1> QED
  BY <1>1 DEF Shown, Newest

\* A row on top shows, if it is no marker.
LEMMA TopShows ==
  ASSUME RowsFit, StoreFits, NEW k, NEW n, n.key = k, n.seq = nextVer, NEW V,
         \A x : x \in V => x \in vers \/ x = n, n \in V
  PROVE  /\ n.blob = NoBlob => Shown(V, k) = 0
         /\ n.blob # NoBlob => Shown(V, k) = nextVer
<1>1. nextVer \in Nat /\ \A w \in vers : w.seq \in Nat /\ w.seq < nextVer
  BY DEF RowsFit, StoreFits
<1>2. Newest(V, k) = n
  <2>1. \A w \in V : w.seq \in Nat /\ w.seq <= n.seq
    BY <1>1
  <2>2. \A w \in V : w.seq = n.seq => w = n
    BY <1>1
  <2> QED
    BY <2>1, <2>2, NewestIs
<1>3. n \in VersionsOf(V, k)
  BY DEF VersionsOf
<1> QED
  BY <1>2, <1>3 DEF Shown, IsMarker

\* A lock makes no difference to what shows.
LEMMA LockShows ==
  ASSUME RowsFit, StoreFits, NEW v \in vers, NEW n, n.key = v.key, n.seq = v.seq, n.blob = v.blob,
         NEW V, \A x : x \in V <=> (x \in vers /\ x # v) \/ x = n, NEW k
  PROVE  Shown(V, k) = Shown(vers, k)
<1>1. CASE k # v.key
  <2>1. \A w : w.key = k => (w \in V <=> w \in vers)
    BY <1>1
  <2> QED
    BY <2>1, ShownLocal
<1>2. CASE k = v.key
  <2>1. v \in VersionsOf(vers, k) /\ n \in VersionsOf(V, k)
    BY <1>2 DEF VersionsOf
  <2>2. PICK t : t = Newest(vers, k)
    OBVIOUS
  <2>3. t \in vers /\ t.key = k /\ \A w \in vers : w.key = k => w.seq <= t.seq
    BY <2>1, <2>2, NewestThere
  <2>4. /\ \A w \in vers : w.seq \in Nat
        /\ \A x, y \in vers : x.seq = y.seq => x = y
    BY DEF RowsFit
  <2>5. CASE t = v
    <3>1. \A w \in V : w.key = k => w.seq \in Nat /\ w.seq <= n.seq
      BY <2>3, <2>4, <2>5
    <3>2. \A w \in V : w.key = k /\ w.seq = n.seq => w = n
      BY <2>3, <2>4, <2>5
    <3>3. Newest(V, k) = n
      BY <1>2, <3>1, <3>2, NewestIs
    <3> QED
      BY <2>1, <2>2, <2>5, <3>3 DEF Shown, IsMarker
  <2>6. CASE t # v
    <3>1. \A w \in V : w.key = k => w.seq \in Nat /\ w.seq <= t.seq
      BY <2>3, <2>4
    <3>2. \A w \in V : w.key = k /\ w.seq = t.seq => w = t
      BY <2>3, <2>4, <2>6
    <3>3. t \in V
      BY <2>3, <2>6
    <3>4. Newest(V, k) = t
      BY <2>3, <3>1, <3>2, <3>3, NewestIs
    <3> QED
      BY <2>1, <2>2, <3>4 DEF Shown, IsMarker
  <2> QED
    BY <2>5, <2>6
<1> QED
  BY <1>1, <1>2

\* An empty data directory.
LEMMA S3InitFits == S3Init => StoreFits /\ RowsFit /\ IndexFits
<1> SUFFICES ASSUME S3Init PROVE StoreFits /\ RowsFit /\ IndexFits
  OBVIOUS
<1>1. DOMAIN Empty = {}
  BY DEF Empty
<1>2. ReqFits(Done, 1)
  BY DEF ReqFits, Done, Loose
<1>3. StoreFits
  <2>1. req = [r \in Requests |-> req[r]] /\ \A r \in Requests : ReqFits(req[r], nextBlob)
    BY <1>2 DEF S3Init
  <2>2. bucket \in [there : BOOLEAN, versioning : {"", "Enabled", "Suspended"}, lock : BOOLEAN]
        /\ ~bucket.there
    BY DEF S3Init, NoBucket
  <2>3. DOMAIN disk = {} /\ DOMAIN uploads = {}
    BY <1>1 DEF S3Init
  <2>4. /\ nextVer = 1 /\ nextBlob = 1 /\ creates = 0 /\ vers = {}
        /\ 1 \in Nat \ {0} /\ 0 \in Nat
    BY DEF S3Init
  <2> QED
    BY <2>1, <2>2, <2>3, <2>4 DEF StoreFits
<1>4. \A k : Shown({}, k) = 0
  BY DEF Shown, VersionsOf
<1> QED
  BY <1>3, <1>4 DEF S3Init, RowsFit, IndexFits, CurIsNewest

\* The rows stay as they are.
LEMMA RowsKept ==
  ASSUME StoreFits, RowsFit, IndexFits, nextBlob' \in Nat, nextBlob' >= nextBlob,
         UNCHANGED <<vers, cur, nextVer>>
  PROVE  RowsFit' /\ IndexFits'
<1>0. nextVer \in Nat /\ nextBlob \in Nat \ {0}
  BY DEF StoreFits
<1>1. RowsFit'
  BY <1>0 DEF RowsFit
<1> QED
  BY <1>1 DEF IndexFits, CurIsNewest

\* A new row takes the place of some rows of its key.
LEMMA RowPut ==
  ASSUME StoreFits, RowsFit, IndexFits, nextBlob' \in Nat, nextBlob' >= nextBlob,
         NEW k \in Keys, NEW old \in SUBSET vers, NEW b \in 0..(nextBlob - 1), NEW e, NEW l,
         \A v \in old : v.key = k,
         vers' = (vers \ old) \cup {NewRow(k, b, e, l)},
         cur' = [cur EXCEPT ![k] = IF b = NoBlob THEN 0 ELSE nextVer],
         nextVer' = nextVer + 1
  PROVE  RowsFit' /\ IndexFits'
<1>0. nextVer \in Nat /\ nextBlob \in Nat \ {0}
  BY DEF StoreFits
<1> DEFINE n == NewRow(k, b, e, l)
<1>1. /\ n.key = k /\ n.seq = nextVer /\ n.blob = b
      /\ n = [key |-> n.key, seq |-> n.seq, blob |-> n.blob, etag |-> n.etag,
             lock |-> n.lock, id |-> n.id]
  BY DEF NewRow
<1>2. \A x \in Keys : x # k => Shown(vers', x) = Shown(vers, x)
  <2> HIDE DEF n
  <2>1. \A x, v : x # k /\ v.key = x => (v \in vers' <=> v \in vers)
    BY <1>1 DEF n
  <2> QED
    BY <2>1, ShownLocal
<1>3. Shown(vers', k) = IF b = NoBlob THEN 0 ELSE nextVer
  <2>1. PICK V : V = vers'
    OBVIOUS
  <2>2. (\A x : x \in V => x \in vers \/ x = n) /\ n \in V
    BY <2>1
  <2> HIDE DEF n
  <2>3. /\ b = NoBlob => Shown(V, k) = 0
        /\ b # NoBlob => Shown(V, k) = nextVer
    BY <1>1, <2>2, TopShows
  <2> QED
    BY <2>1, <2>3
<1> HIDE DEF n
<1>4. \A v \in vers' : v \in vers \/ v = n
  BY DEF n
<1>5. RowsFit'
  <2>1. \A v \in vers :
          /\ v.key \in Keys /\ v.seq \in Nat /\ v.seq < nextVer'
          /\ v.blob \in 0..(nextBlob' - 1) /\ v.seq # n.seq
          /\ v = [key |-> v.key, seq |-> v.seq, blob |-> v.blob, etag |-> v.etag,
                  lock |-> v.lock, id |-> v.id]
    BY <1>0, <1>1 DEF RowsFit
  <2>2. n.key \in Keys /\ n.seq \in Nat /\ n.seq < nextVer' /\ n.blob \in 0..(nextBlob' - 1)
    BY <1>0, <1>1
  <2>3. \A v, w \in vers : v.seq = w.seq => v = w
    BY DEF RowsFit
  <2> QED
    BY <1>1, <1>4, <2>1, <2>2, <2>3 DEF RowsFit
<1>6. cur' = [x \in Keys |-> cur'[x]] /\ \A x \in Keys : cur'[x] = Shown(vers', x)
  BY <1>2, <1>3 DEF IndexFits, CurIsNewest
<1> QED
  BY <1>5, <1>6 DEF IndexFits, CurIsNewest

\* Rows of one key go.
LEMMA RowsRemoved ==
  ASSUME StoreFits, RowsFit, IndexFits, nextBlob' \in Nat, nextBlob' >= nextBlob,
         NEW k \in Keys, NEW old \in SUBSET vers, \A v \in old : v.key = k,
         vers' = vers \ old, cur' = [cur EXCEPT ![k] = Shown(vers \ old, k)],
         UNCHANGED nextVer
  PROVE  RowsFit' /\ IndexFits'
<1>0. nextVer \in Nat /\ nextBlob \in Nat \ {0}
  BY DEF StoreFits
<1>1. \A x \in Keys : x # k => Shown(vers', x) = Shown(vers, x)
  <2>1. \A x, v : x # k /\ v.key = x => (v \in vers' <=> v \in vers)
    OBVIOUS
  <2> QED
    BY <2>1, ShownLocal
<1>2. RowsFit'
  BY <1>0 DEF RowsFit
<1>3. cur' = [x \in Keys |-> cur'[x]] /\ \A x \in Keys : cur'[x] = Shown(vers', x)
  BY <1>1 DEF IndexFits, CurIsNewest
<1> QED
  BY <1>2, <1>3 DEF IndexFits, CurIsNewest

\* A row is locked or unlocked.
LEMMA RowLocked ==
  ASSUME StoreFits, RowsFit, IndexFits, nextBlob' \in Nat, nextBlob' >= nextBlob,
         NEW v \in vers, NEW l, vers' = (vers \ {v}) \cup {[v EXCEPT !.lock = l]},
         UNCHANGED <<cur, nextVer>>
  PROVE  RowsFit' /\ IndexFits'
<1>0. nextVer \in Nat /\ nextBlob \in Nat \ {0}
  BY DEF StoreFits
<1> DEFINE n == [v EXCEPT !.lock = l]
<1>1. /\ n.key = v.key /\ n.seq = v.seq /\ n.blob = v.blob
      /\ n = [key |-> n.key, seq |-> n.seq, blob |-> n.blob, etag |-> n.etag,
              lock |-> n.lock, id |-> n.id]
  BY DEF RowsFit
<1>2. vers' = (vers \ {v}) \cup {n}
  OBVIOUS
<1> HIDE DEF n
<1>3. RowsFit'
  <2>1. \A x \in vers' : x \in vers \/ x = n
    BY <1>2
  <2>2. \A x, y \in vers' : x.seq = y.seq => x = y
    BY <1>1, <1>2 DEF RowsFit
  <2>3. \A x \in vers : x.blob \in 0..(nextBlob' - 1)
    BY <1>0 DEF RowsFit
  <2> QED
    BY <1>1, <2>1, <2>2, <2>3 DEF RowsFit
<1>4. \A k : Shown(vers', k) = Shown(vers, k)
  <2>1. PICK V : V = vers'
    OBVIOUS
  <2>2. \A x : x \in V <=> (x \in vers /\ x # v) \/ x = n
    BY <1>2, <2>1
  <2>3. \A k : Shown(V, k) = Shown(vers, k)
    BY <1>1, <2>2, LockShows
  <2> QED
    BY <2>1, <2>3
<1> QED
  BY <1>3, <1>4 DEF IndexFits, CurIsNewest

\* The bucket goes.
LEMMA RowsReset ==
  ASSUME StoreFits, RowsFit, IndexFits, nextBlob' \in Nat, nextBlob' >= nextBlob,
         vers = {}, vers' = {}, cur' = [k \in Keys |-> 0], nextVer' = 1
  PROVE  RowsFit' /\ IndexFits'
<1>0. nextVer \in Nat /\ nextBlob \in Nat \ {0}
  BY DEF StoreFits
<1>1. \A k : Shown(vers', k) = 0
  BY DEF Shown, VersionsOf
<1> QED
  BY <1>1 DEF RowsFit, IndexFits, CurIsNewest


\* Handing out more blobs changes nothing for a request,
LEMMA ReqGrows ==
  ASSUME NEW q, NEW m \in Nat, NEW n \in Nat, m <= n, ReqFits(q, m)
  PROVE  ReqFits(q, n)
<1>1. 0..(m - 1) \subseteq 0..(n - 1) /\ 1..(m - 1) \subseteq 1..(n - 1)
  OBVIOUS
<1> QED
  BY <1>1 DEF ReqFits

\* nor for an upload.
LEMMA UploadGrows ==
  ASSUME NEW u, NEW m \in Nat, NEW n \in Nat, m <= n, UploadFits(u, m)
  PROVE  UploadFits(u, n)
<1>1. 1..(m - 1) \subseteq 1..(n - 1)
  OBVIOUS
<1> QED
  BY <1>1 DEF UploadFits

\* A step of a request, or one that no request takes.
LEMMA StoreMoves ==
  ASSUME StoreFits, NEW r \in Requests, NEW to,
         UNCHANGED <<bucket, creates>>, req' = [req EXCEPT ![r] = to],
         nextBlob' \in {nextBlob, nextBlob + 1}, ReqFits(to, nextBlob'),
         DOMAIN disk' \subseteq 1..(nextBlob' - 1),
         \A u \in DOMAIN uploads' : UploadFits(uploads'[u], nextBlob'),
         nextVer' \in Nat \ {0}, ~bucket.there => vers' = {}
  PROVE  StoreFits'
<1>1. nextBlob \in Nat \ {0} /\ nextBlob' \in Nat \ {0} /\ nextBlob <= nextBlob'
  <2>1. nextBlob \in Nat \ {0}
    BY DEF StoreFits
  <2>2. CASE nextBlob' = nextBlob
    BY <2>1, <2>2
  <2>3. CASE nextBlob' = nextBlob + 1
    BY <2>1, <2>3
  <2> QED
    BY <2>2, <2>3
<1>2. req = [x \in Requests |-> req[x]]
  BY DEF StoreFits
<1>3. req' = [x \in Requests |-> req'[x]] /\ \A x \in Requests : req'[x] = IF x = r THEN to ELSE req[x]
  BY <1>2
<1>4. \A x \in Requests : ReqFits(req[x], nextBlob')
  BY <1>1, ReqGrows DEF StoreFits
<1>5. \A x \in Requests : ReqFits(req'[x], nextBlob')
  BY <1>3, <1>4
<1> QED
  BY <1>1, <1>3, <1>5 DEF StoreFits

\* A request that has blobs to remove, or none.
LEMMA CleaningFits ==
  ASSUME NEW D, NEW n, D \subseteq 1..(n - 1)
  PROVE  ReqFits(Cleaning(D), n) /\ Loose(Cleaning(D)) = D /\ Cleaning(D).pc \in {"done", "clean"}
BY DEF Cleaning, Done, ReqFits, Loose

\* The blobs of rows were written.
LEMMA BlobsOfUsed ==
  ASSUME StoreFits, RowsFit, NEW V \in SUBSET vers
  PROVE  BlobsOf(V) \subseteq 1..(nextBlob - 1)
<1>1. \A v \in V : v.blob \in 0..(nextBlob - 1) /\ nextBlob \in Nat
  BY DEF StoreFits, RowsFit
<1> QED
  BY <1>1 DEF BlobsOf, NoBlob

\* blobs.go: a body goes to a file under a new number.
LEMMA WrittenFacts ==
  ASSUME StoreFits, NEW body, Written(body)
  PROVE  /\ nextBlob' = nextBlob + 1
         /\ DOMAIN disk' = DOMAIN disk \cup {nextBlob}
         /\ DOMAIN disk' \subseteq 1..(nextBlob' - 1)
         /\ disk'[nextBlob] = body
         /\ \A b \in DOMAIN disk : disk'[b] = disk[b]
         /\ \A u \in DOMAIN uploads : UploadFits(uploads[u], nextBlob')
<1>1. nextBlob \in Nat \ {0} /\ DOMAIN disk \subseteq 1..(nextBlob - 1)
  BY DEF StoreFits
<1>2. /\ nextBlob' = nextBlob + 1
      /\ DOMAIN disk' = DOMAIN disk \cup {nextBlob}
      /\ disk'[nextBlob] = body
      /\ \A b \in DOMAIN disk : b # nextBlob => disk'[b] = disk[b]
  BY DEF Written
<1>3. \A b \in DOMAIN disk : b # nextBlob
  BY <1>1
<1>4. \A u \in DOMAIN uploads : UploadFits(uploads[u], nextBlob + 1)
  <2>1. nextBlob \in Nat /\ nextBlob + 1 \in Nat /\ nextBlob <= nextBlob + 1
    BY <1>1
  <2>2. \A u \in DOMAIN uploads : UploadFits(uploads[u], nextBlob)
    BY DEF StoreFits
  <2> QED
    BY <2>1, <2>2, UploadGrows
<1>5. DOMAIN disk \cup {nextBlob} \subseteq 1..(nextBlob + 1 - 1)
  BY <1>1
<1> QED
  BY <1>2, <1>3, <1>4, <1>5

\* The inductive invariant of the rows.
StoreInv == StoreFits /\ RowsFit /\ IndexFits

\* Every step that begins a request keeps the rows and their index.
LEMMA BeginStore ==
  ASSUME StoreInv, NEW r \in Requests, RequestBegins(r)
  PROVE  StoreInv'
<1> USE DEF StoreInv
<1>0. /\ nextBlob \in Nat \ {0} /\ nextVer \in Nat \ {0}
      /\ DOMAIN disk \subseteq 1..(nextBlob - 1)
      /\ \A u \in DOMAIN uploads : UploadFits(uploads[u], nextBlob)
      /\ ~bucket.there => vers = {}
  BY DEF StoreFits
<1>1. ASSUME NEW k \in Keys, NEW p \in Pieces, PutObject(r, k, p)
      PROVE  StoreInv'
  <2> DEFINE to == Committing(k, nextBlob, <<p>>, 0, {})
  <2>1. Written(<<p>>) /\ req' = [req EXCEPT ![r] = to]
        /\ UNCHANGED <<bucket, vers, cur, nextVer, uploads, nextUp, creates>>
    BY <1>1 DEF PutObject, Onto
  <2>2. nextBlob' = nextBlob + 1 /\ DOMAIN disk' \subseteq 1..(nextBlob' - 1)
        /\ \A u \in DOMAIN uploads : UploadFits(uploads[u], nextBlob')
    BY <2>1, WrittenFacts
  <2>3. ReqFits(to, nextBlob + 1)
    BY <1>0 DEF ReqFits, Committing, Loose
  <2> HIDE DEF to
  <2>4. StoreFits'
    BY <1>0, <2>1, <2>2, <2>3, StoreMoves
  <2> QED
    BY <1>0, <2>1, <2>2, <2>4, RowsKept
\* the steps that only the request remembers
<1>2. ASSUME NEW to, req' = [req EXCEPT ![r] = to], ReqFits(to, nextBlob),
             UNCHANGED <<bucket, vers, cur, nextVer, disk, uploads, nextBlob, nextUp, creates>>
      PROVE  StoreInv'
  <2>1. StoreFits'
    BY <1>0, <1>2, StoreMoves
  <2> QED
    BY <1>0, <1>2, <2>1, RowsKept
<1>3. ASSUME NEW v \in vers, NEW k \in Keys, NEW u, NEW n \in PartNumbers \cup {0},
             CopyFrom(r, v, k, u, n)
      PROVE  StoreInv'
  <2> DEFINE to == [pc |-> "copy", blob |-> v.blob, etag |-> v.etag, key |-> k, up |-> u, part |-> n]
  <2>1. v.blob \in 0..(nextBlob - 1)
    BY DEF RowsFit
  <2>2. ReqFits(to, nextBlob)
    BY <2>1, S3Assumption DEF ReqFits, Loose
  <2>3. req' = [req EXCEPT ![r] = to]
        /\ UNCHANGED <<bucket, vers, cur, nextVer, disk, uploads, nextBlob, nextUp, creates>>
    BY <1>3 DEF CopyFrom, Onto
  <2> HIDE DEF to
  <2> QED
    BY <1>2, <2>2, <2>3
<1>4. ASSUME NEW v \in vers, NEW b \in BOOLEAN, DeleteVersion(r, v, b)
      PROVE  StoreInv'
  <2> DEFINE to == Cleaning(BlobsOf({v}))
  <2>1. /\ bucket.there /\ vers' = vers \ {v}
        /\ cur' = [cur EXCEPT ![v.key] = Shown(vers \ {v}, v.key)]
        /\ req' = [req EXCEPT ![r] = to]
        /\ UNCHANGED <<bucket, nextVer, disk, uploads, nextBlob, nextUp, creates>>
    BY <1>4 DEF DeleteVersion, Onto
  <2>2. ReqFits(to, nextBlob)
    <3>1. {v} \in SUBSET vers
      OBVIOUS
    <3> QED
      BY <3>1, BlobsOfUsed, CleaningFits
  <2> HIDE DEF to
  <2>3. StoreFits'
    BY <1>0, <2>1, <2>2, StoreMoves
  <2>4. {v} \in SUBSET vers /\ v.key \in Keys /\ \A w \in {v} : w.key = v.key
    BY DEF RowsFit
  <2>5. RowsFit' /\ IndexFits'
    <3>1. nextBlob' \in Nat /\ nextBlob' >= nextBlob
      BY <1>0, <2>1
    <3>2. /\ vers' = vers \ {v} /\ UNCHANGED nextVer
          /\ cur' = [cur EXCEPT ![v.key] = Shown(vers \ {v}, v.key)]
      BY <2>1
    <3> QED
      BY <2>4, <3>1, <3>2, RowsRemoved
  <2> QED
    BY <2>3, <2>5
<1>5. ASSUME NEW k \in Keys, NEW bp \in BOOLEAN, DeleteObject(r, k, bp)
      PROVE  StoreInv'
  <2> DEFINE versioned == bucket.versioning # ""
             old == IF versioned THEN Replaced(k)
                    ELSE IF VersionsOf(vers, k) = {} THEN {} ELSE {Newest(vers, k)}
             to == Cleaning(BlobsOf(old))
  <2>1. /\ bucket.there /\ req' = [req EXCEPT ![r] = to]
        /\ \/ /\ versioned
              /\ vers' = (vers \ old) \cup {NewRow(k, NoBlob, <<>>, "none")}
              /\ cur' = [cur EXCEPT ![k] = 0]
              /\ nextVer' = nextVer + 1
           \/ /\ vers' = vers \ old
              /\ cur' = [cur EXCEPT ![k] = Shown(vers \ old, k)]
              /\ UNCHANGED nextVer
        /\ UNCHANGED <<bucket, disk, uploads, nextBlob, nextUp, creates>>
    BY <1>5 DEF DeleteObject, Onto
  <2>8. /\ bucket.there /\ UNCHANGED <<bucket, disk, uploads, nextBlob, creates>>
        /\ nextVer' = nextVer \/ nextVer' = nextVer + 1
    BY <1>5 DEF DeleteObject
  <2>2. old \in SUBSET vers /\ \A v \in old : v.key = k
    <3>1. Replaced(k) \in SUBSET vers /\ \A v \in Replaced(k) : v.key = k
      BY DEF Replaced, Named, VersionsOf
    <3>2. VersionsOf(vers, k) # {} => Newest(vers, k) \in vers /\ Newest(vers, k).key = k
      BY NewestThere
    <3> QED
      BY <3>1, <3>2
  <2> HIDE DEF old
  <2>3. ReqFits(to, nextBlob)
    BY <2>2, BlobsOfUsed, CleaningFits
  <2> HIDE DEF to
  <2>4. StoreFits'
    <3>1. nextVer' \in Nat \ {0}
      BY <1>0, <2>8
    <3>2. UNCHANGED <<bucket, disk, uploads, nextBlob, creates>> /\ bucket.there
      BY <2>8
    <3>3. req' = [req EXCEPT ![r] = to]
      BY <2>1
    <3> QED
      BY <1>0, <2>3, <3>1, <3>2, <3>3, StoreMoves
  <2>7. nextBlob' \in Nat /\ nextBlob' >= nextBlob
    BY <1>0, <2>8
  <2>5. CASE /\ vers' = (vers \ old) \cup {NewRow(k, NoBlob, <<>>, "none")}
             /\ cur' = [cur EXCEPT ![k] = 0]
             /\ nextVer' = nextVer + 1
    <3>1. NoBlob \in 0..(nextBlob - 1)
          /\ cur' = [cur EXCEPT ![k] = IF NoBlob = NoBlob THEN 0 ELSE nextVer]
      BY <1>0, <2>5 DEF NoBlob
    <3> QED
      BY <2>2, <2>4, <2>5, <2>7, <3>1, RowPut
  <2>6. CASE /\ vers' = vers \ old
             /\ cur' = [cur EXCEPT ![k] = Shown(vers \ old, k)]
             /\ UNCHANGED nextVer
    BY <2>2, <2>4, <2>6, <2>7, RowsRemoved
  <2> QED
    BY <2>1, <2>5, <2>6
<1>6. ASSUME NEW u \in DOMAIN uploads, NEW n \in PartNumbers, NEW p \in Pieces, UploadPart(r, u, n, p)
      PROVE  StoreInv'
  <2> DEFINE to == PuttingPart(u, n, nextBlob, <<p>>)
  <2>1. Written(<<p>>) /\ req' = [req EXCEPT ![r] = to]
        /\ UNCHANGED <<bucket, vers, cur, nextVer, uploads, nextUp, creates>>
    BY <1>6 DEF UploadPart, Onto
  <2>2. nextBlob' = nextBlob + 1 /\ DOMAIN disk' \subseteq 1..(nextBlob' - 1)
        /\ \A x \in DOMAIN uploads : UploadFits(uploads[x], nextBlob')
    BY <2>1, WrittenFacts
  <2>3. ReqFits(to, nextBlob + 1)
    BY <1>0, S3Assumption DEF ReqFits, PuttingPart, Loose
  <2> HIDE DEF to
  <2>4. StoreFits'
    BY <1>0, <2>1, <2>2, <2>3, StoreMoves
  <2> QED
    BY <1>0, <2>1, <2>2, <2>4, RowsKept
<1>7. ASSUME NEW u \in DOMAIN uploads, NEW S \in SUBSET DOMAIN uploads[u].parts, CompleteUpload(r, u, S)
      PROVE  StoreInv'
  <2> DEFINE parts == uploads[u].parts
             order == Ascending(S)
             to == [pc |-> "assemble", up |-> u, key |-> uploads[u].key,
                    blobs |-> [i \in DOMAIN order |-> parts[order[i]].blob],
                    etag |-> Concat([i \in DOMAIN order |-> parts[order[i]].etag])]
  <2>1. req' = [req EXCEPT ![r] = to]
        /\ UNCHANGED <<bucket, vers, cur, nextVer, disk, uploads, nextBlob, nextUp, creates>>
    BY <1>7 DEF CompleteUpload, Onto
  <2>2. /\ DOMAIN parts \subseteq Nat /\ IsFiniteSet(DOMAIN parts) /\ uploads[u].key \in Keys
        /\ \A i \in DOMAIN parts : parts[i].blob \in 1..(nextBlob - 1)
    BY <1>0 DEF UploadFits
  <2>3. \A i \in DOMAIN order : order[i] \in DOMAIN parts
    <3>1. S \in SUBSET Nat /\ IsFiniteSet(S)
      BY <2>2, FS_Subset
    <3>2. order \in [1..Cardinality(S) -> S]
      BY <3>1, Ascends
    <3> HIDE DEF order
    <3> QED
      BY <3>2
  <2> HIDE DEF order, parts
  <2>4. to.pc = "assemble" /\ to.key \in Keys
        /\ to.blobs = [i \in DOMAIN order |-> parts[order[i]].blob]
    BY <2>2
  <2> HIDE DEF to
  <2>5. \A b \in Loose(to) : b \in 1..(nextBlob - 1)
    BY <2>2, <2>3, <2>4 DEF Loose
  <2>6. ReqFits(to, nextBlob)
    BY <2>4, <2>5 DEF ReqFits
  <2> QED
    BY <1>2, <2>1, <2>6
<1>8. ASSUME NEW u \in DOMAIN uploads, AbortUpload(r, u)
      PROVE  StoreInv'
  <2> DEFINE parts == uploads[u].parts
             to == [pc |-> "drop", up |-> u, old |-> {},
                    drop |-> {parts[n].blob : n \in DOMAIN parts}]
  <2>1. req' = [req EXCEPT ![r] = to]
        /\ UNCHANGED <<bucket, vers, cur, nextVer, disk, uploads, nextBlob, nextUp, creates>>
    BY <1>8 DEF AbortUpload, Onto
  <2>2. \A i \in DOMAIN parts : parts[i].blob \in 1..(nextBlob - 1)
    BY <1>0 DEF UploadFits
  <2>3. ReqFits(to, nextBlob)
    BY <2>2 DEF ReqFits, Loose
  <2> HIDE DEF to
  <2> QED
    BY <1>2, <2>1, <2>3
<1>9. \A v \in vers : v.key \in Keys
  BY DEF RowsFit
<1> QED
  BY <1>1, <1>3, <1>4, <1>5, <1>6, <1>7, <1>8, <1>9 DEF RequestBegins

\* So does every later step of a request.
LEMMA ContinueStore ==
  ASSUME StoreInv, NEW r \in Requests, RequestContinues(r)
  PROVE  StoreInv'
<1> USE DEF StoreInv
<1> DEFINE q == req[r]
<1>0. /\ nextBlob \in Nat \ {0} /\ nextVer \in Nat \ {0}
      /\ DOMAIN disk \subseteq 1..(nextBlob - 1)
      /\ \A u \in DOMAIN uploads : UploadFits(uploads[u], nextBlob)
      /\ ~bucket.there => vers = {}
      /\ ReqFits(q, nextBlob)
  BY DEF StoreFits
\* the steps that leave the rows alone and write no blob
<1>1. ASSUME NEW to, req' = [req EXCEPT ![r] = to], ReqFits(to, nextBlob),
             DOMAIN disk' \subseteq DOMAIN disk,
             \A u \in DOMAIN uploads' : UploadFits(uploads'[u], nextBlob),
             UNCHANGED <<bucket, vers, cur, nextVer, nextBlob, creates>>
      PROVE  StoreInv'
  <2>1. DOMAIN disk' \subseteq 1..(nextBlob' - 1)
    BY <1>0, <1>1
  <2>2. StoreFits'
    BY <1>0, <1>1, <2>1, StoreMoves
  <2> QED
    BY <1>0, <1>1, <2>2, RowsKept
\* the steps that write one
<1>2. ASSUME NEW to, NEW body, req' = [req EXCEPT ![r] = to], ReqFits(to, nextBlob + 1),
             Written(body),
             UNCHANGED <<bucket, vers, cur, nextVer, uploads, creates>>
      PROVE  StoreInv'
  <2>1. nextBlob' = nextBlob + 1 /\ DOMAIN disk' \subseteq 1..(nextBlob' - 1)
        /\ \A x \in DOMAIN uploads : UploadFits(uploads[x], nextBlob')
    BY <1>2, WrittenFacts
  <2>2. StoreFits'
    BY <1>0, <1>2, <2>1, StoreMoves
  <2> QED
    BY <1>0, <1>2, <2>1, <2>2, RowsKept
<1>3. ASSUME NEW c, NEW l, PutVersion(r, c, l) PROVE StoreInv'
  <2> DEFINE old == Replaced(q.key)
             to == IF q.up = 0 THEN Cleaning(BlobsOf(old))
                   ELSE [pc |-> "drop", up |-> q.up, old |-> BlobsOf(old), drop |-> q.drop]
  <2>1. q.pc = "commit" /\ UNCHANGED <<bucket, disk, uploads, nextBlob, nextUp, creates>>
    BY <1>3 DEF PutVersion
  <2>2. q.key \in Keys /\ q.blob \in 1..(nextBlob - 1) /\ q.drop \subseteq 1..(nextBlob - 1)
    BY <1>0, <2>1 DEF ReqFits, Loose
  <2>3. \/ /\ req' = [req EXCEPT ![r] = Cleaning({q.blob})]
           /\ UNCHANGED <<vers, cur, nextVer>>
        \/ /\ bucket.there
           /\ vers' = (vers \ old) \cup {NewRow(q.key, q.blob, q.etag, l)}
           /\ cur' = [cur EXCEPT ![q.key] = nextVer]
           /\ nextVer' = nextVer + 1
           /\ req' = [req EXCEPT ![r] = to]
    BY <1>3 DEF PutVersion, Onto
  <2>4. old \in SUBSET vers /\ \A v \in old : v.key = q.key
    BY DEF Replaced, Named, VersionsOf
  <2>5. BlobsOf(old) \subseteq 1..(nextBlob - 1)
    <3> HIDE DEF old
    <3> QED
      BY <2>4, BlobsOfUsed
  <2>6. ReqFits(to, nextBlob)
    <3> HIDE DEF old
    <3>1. CASE q.up = 0
      BY <2>5, <3>1, CleaningFits
    <3>2. CASE q.up # 0
      <4> DEFINE d == [pc |-> "drop", up |-> q.up, old |-> BlobsOf(old), drop |-> q.drop]
      <4>1. Loose(d) = BlobsOf(old) \cup q.drop /\ d.pc = "drop"
        BY DEF Loose
      <4>2. to = d
        BY <3>2
      <4> HIDE DEF d
      <4> QED
        BY <2>2, <2>5, <4>1, <4>2 DEF ReqFits
    <3> QED
      BY <3>1, <3>2
  <2> HIDE DEF to, old
  <2>7. CASE /\ req' = [req EXCEPT ![r] = Cleaning({q.blob})]
             /\ UNCHANGED <<vers, cur, nextVer>>
    <3>1. ReqFits(Cleaning({q.blob}), nextBlob)
      BY <2>2, CleaningFits
    <3> QED
      BY <1>0, <1>1, <2>1, <2>7, <3>1
  <2>8. CASE /\ bucket.there
             /\ vers' = (vers \ old) \cup {NewRow(q.key, q.blob, q.etag, l)}
             /\ cur' = [cur EXCEPT ![q.key] = nextVer]
             /\ nextVer' = nextVer + 1
             /\ req' = [req EXCEPT ![r] = to]
    <3>1. nextVer' \in Nat \ {0} /\ nextBlob' \in Nat /\ nextBlob' >= nextBlob
      BY <1>0, <2>1, <2>8
    <3>2. StoreFits'
      BY <1>0, <2>1, <2>6, <2>8, <3>1, StoreMoves
    <3>3. PICK k, b, e : k = q.key /\ b = q.blob /\ e = q.etag
      OBVIOUS
    <3>4. /\ k \in Keys /\ b \in 0..(nextBlob - 1)
          /\ vers' = (vers \ old) \cup {NewRow(k, b, e, l)}
          /\ cur' = [cur EXCEPT ![k] = IF b = NoBlob THEN 0 ELSE nextVer]
          /\ nextVer' = nextVer + 1 /\ \A v \in old : v.key = k
      <4>1. k \in Keys /\ b \in 0..(nextBlob - 1) /\ b # NoBlob
        BY <1>0, <2>2, <3>3 DEF NoBlob
      <4>2. /\ vers' = (vers \ old) \cup {NewRow(k, b, e, l)}
            /\ cur' = [cur EXCEPT ![k] = nextVer]
            /\ nextVer' = nextVer + 1 /\ \A v \in old : v.key = k
        BY <2>4, <2>8, <3>3
      <4> QED
        BY <4>1, <4>2
    <3>5. RowsFit' /\ IndexFits'
      BY <2>4, <3>1, <3>4, RowPut
    <3> QED
      BY <3>2, <3>5
  <2> QED
    BY <2>3, <2>7, <2>8
<1>4. CASE CopyBlob(r)
  <2> DEFINE to == IF q.part = 0 THEN Committing(q.key, nextBlob, q.etag, 0, {})
                   ELSE PuttingPart(q.up, q.part, nextBlob, disk[q.blob])
  <2>1. q.pc = "copy" /\ UNCHANGED <<bucket, vers, cur, nextVer, uploads, nextUp, creates>>
        /\ \/ req' = [req EXCEPT ![r] = Done] /\ UNCHANGED <<disk, nextBlob>>
           \/ Written(disk[q.blob]) /\ req' = [req EXCEPT ![r] = to]
    BY <1>4 DEF CopyBlob, Onto
  <2>2. q.key \in Keys /\ q.part \in Nat
    BY <1>0, <2>1 DEF ReqFits
  <2>3. ReqFits(Done, nextBlob)
    BY DEF ReqFits, Done, Loose
  <2>4. ReqFits(to, nextBlob + 1)
    <3>1. CASE q.part = 0
      BY <1>0, <2>2, <3>1 DEF ReqFits, Committing, Loose
    <3>2. CASE q.part # 0
      BY <1>0, <2>2, <3>2 DEF ReqFits, PuttingPart, Loose
    <3> QED
      BY <3>1, <3>2
  <2> HIDE DEF to
  <2> QED
    BY <1>0, <1>1, <1>2, <2>1, <2>3, <2>4
<1>5. CASE PutPart(r)
  <2> DEFINE parts == uploads[q.up].parts
             new == [n \in DOMAIN parts \cup {q.part} |->
                       IF n = q.part THEN [blob |-> q.blob, etag |-> q.etag] ELSE parts[n]]
             D == IF q.part \in DOMAIN parts THEN {parts[q.part].blob} ELSE {}
  <2>1. q.pc = "putpart" /\ UNCHANGED <<bucket, vers, cur, nextVer, disk, nextBlob, nextUp, creates>>
        /\ \/ req' = [req EXCEPT ![r] = Cleaning({q.blob})] /\ UNCHANGED uploads
           \/ /\ q.up \in DOMAIN uploads
              /\ uploads' = [uploads EXCEPT ![q.up].parts = new]
              /\ req' = [req EXCEPT ![r] = Cleaning(D)]
    BY <1>5 DEF PutPart, Onto
  <2>2. q.blob \in 1..(nextBlob - 1) /\ q.part \in Nat
    BY <1>0, <2>1 DEF ReqFits, Loose
  <2>3. CASE req' = [req EXCEPT ![r] = Cleaning({q.blob})] /\ UNCHANGED uploads
    <3>1. ReqFits(Cleaning({q.blob}), nextBlob)
      BY <2>2, CleaningFits
    <3> QED
      BY <1>0, <1>1, <2>1, <2>3, <3>1
  <2>4. CASE /\ q.up \in DOMAIN uploads
             /\ uploads' = [uploads EXCEPT ![q.up].parts = new]
             /\ req' = [req EXCEPT ![r] = Cleaning(D)]
    <3>1. UploadFits(uploads[q.up], nextBlob)
      BY <1>0, <2>4
    <3>2. /\ DOMAIN parts \subseteq Nat /\ IsFiniteSet(DOMAIN parts)
          /\ \A i \in DOMAIN parts : parts[i].blob \in 1..(nextBlob - 1)
          /\ uploads[q.up] = [key |-> uploads[q.up].key, parts |-> parts]
          /\ uploads[q.up].key \in Keys
      BY <3>1 DEF UploadFits
    <3>3. /\ DOMAIN new \subseteq Nat /\ IsFiniteSet(DOMAIN new)
          /\ \A i \in DOMAIN new : new[i].blob \in 1..(nextBlob - 1)
      <4>1. DOMAIN new = DOMAIN parts \cup {q.part} /\ DOMAIN new \subseteq Nat
        BY <2>2, <3>2
      <4>2. IsFiniteSet(DOMAIN parts \cup {q.part})
        BY <3>2, FS_AddElement
      <4>3. \A i \in DOMAIN new : new[i].blob \in 1..(nextBlob - 1)
        BY <2>2, <3>2
      <4> HIDE DEF new
      <4> QED
        BY <4>1, <4>2, <4>3
    <3>4. ReqFits(Cleaning(D), nextBlob)
      BY <3>2, CleaningFits
    <3>5. DOMAIN uploads' = DOMAIN uploads
          /\ \A u \in DOMAIN uploads :
               uploads'[u] = IF u = q.up THEN [uploads[u] EXCEPT !.parts = new] ELSE uploads[u]
      BY <2>4
    <3> HIDE DEF new, D, parts
    <3>6. UploadFits(uploads'[q.up], nextBlob)
      <4>1. uploads'[q.up] = [uploads[q.up] EXCEPT !.parts = new]
        BY <2>4, <3>5
      <4>2. /\ uploads'[q.up].key = uploads[q.up].key /\ uploads'[q.up].parts = new
            /\ uploads'[q.up] = [key |-> uploads'[q.up].key, parts |-> uploads'[q.up].parts]
        BY <3>2, <4>1
      <4> QED
        BY <3>2, <3>3, <4>2 DEF UploadFits
    <3>7. \A u \in DOMAIN uploads' : UploadFits(uploads'[u], nextBlob)
      BY <1>0, <3>5, <3>6
    <3> QED
      BY <1>0, <1>1, <2>1, <2>4, <3>4, <3>7
  <2> QED
    BY <2>1, <2>3, <2>4
<1>6. CASE ConcatBlobs(r)
  <2> DEFINE used == {q.blobs[i] : i \in DOMAIN q.blobs}
             to == Committing(q.key, nextBlob, q.etag, q.up, used)
  <2>1. q.pc = "assemble" /\ UNCHANGED <<bucket, vers, cur, nextVer, uploads, nextUp, creates>>
        /\ \/ req' = [req EXCEPT ![r] = Done] /\ UNCHANGED <<disk, nextBlob>>
           \/ /\ Written(Concat([i \in DOMAIN q.blobs |-> disk[q.blobs[i]]]))
              /\ req' = [req EXCEPT ![r] = to]
    BY <1>6 DEF ConcatBlobs, Onto
  <2>2. q.key \in Keys /\ used \subseteq 1..(nextBlob - 1)
    BY <1>0, <2>1 DEF ReqFits, Loose
  <2>3. ReqFits(Done, nextBlob)
    BY DEF ReqFits, Done, Loose
  <2> HIDE DEF used
  <2>4. ReqFits(to, nextBlob + 1)
    <3>1. to.pc = "commit" /\ to.key = q.key /\ to.blob = nextBlob /\ to.drop = used
      BY DEF Committing
    <3>2. used \subseteq 1..(nextBlob + 1 - 1) /\ nextBlob \in 1..(nextBlob + 1 - 1)
      BY <1>0, <2>2
    <3> HIDE DEF to
    <3> QED
      BY <2>2, <3>1, <3>2 DEF ReqFits, Loose
  <2> HIDE DEF to
  <2> QED
    BY <1>0, <1>1, <1>2, <2>1, <2>3, <2>4
<1>7. CASE DropUpload(r)
  <2>1. /\ q.pc = "drop" /\ DOMAIN disk' \subseteq DOMAIN disk
        /\ uploads' = [u \in DOMAIN uploads \ {q.up} |-> uploads[u]]
        /\ req' = [req EXCEPT ![r] = Cleaning(q.drop)]
        /\ UNCHANGED <<bucket, vers, cur, nextVer, nextBlob, nextUp, creates>>
    BY <1>7 DEF DropUpload, Onto
  <2>2. ReqFits(Cleaning(q.drop), nextBlob)
    <3>1. q.drop \subseteq 1..(nextBlob - 1)
      BY <1>0, <2>1 DEF ReqFits, Loose
    <3> QED
      BY <3>1, CleaningFits
  <2>3. \A u \in DOMAIN uploads' : UploadFits(uploads'[u], nextBlob)
    BY <1>0, <2>1
  <2> QED
    BY <1>1, <2>1, <2>2, <2>3
<1>8. CASE Clean(r)
  <2>1. /\ DOMAIN disk' \subseteq DOMAIN disk /\ req' = [req EXCEPT ![r] = Done]
        /\ UNCHANGED <<bucket, vers, cur, nextVer, uploads, nextBlob, nextUp, creates>>
    BY <1>8 DEF Clean, Onto
  <2>2. ReqFits(Done, nextBlob)
    BY DEF ReqFits, Done, Loose
  <2> QED
    BY <1>0, <1>1, <2>1, <2>2
<1> QED
  BY <1>3, <1>4, <1>5, <1>6, <1>7, <1>8 DEF RequestContinues

\* Every step keeps the rows and their index.
LEMMA StoreStep == StoreInv /\ [S3Next]_s3Vars => StoreInv'
<1> SUFFICES ASSUME StoreInv, [S3Next]_s3Vars PROVE StoreInv'
  OBVIOUS
<1>0. /\ StoreFits /\ RowsFit /\ IndexFits
      /\ nextBlob \in Nat \ {0} /\ nextVer \in Nat \ {0} /\ creates \in Nat
      /\ bucket \in [there : BOOLEAN, versioning : {"", "Enabled", "Suspended"}, lock : BOOLEAN]
  BY DEF StoreFits, StoreInv
<1>11. nextBlob \in Nat /\ creates \in Nat
  BY <1>0
<1>9. ASSUME UNCHANGED nextBlob PROVE nextBlob' \in Nat /\ nextBlob' >= nextBlob
  BY <1>9, <1>11
<1>10. ASSUME UNCHANGED <<vers, cur, nextVer, nextBlob>>, StoreFits' PROVE StoreInv'
  <2>1. nextBlob' \in Nat /\ nextBlob' >= nextBlob
    BY <1>9, <1>10
  <2>2. RowsFit' /\ IndexFits'
    BY <1>0, <1>10, <2>1, RowsKept
  <2> QED
    BY <1>10, <2>2 DEF StoreInv
<1>1. ASSUME NEW v \in vers, NEW l \in Locks, NEW b \in BOOLEAN, SetLock(v, l, b)
      PROVE  StoreInv'
  <2>1. /\ bucket.there /\ vers' = (vers \ {v}) \cup {[v EXCEPT !.lock = l]}
        /\ UNCHANGED <<bucket, cur, nextVer, disk, uploads, req, nextBlob, nextUp, creates>>
    BY <1>1 DEF SetLock
  <2>2. UNCHANGED <<bucket, nextVer, disk, uploads, req, nextBlob, creates>> /\ bucket.there
    BY <2>1
  <2>3. StoreFits'
    BY <1>0, <2>2 DEF StoreFits
  <2>5. nextBlob' \in Nat /\ nextBlob' >= nextBlob
    BY <1>9, <2>2
  <2>6. vers' = (vers \ {v}) \cup {[v EXCEPT !.lock = l]} /\ UNCHANGED <<cur, nextVer>>
    BY <2>1
  <2>4. RowsFit' /\ IndexFits'
    BY <1>0, <2>5, <2>6, RowLocked
  <2> QED
    BY <2>3, <2>4 DEF StoreInv
<1>2. ASSUME NEW k \in Keys, CreateUpload(k) PROVE StoreInv'
  <2> DEFINE new == [key |-> k, parts |-> Empty]
  <2>1. /\ uploads' = [u \in DOMAIN uploads \cup {nextUp} |->
                         IF u = nextUp THEN new ELSE uploads[u]]
        /\ UNCHANGED <<bucket, vers, cur, nextVer, disk, req, nextBlob, creates>>
    BY <1>2 DEF CreateUpload
  <2>2. UploadFits(new, nextBlob)
    <3>1. DOMAIN Empty = {} /\ IsFiniteSet({})
      BY FS_EmptySet DEF Empty
    <3> QED
      BY <3>1 DEF UploadFits
  <2> HIDE DEF new
  <2>3. \A u \in DOMAIN uploads' : UploadFits(uploads'[u], nextBlob)
    BY <1>0, <2>1, <2>2 DEF StoreFits
  <2>4. StoreFits'
    BY <1>0, <2>1, <2>3 DEF StoreFits
  <2> QED
    BY <1>10, <2>1, <2>4
<1>3. ASSUME UNCHANGED <<vers, cur, nextVer, disk, uploads, req, nextBlob>>,
             bucket' \in [there : BOOLEAN, versioning : {"", "Enabled", "Suspended"}, lock : BOOLEAN],
             bucket'.there, creates' \in Nat \ {0}
      PROVE  StoreInv'
  <2>1. StoreFits'
    BY <1>0, <1>3 DEF StoreFits
  <2> QED
    BY <1>10, <1>3, <2>1
<1>4. ASSUME NEW lock \in BOOLEAN, CreateBucket(lock) PROVE StoreInv'
  <2>1. /\ bucket' = [there |-> TRUE, versioning |-> IF lock THEN "Enabled" ELSE "", lock |-> lock]
        /\ creates' = creates + 1
        /\ UNCHANGED <<vers, cur, nextVer, disk, uploads, req, nextBlob, nextUp>>
    BY <1>4 DEF CreateBucket
  <2>2. bucket' \in [there : BOOLEAN, versioning : {"", "Enabled", "Suspended"}, lock : BOOLEAN]
        /\ bucket'.there
    BY <2>1
  <2>4. creates' = creates + 1
    BY <2>1
  <2>3. creates' \in Nat \ {0}
    BY <1>11, <2>4
  <2> QED
    BY <1>3, <2>1, <2>2, <2>3
<1>5. ASSUME NEW v \in {"Enabled", "Suspended"}, PutBucketVersioning(v) PROVE StoreInv'
  <2>1. /\ bucket.there /\ bucket' = [bucket EXCEPT !.versioning = v]
        /\ UNCHANGED <<vers, cur, nextVer, disk, uploads, req, nextBlob, nextUp, creates>>
    BY <1>5 DEF PutBucketVersioning
  <2>2. bucket' \in [there : BOOLEAN, versioning : {"", "Enabled", "Suspended"}, lock : BOOLEAN]
        /\ bucket'.there
    BY <1>0, <2>1
  <2>3. creates' \in Nat \ {0}
    BY <2>1, <1>0 DEF StoreFits
  <2> QED
    BY <1>3, <2>1, <2>2, <2>3
<1>6. CASE DeleteBucket
  <2>1. /\ vers = {} /\ vers' = {} /\ bucket' = NoBucket /\ cur' = [k \in Keys |-> 0]
        /\ nextVer' = 1 /\ disk' = Empty /\ UNCHANGED <<uploads, req, nextBlob, creates>>
    BY <1>6 DEF DeleteBucket
  <2>5. bucket' = NoBucket /\ disk' = Empty /\ nextVer' = 1
    BY <2>1
  <2>6. bucket' \in [there : BOOLEAN, versioning : {"", "Enabled", "Suspended"}, lock : BOOLEAN]
        /\ ~bucket'.there
    BY <2>5 DEF NoBucket
  <2>7. DOMAIN disk' = {}
    BY <2>5 DEF Empty
  <2>8. nextVer' \in Nat \ {0}
    BY <2>5
  <2>2. bucket' \in [there : BOOLEAN, versioning : {"", "Enabled", "Suspended"}, lock : BOOLEAN]
        /\ ~bucket'.there /\ DOMAIN disk' = {} /\ nextVer' \in Nat \ {0}
    BY <2>6, <2>7, <2>8
  <2>3. StoreFits'
    BY <1>0, <2>1, <2>2 DEF StoreFits
  <2>9. UNCHANGED nextBlob
    BY <2>1
  <2>4. nextBlob' \in Nat /\ nextBlob' >= nextBlob
    BY <1>9, <2>9
  <2> QED
    BY <1>0, <2>1, <2>3, <2>4, RowsReset DEF StoreInv
<1>7. CASE S3Crash
  <2>1. /\ req' = [r \in Requests |-> Done]
        /\ UNCHANGED <<bucket, vers, cur, nextVer, disk, uploads, nextBlob, creates>>
    BY <1>7 DEF S3Crash
  <2>2. \A n : ReqFits(Done, n)
    BY DEF ReqFits, Done, Loose
  <2>3. req' = [r \in Requests |-> req'[r]] /\ \A r \in Requests : ReqFits(req'[r], nextBlob)
    BY <2>1, <2>2
  <2>4. StoreFits'
    BY <1>0, <2>1, <2>3 DEF StoreFits
  <2> QED
    BY <1>10, <2>1, <2>4
<1>8. CASE UNCHANGED s3Vars
  <2>1. StoreFits'
    BY <1>0, <1>8 DEF s3Vars, StoreFits
  <2> QED
    BY <1>10, <1>8, <2>1 DEF s3Vars
<1> QED
  BY <1>1, <1>2, <1>4, <1>5, <1>6, <1>7, <1>8, BeginStore, ContinueStore DEF S3Next

\* For every number of requests, keys and versions: the current bucket, which
\* reads and listings go by (internal/s3store), names the newest row of a key, or
\* nothing where that is a delete marker, however puts, copies, deletes, uploads
\* and changes of the versioning interleave.
THEOREM ListingsShowNewest == S3Spec => []CurIsNewest
<1>1. S3Init => StoreInv
  BY S3InitFits DEF StoreInv
<1>2. StoreInv => CurIsNewest
  BY DEF StoreInv, IndexFits
<1> QED
  BY <1>1, <1>2, StoreStep, PTL DEF S3Spec

-----------------------------------------------------------------------------
(* S3: the blobs and who counts on them.                                   *)

\* A blob that a row, or a request about to commit, counts on.
Kept(b) ==
  \/ \E v \in vers : v.blob = b /\ b # NoBlob
  \/ \E r \in Requests : req[r].pc = "commit" /\ req[r].blob = b

\* A blob that some request will remove, or that is a part of an upload.
Losable(b) ==
  \/ \E r \in Requests : b \in Loose(req[r])
  \/ \E u \in DOMAIN uploads : \E n \in DOMAIN uploads[u].parts : uploads[u].parts[n].blob = b

\* A blob is counted on once, and nobody will remove one that is counted on.
Own ==
  /\ \A v, w \in vers : v.blob # NoBlob /\ v.blob = w.blob => v = w
  /\ \A r, s \in Requests :
       req[r].pc = "commit" /\ req[s].pc = "commit" /\ req[r].blob = req[s].blob => r = s
  /\ \A v \in vers, r \in Requests : req[r].pc = "commit" => v.blob # req[r].blob
  /\ \A b : ~(Kept(b) /\ Losable(b))

\* If the file is there, it holds e.
Says(d, b, e) == b \in DOMAIN d => d[b] = e

\* What a request carries as the ETag is what its files hold; a blob about to be
\* committed is there.
Tells(q, d) ==
  /\ q.pc = "commit" => q.blob \in DOMAIN d /\ d[q.blob] = q.etag
  /\ q.pc \in {"copy", "putpart"} => Says(d, q.blob, q.etag)
  /\ q.pc = "assemble" =>
       \E E : /\ E = [i \in DOMAIN q.blobs |-> E[i]] /\ q.etag = Concat(E)
              /\ \A i \in DOMAIN q.blobs : Says(d, q.blobs[i], E[i])

\* The same of the parts of an upload.
PartsTell(up, d) == \A i \in DOMAIN up.parts : Says(d, up.parts[i].blob, up.parts[i].etag)

\* Rows, requests and uploads all say what is on disk.
Told ==
  /\ BlobsThere
  /\ \A r \in Requests : Tells(req[r], disk)
  /\ \A u \in DOMAIN uploads : PartsTell(uploads[u], disk)

\* The bucket lives its first life, or none yet.
Good == creates = 0 \/ (creates = 1 /\ bucket.there)

\* The inductive invariant of the blobs.  It is about the first
\* life of the bucket: DeleteBucket looks at the rows, and a request that has
\* written its blob has no row yet.
BlobInv == Good => Own /\ Told

\* A request's own entry changes, no other.
LEMMA ReqIs ==
  ASSUME StoreInv, NEW r \in Requests, NEW to, req' = [req EXCEPT ![r] = to]
  PROVE  /\ req'[r] = to
         /\ \A x \in Requests : x # r => req'[x] = req[x]
<1>1. req = [x \in Requests |-> req[x]]
  BY DEF StoreInv, StoreFits
<1> QED
  BY <1>1

\* The next blob is new to everybody.
LEMMA Numbered ==
  ASSUME StoreInv
  PROVE  /\ nextBlob \in Nat \ {0} /\ nextBlob \notin DOMAIN disk /\ NoBlob \notin DOMAIN disk
         /\ \A b : Kept(b) \/ Losable(b) => b # nextBlob /\ b # NoBlob
         /\ \A v \in vers : v.blob # nextBlob
         /\ \A r \in Requests : req[r].pc \in {"commit", "copy"} => req[r].blob # nextBlob
<1>1. nextBlob \in Nat \ {0} /\ DOMAIN disk \subseteq 1..(nextBlob - 1)
  BY DEF StoreInv, StoreFits
<1>2. \A b \in 0..(nextBlob - 1) : b # nextBlob
  BY <1>1
<1>3. \A b \in 1..(nextBlob - 1) : b # nextBlob /\ b # NoBlob
  BY <1>1 DEF NoBlob
<1>4. \A v \in vers : v.blob \in 0..(nextBlob - 1)
  BY DEF StoreInv, RowsFit
<1>5. \A r \in Requests : ReqFits(req[r], nextBlob)
  BY DEF StoreInv, StoreFits
<1>6. \A r \in Requests :
        /\ req[r].pc = "commit" => req[r].blob \in 1..(nextBlob - 1)
        /\ req[r].pc = "copy" => req[r].blob \in 0..(nextBlob - 1)
        /\ Loose(req[r]) \subseteq 1..(nextBlob - 1)
  BY <1>5 DEF ReqFits
<1>7. \A u \in DOMAIN uploads : \A n \in DOMAIN uploads[u].parts :
        uploads[u].parts[n].blob \in 1..(nextBlob - 1)
  BY DEF StoreInv, StoreFits, UploadFits
<1>8. \A b : Kept(b) => b # nextBlob /\ b # NoBlob
  BY <1>2, <1>3, <1>4, <1>6 DEF Kept
<1>9. \A b : Losable(b) => b # nextBlob /\ b # NoBlob
  BY <1>3, <1>6, <1>7 DEF Losable
<1> QED
  BY <1>1, <1>2, <1>3, <1>4, <1>6, <1>8, <1>9

\* Counting on less, and losing only what nobody counts on.
LEMMA OwnDropped ==
  ASSUME StoreInv, Own, NEW r \in Requests, NEW to, req' = [req EXCEPT ![r] = to],
         UNCHANGED vers, to.pc # "commit",
         \A b \in Loose(to) : Losable(b) \/ (req[r].pc = "commit" /\ b = req[r].blob),
         \A u \in DOMAIN uploads' : \A n \in DOMAIN uploads'[u].parts :
           Losable(uploads'[u].parts[n].blob)
  PROVE  Own'
<1>1. req'[r] = to /\ \A x \in Requests : x # r => req'[x] = req[x]
  BY ReqIs
<1>2. \A x \in Requests : req'[x].pc = "commit" => x # r /\ req'[x] = req[x]
  BY <1>1
<1>3. \A b : Kept(b)' => Kept(b) /\ ~(req[r].pc = "commit" /\ b = req[r].blob)
  BY <1>2 DEF Kept, Own
<1>4. \A b : Losable(b)' => Losable(b) \/ (req[r].pc = "commit" /\ b = req[r].blob)
  <2> SUFFICES ASSUME NEW b, Losable(b)'
               PROVE  Losable(b) \/ (req[r].pc = "commit" /\ b = req[r].blob)
    OBVIOUS
  <2>1. ASSUME NEW x \in Requests, b \in Loose(req'[x])
        PROVE  Losable(b) \/ (req[r].pc = "commit" /\ b = req[r].blob)
    <3>1. CASE x = r
      BY <1>1, <2>1, <3>1
    <3>2. CASE x # r
      <4>1. b \in Loose(req[x])
        BY <1>1, <2>1, <3>2
      <4> QED
        BY <4>1 DEF Losable
    <3> QED
      BY <3>1, <3>2
  <2> QED
    BY <2>1 DEF Losable
<1>5. \A b : ~(Kept(b)' /\ Losable(b)')
  BY <1>3, <1>4 DEF Own
<1> QED
  BY <1>2, <1>5 DEF Own

\* A request starts to count on a new blob.
LEMMA OwnFresh ==
  ASSUME StoreInv, Own, NEW r \in Requests, NEW to, req' = [req EXCEPT ![r] = to],
         UNCHANGED <<vers, uploads>>,
         \/ to.pc = "commit" /\ to.blob = nextBlob /\ \A b \in Loose(to) : Losable(b)
         \/ to.pc # "commit" /\ Loose(to) = {nextBlob}
  PROVE  Own'
<1>1. req'[r] = to /\ \A x \in Requests : x # r => req'[x] = req[x]
  BY ReqIs
<1>2. /\ \A b : Kept(b) \/ Losable(b) => b # nextBlob
      /\ \A v \in vers : v.blob # nextBlob
      /\ \A x \in Requests : req[x].pc = "commit" => req[x].blob # nextBlob
  BY Numbered
<1>3. \A b : Losable(b)' => Losable(b) \/ b \in Loose(to)
  <2> SUFFICES ASSUME NEW b, Losable(b)' PROVE Losable(b) \/ b \in Loose(to)
    OBVIOUS
  <2>1. ASSUME NEW x \in Requests, b \in Loose(req'[x]) PROVE Losable(b) \/ b \in Loose(to)
    <3>1. CASE x = r
      BY <1>1, <2>1, <3>1
    <3>2. CASE x # r
      <4>1. b \in Loose(req[x])
        BY <1>1, <2>1, <3>2
      <4> QED
        BY <4>1 DEF Losable
    <3> QED
      BY <3>1, <3>2
  <2> QED
    BY <2>1 DEF Losable
<1>4. CASE to.pc = "commit" /\ to.blob = nextBlob /\ \A b \in Loose(to) : Losable(b)
  <2>1. \A b : Kept(b)' => Kept(b) \/ b = nextBlob
    BY <1>1, <1>4 DEF Kept
  <2>2. \A b : Losable(b)' => Losable(b)
    BY <1>3, <1>4
  <2>3. \A b : ~(Kept(b)' /\ Losable(b)')
    BY <1>2, <2>1, <2>2 DEF Own
  <2>4. \A x, y \in Requests :
          req'[x].pc = "commit" /\ req'[y].pc = "commit" /\ req'[x].blob = req'[y].blob => x = y
    BY <1>1, <1>2, <1>4 DEF Own
  <2>5. \A v \in vers, x \in Requests : req'[x].pc = "commit" => v.blob # req'[x].blob
    BY <1>1, <1>2, <1>4 DEF Own
  <2> QED
    BY <2>3, <2>4, <2>5 DEF Own
<1>5. CASE to.pc # "commit" /\ Loose(to) = {nextBlob}
  <2>1. \A x \in Requests : req'[x].pc = "commit" => x # r /\ req'[x] = req[x]
    BY <1>1, <1>5
  <2>2. \A b : Kept(b)' => Kept(b)
    BY <2>1 DEF Kept
  <2>3. \A b : ~(Kept(b)' /\ Losable(b)')
    BY <1>2, <1>3, <1>5, <2>2 DEF Own
  <2> QED
    BY <2>1, <2>3 DEF Own
<1> QED
  BY <1>4, <1>5

\* old rows go, N is the set of new ones
LEMMA OwnRows ==
  ASSUME StoreInv, Own, NEW r \in Requests, NEW to, req' = [req EXCEPT ![r] = to],
         UNCHANGED uploads, NEW old \in SUBSET vers, NEW N, vers' = (vers \ old) \cup N,
         \A v, w \in N : v = w,
         \A v \in N : v.blob = NoBlob \/ (req[r].pc = "commit" /\ v.blob = req[r].blob),
         to.pc # "commit",
         \A b \in Loose(to) : Losable(b) \/ b \in BlobsOf(old)
  PROVE  Own'
<1>1. req'[r] = to /\ \A x \in Requests : x # r => req'[x] = req[x]
  BY ReqIs
<1>2. \A x \in Requests : req'[x].pc = "commit" => x # r /\ req'[x] = req[x]
  BY <1>1
<1>3. \A b : Losable(b)' => Losable(b) \/ b \in BlobsOf(old)
  <2> SUFFICES ASSUME NEW b, Losable(b)' PROVE Losable(b) \/ b \in BlobsOf(old)
    OBVIOUS
  <2>1. ASSUME NEW x \in Requests, b \in Loose(req'[x]) PROVE Losable(b) \/ b \in BlobsOf(old)
    <3>1. CASE x = r
      BY <1>1, <2>1, <3>1
    <3>2. CASE x # r
      <4>1. b \in Loose(req[x])
        BY <1>1, <2>1, <3>2
      <4> QED
        BY <4>1 DEF Losable
    <3> QED
      BY <3>1, <3>2
  <2> QED
    BY <2>1 DEF Losable
<1>4. PICK V : V = vers'
  OBVIOUS
<1>5. \A v : v \in V <=> (v \in vers /\ v \notin old) \/ v \in N
  BY <1>4
<1>6. ASSUME NEW b, \E v \in V : v.blob = b /\ b # NoBlob
      PROVE  Kept(b) /\ b \notin BlobsOf(old)
  <2>1. PICK v \in V : v.blob = b /\ b # NoBlob
    BY <1>6
  <2>2. CASE v \in vers /\ v \notin old
    BY <2>1, <2>2 DEF Kept, Own, BlobsOf
  <2>3. CASE v \in N
    BY <2>1, <2>3 DEF Kept, Own, BlobsOf
  <2> QED
    BY <1>5, <2>1, <2>2, <2>3
<1>7. ASSUME NEW x \in Requests, req'[x].pc = "commit"
      PROVE  Kept(req'[x].blob) /\ req'[x].blob \notin BlobsOf(old)
  <2>1. x # r /\ req'[x] = req[x] /\ req[x].pc = "commit"
    BY <1>2, <1>7
  <2> QED
    BY <2>1 DEF Kept, Own, BlobsOf
<1>8. \A b : Kept(b)' => Kept(b) /\ b \notin BlobsOf(old)
  BY <1>4, <1>6, <1>7 DEF Kept
<1>9. \A b : ~(Kept(b)' /\ Losable(b)')
  BY <1>3, <1>8 DEF Own
<1>10. \A v, w \in V : v.blob # NoBlob /\ v.blob = w.blob => v = w
  BY <1>5 DEF Own
<1>11. \A v \in V, x \in Requests : req'[x].pc = "commit" => v.blob # req'[x].blob
  <2> SUFFICES ASSUME NEW v \in V, NEW x \in Requests, req'[x].pc = "commit",
                      v.blob = req'[x].blob
               PROVE  FALSE
    OBVIOUS
  <2>1. x # r /\ req'[x] = req[x] /\ req[x].pc = "commit" /\ Kept(req[x].blob)
    BY <1>2, <1>7
  <2>2. CASE v \in vers
    BY <2>1, <2>2 DEF Own
  <2>3. CASE v \in N
    BY <2>1, <2>3, Numbered DEF Own
  <2> QED
    BY <1>5, <2>2, <2>3
<1>12. \A x, y \in Requests :
          req'[x].pc = "commit" /\ req'[y].pc = "commit" /\ req'[x].blob = req'[y].blob => x = y
  BY <1>2 DEF Own
<1> QED
  BY <1>4, <1>9, <1>10, <1>11, <1>12 DEF Own

\* Removing files that a request does not count on leaves it right.
LEMMA TellsLess ==
  ASSUME NEW q, NEW d, NEW e, Tells(q, d),
         DOMAIN e \subseteq DOMAIN d, \A b \in DOMAIN e : e[b] = d[b],
         q.pc = "commit" => q.blob \in DOMAIN e
  PROVE  Tells(q, e)
<1>1. \A b, x : Says(d, b, x) => Says(e, b, x)
  BY DEF Says
<1>2. ASSUME q.pc = "assemble"
      PROVE  \E E : /\ E = [i \in DOMAIN q.blobs |-> E[i]] /\ q.etag = Concat(E)
                    /\ \A i \in DOMAIN q.blobs : Says(e, q.blobs[i], E[i])
  <2>1. PICK E : /\ E = [i \in DOMAIN q.blobs |-> E[i]] /\ q.etag = Concat(E)
                 /\ \A i \in DOMAIN q.blobs : Says(d, q.blobs[i], E[i])
    BY <1>2 DEF Tells
  <2>2. \A i \in DOMAIN q.blobs : Says(e, q.blobs[i], E[i])
    BY <1>1, <2>1
  <2> QED
    BY <2>1, <2>2
<1>3. q.pc = "commit" => q.blob \in DOMAIN e /\ e[q.blob] = q.etag
  BY DEF Tells
<1>4. q.pc \in {"copy", "putpart"} => Says(e, q.blob, q.etag)
  BY <1>1 DEF Tells
<1> QED
  BY <1>2, <1>3, <1>4 DEF Tells

\* A new file leaves every request right.
LEMMA TellsMore ==
  ASSUME NEW q, NEW d, NEW e, NEW n \in Nat \ {0}, Tells(q, d), ReqFits(q, n),
         DOMAIN e = DOMAIN d \cup {n}, \A b \in DOMAIN d : e[b] = d[b]
  PROVE  Tells(q, e)
<1>0. \A b : b \in 1..(n - 1) \/ b \in 0..(n - 1) => b # n
  OBVIOUS
<1>1. \A b, x : b # n /\ Says(d, b, x) => Says(e, b, x)
  BY DEF Says
<1>2. ASSUME q.pc = "assemble"
      PROVE  \E E : /\ E = [i \in DOMAIN q.blobs |-> E[i]] /\ q.etag = Concat(E)
                    /\ \A i \in DOMAIN q.blobs : Says(e, q.blobs[i], E[i])
  <2>1. PICK E : /\ E = [i \in DOMAIN q.blobs |-> E[i]] /\ q.etag = Concat(E)
                 /\ \A i \in DOMAIN q.blobs : Says(d, q.blobs[i], E[i])
    BY <1>2 DEF Tells
  <2>2. {q.blobs[i] : i \in DOMAIN q.blobs} \subseteq 1..(n - 1)
    BY <1>2 DEF ReqFits, Loose
  <2>3. \A i \in DOMAIN q.blobs : Says(e, q.blobs[i], E[i])
    BY <1>0, <1>1, <2>1, <2>2
  <2> QED
    BY <2>1, <2>3
<1>3. q.pc = "commit" => q.blob \in DOMAIN e /\ e[q.blob] = q.etag
  BY DEF Tells
<1>4. q.pc = "copy" => Says(e, q.blob, q.etag)
  <2> HAVE q.pc = "copy"
  <2>1. q.blob # n
    BY <1>0 DEF ReqFits
  <2> QED
    BY <1>1, <2>1 DEF Tells
<1>5. q.pc = "putpart" => Says(e, q.blob, q.etag)
  <2> HAVE q.pc = "putpart"
  <2>1. q.blob # n
    BY <1>0 DEF ReqFits, Loose
  <2> QED
    BY <1>1, <2>1 DEF Tells
<1> QED
  BY <1>2, <1>3, <1>4, <1>5 DEF Tells

\* files go that no row and no committing request counts on
LEMMA ToldLess ==
  ASSUME StoreInv, Own, Told, NEW r \in Requests, NEW to, req' = [req EXCEPT ![r] = to],
         UNCHANGED vers, to.pc # "commit", Tells(to, disk),
         \A u \in DOMAIN uploads' : PartsTell(uploads'[u], disk),
         DOMAIN disk' \subseteq DOMAIN disk, \A b \in DOMAIN disk' : disk'[b] = disk[b],
         \A b \in DOMAIN disk : b \in DOMAIN disk' \/ Losable(b)
  PROVE  Told'
<1>1. req'[r] = to /\ \A x \in Requests : x # r => req'[x] = req[x]
  BY ReqIs
<1>2. \A b \in DOMAIN disk : Kept(b) => b \in DOMAIN disk'
  BY DEF Own
<1>3. BlobsThere'
  <2> SUFFICES ASSUME NEW v \in vers, v.blob # NoBlob
               PROVE  v.blob \in DOMAIN disk' /\ disk'[v.blob] = v.etag
    BY DEF BlobsThere, IsMarker
  <2>1. v.blob \in DOMAIN disk /\ disk[v.blob] = v.etag
    BY DEF Told, BlobsThere, IsMarker
  <2>2. Kept(v.blob)
    BY DEF Kept
  <2> QED
    BY <1>2, <2>1, <2>2
<1>4. \A b, x : Says(disk, b, x) => Says(disk', b, x)
  BY DEF Says
<1>5. \A u \in DOMAIN uploads' : PartsTell(uploads'[u], disk')
  BY <1>4 DEF PartsTell
<1>6. ASSUME NEW x \in Requests PROVE Tells(req'[x], disk')
  <2>1. PICK d : d = disk'
    OBVIOUS
  <2>2. CASE x = r
    <3>1. Tells(to, d)
      BY <2>1, TellsLess
    <3> QED
      BY <1>1, <2>1, <2>2, <3>1
  <2>3. CASE x # r
    <3>1. Tells(req[x], disk)
      BY DEF Told
    <3>2. req[x].pc = "commit" => req[x].blob \in DOMAIN d
      <4> HAVE req[x].pc = "commit"
      <4>1. Kept(req[x].blob) /\ req[x].blob \in DOMAIN disk
        BY <3>1 DEF Kept, Tells
      <4> QED
        BY <1>2, <2>1, <4>1
    <3>3. DOMAIN d \subseteq DOMAIN disk /\ \A b \in DOMAIN d : d[b] = disk[b]
      BY <2>1
    <3>4. Tells(req[x], d)
      BY <3>1, <3>2, <3>3, TellsLess
    <3> QED
      BY <1>1, <2>1, <2>3, <3>4
  <2> QED
    BY <2>2, <2>3
<1> QED
  BY <1>3, <1>5, <1>6 DEF Told

\* a blob is written
LEMMA ToldMore ==
  ASSUME StoreInv, Told, NEW r \in Requests, NEW to, req' = [req EXCEPT ![r] = to],
         UNCHANGED <<vers, uploads>>, NEW body, Written(body), Tells(to, disk')
  PROVE  Told'
<1>1. req'[r] = to /\ \A x \in Requests : x # r => req'[x] = req[x]
  BY ReqIs
<1>2. /\ DOMAIN disk' = DOMAIN disk \cup {nextBlob}
      /\ \A b \in DOMAIN disk : disk'[b] = disk[b]
  BY WrittenFacts DEF StoreInv
<1>3. BlobsThere'
  BY <1>2 DEF Told, BlobsThere, IsMarker
<1>4. \A b, x : b # nextBlob /\ Says(disk, b, x) => Says(disk', b, x)
  BY <1>2 DEF Says
<1>5. ASSUME NEW u \in DOMAIN uploads PROVE PartsTell(uploads[u], disk')
  <2>1. \A i \in DOMAIN uploads[u].parts : uploads[u].parts[i].blob # nextBlob
    BY Numbered DEF Losable
  <2> QED
    BY <1>4, <2>1 DEF PartsTell, Told
<1>6. ASSUME NEW x \in Requests PROVE Tells(req'[x], disk')
  <2>1. PICK d : d = disk'
    OBVIOUS
  <2>2. CASE x = r
    BY <1>1, <2>2
  <2>3. CASE x # r
    <3>1. Tells(req[x], disk) /\ ReqFits(req[x], nextBlob)
      BY DEF Told, StoreInv, StoreFits
    <3>2. nextBlob \in Nat \ {0}
      BY Numbered
    <3>3. DOMAIN d = DOMAIN disk \cup {nextBlob} /\ \A b \in DOMAIN disk : d[b] = disk[b]
      BY <1>2, <2>1
    <3>4. Tells(req[x], d)
      BY <3>1, <3>2, <3>3, TellsMore
    <3> QED
      BY <1>1, <2>1, <2>3, <3>4
  <2> QED
    BY <2>2, <2>3
<1> QED
  BY <1>3, <1>5, <1>6 DEF Told

\* rows come and go
LEMMA ToldRows ==
  ASSUME StoreInv, Told, NEW r \in Requests, NEW to, req' = [req EXCEPT ![r] = to],
         UNCHANGED <<disk, uploads>>, Tells(to, disk),
         \A v \in vers' : v \in vers \/ v.blob = NoBlob
                          \/ (v.blob \in DOMAIN disk /\ disk[v.blob] = v.etag)
  PROVE  Told'
<1>1. req'[r] = to /\ \A x \in Requests : x # r => req'[x] = req[x]
  BY ReqIs
<1>2. BlobsThere'
  BY DEF Told, BlobsThere, IsMarker
<1>3. \A x \in Requests : Tells(req'[x], disk)
  BY <1>1 DEF Told
<1> QED
  BY <1>2, <1>3 DEF Told

\* A request that only removes says nothing.
LEMMA CleaningTells ==
  ASSUME NEW D, NEW d
  PROVE  Tells(Cleaning(D), d) /\ Tells(Done, d) /\ Cleaning(D).pc # "commit" /\ Done.pc # "commit"
         /\ Loose(Cleaning(D)) = D /\ Loose(Done) = {}
BY DEF Cleaning, Done, Tells, Loose

-----------------------------------------------------------------------------
(* S3: every step keeps the blobs.                                         *)

\* Every step that begins a request keeps the blobs counted on.
LEMMA BeginBlobs ==
  ASSUME StoreInv, Own, Told, NEW r \in Requests, RequestBegins(r)
  PROVE  Own' /\ Told'
<1>0. /\ \A u \in DOMAIN uploads : \A n \in DOMAIN uploads[u].parts :
           Losable(uploads[u].parts[n].blob)
      /\ \A u \in DOMAIN uploads : PartsTell(uploads[u], disk)
      /\ \A u \in DOMAIN uploads : UploadFits(uploads[u], nextBlob)
  BY DEF Losable, Told, StoreInv, StoreFits
\* a request begins that changes nothing yet
<1>1. ASSUME NEW to, req' = [req EXCEPT ![r] = to], UNCHANGED <<vers, disk, uploads>>,
             to.pc # "commit", \A b \in Loose(to) : Losable(b), Tells(to, disk)
      PROVE  Own' /\ Told'
  <2>1. Own'
    BY <1>0, <1>1, OwnDropped
  <2>2. Told'
    BY <1>0, <1>1, ToldLess
  <2> QED
    BY <2>1, <2>2
\* a request begins with a blob
<1>2. ASSUME NEW to, req' = [req EXCEPT ![r] = to], UNCHANGED <<vers, uploads>>,
             NEW body, Written(body), to.blob = nextBlob, to.etag = body,
             \/ to.pc = "commit" /\ Loose(to) = {}
             \/ to.pc = "putpart"
      PROVE  Own' /\ Told'
  <2>1. nextBlob \in DOMAIN disk' /\ disk'[nextBlob] = body
    BY <1>2, WrittenFacts DEF StoreInv
  <2>2. Tells(to, disk')
    BY <1>2, <2>1 DEF Tells, Says
  <2>3. \/ to.pc = "commit" /\ \A b \in Loose(to) : Losable(b)
        \/ to.pc # "commit" /\ Loose(to) = {nextBlob}
    BY <1>2 DEF Loose
  <2>4. Own'
    BY <1>2, <2>3, OwnFresh
  <2>5. Told'
    BY <1>2, <2>2, ToldMore
  <2> QED
    BY <2>4, <2>5
\* rows go, a marker may come
<1>3. ASSUME NEW old \in SUBSET vers, NEW N, vers' = (vers \ old) \cup N,
             \A v, w \in N : v = w, \A v \in N : v.blob = NoBlob,
             req' = [req EXCEPT ![r] = Cleaning(BlobsOf(old))],
             UNCHANGED <<disk, uploads>>
      PROVE  Own' /\ Told'
  <2>1. PICK to : to = Cleaning(BlobsOf(old))
    OBVIOUS
  <2>2. to.pc # "commit" /\ Loose(to) = BlobsOf(old) /\ Tells(to, disk)
    BY <2>1, CleaningTells
  <2>3. req' = [req EXCEPT ![r] = to]
    BY <1>3, <2>1
  <2>7. /\ \A v \in N : v.blob = NoBlob \/ (req[r].pc = "commit" /\ v.blob = req[r].blob)
        /\ \A b \in Loose(to) : Losable(b) \/ b \in BlobsOf(old)
    BY <1>3, <2>2
  <2>8. vers' = (vers \ old) \cup N /\ UNCHANGED uploads /\ (\A v, w \in N : v = w)
    BY <1>3
  <2>4. Own'
    BY <2>2, <2>3, <2>7, <2>8, OwnRows
  <2>5. \A v \in vers' : v \in vers \/ v.blob = NoBlob
    BY <1>3
  <2>6. Told'
    BY <1>3, <2>2, <2>3, <2>5, ToldRows
  <2> QED
    BY <2>4, <2>6
<1>4. ASSUME NEW k \in Keys, NEW p \in Pieces, PutObject(r, k, p)
      PROVE  Own' /\ Told'
  <2> DEFINE to == Committing(k, nextBlob, <<p>>, 0, {})
  <2>1. /\ Written(<<p>>) /\ req' = [req EXCEPT ![r] = to]
        /\ UNCHANGED <<vers, uploads>>
    BY <1>4 DEF PutObject, Onto
  <2>2. to.blob = nextBlob /\ to.etag = <<p>> /\ to.pc = "commit" /\ Loose(to) = {}
    BY DEF Committing, Loose
  <2> HIDE DEF to
  <2> QED
    BY <1>2, <2>1, <2>2
<1>5. ASSUME NEW v \in vers, NEW k, NEW u, NEW n, CopyFrom(r, v, k, u, n)
      PROVE  Own' /\ Told'
  <2> DEFINE to == [pc |-> "copy", blob |-> v.blob, etag |-> v.etag, key |-> k, up |-> u, part |-> n]
  <2>1. req' = [req EXCEPT ![r] = to] /\ UNCHANGED <<vers, disk, uploads>>
    BY <1>5 DEF CopyFrom, Onto
  <2>2. to.pc = "copy" /\ to.blob = v.blob /\ to.etag = v.etag /\ Loose(to) = {}
    BY DEF Loose
  <2> HIDE DEF to
  <2>3. Says(disk, v.blob, v.etag)
    BY Numbered DEF Told, BlobsThere, IsMarker, Says
  <2>4. Tells(to, disk)
    BY <2>2, <2>3 DEF Tells
  <2> QED
    BY <1>1, <2>1, <2>2, <2>4
<1>6. ASSUME NEW v \in vers, NEW b \in BOOLEAN, DeleteVersion(r, v, b)
      PROVE  Own' /\ Told'
  <2>1. PICK old, N : old = {v} /\ N = {}
    OBVIOUS
  <2>2. /\ vers' = (vers \ old) \cup N /\ UNCHANGED <<disk, uploads>>
        /\ req' = [req EXCEPT ![r] = Cleaning(BlobsOf(old))]
    BY <1>6, <2>1 DEF DeleteVersion, Onto
  <2>3. old \in SUBSET vers /\ (\A x, w \in N : x = w) /\ (\A x \in N : x.blob = NoBlob)
    BY <2>1
  <2> QED
    BY <1>3, <2>2, <2>3
<1>7. ASSUME NEW k \in Keys, NEW b \in BOOLEAN, DeleteObject(r, k, b)
      PROVE  Own' /\ Told'
  <2> DEFINE old == IF bucket.versioning # "" THEN Replaced(k)
                    ELSE IF VersionsOf(vers, k) = {} THEN {} ELSE {Newest(vers, k)}
             row == NewRow(k, NoBlob, <<>>, "none")
  <2>1. /\ req' = [req EXCEPT ![r] = Cleaning(BlobsOf(old))] /\ UNCHANGED <<disk, uploads>>
        /\ \/ vers' = (vers \ old) \cup {row}
           \/ vers' = (vers \ old) \cup {}
    BY <1>7 DEF DeleteObject, Onto
  <2>2. old \in SUBSET vers
    <3>1. Replaced(k) \subseteq vers
      BY DEF Replaced, Named, VersionsOf
    <3>2. VersionsOf(vers, k) # {} => Newest(vers, k) \in vers
      BY NewestThere DEF StoreInv
    <3> QED
      BY <3>1, <3>2
  <2>3. row.blob = NoBlob
    BY DEF NewRow
  <2> HIDE DEF old, row
  <2>4. CASE vers' = (vers \ old) \cup {row}
    <3>1. (\A v, w \in {row} : v = w) /\ (\A v \in {row} : v.blob = NoBlob)
      BY <2>3
    <3> QED
      BY <1>3, <2>1, <2>2, <2>4, <3>1
  <2>5. CASE vers' = (vers \ old) \cup {}
    <3>1. PICK N : N = {}
      OBVIOUS
    <3>2. vers' = (vers \ old) \cup N
      BY <2>5, <3>1
    <3>3. (\A v, w \in N : v = w) /\ (\A v \in N : v.blob = NoBlob)
      BY <3>1
    <3> QED
      BY <1>3, <2>1, <2>2, <3>2, <3>3
  <2> QED
    BY <2>1, <2>4, <2>5
<1>8. ASSUME NEW u \in DOMAIN uploads, NEW n \in PartNumbers, NEW p \in Pieces,
             UploadPart(r, u, n, p)
      PROVE  Own' /\ Told'
  <2> DEFINE to == PuttingPart(u, n, nextBlob, <<p>>)
  <2>1. /\ Written(<<p>>) /\ req' = [req EXCEPT ![r] = to]
        /\ UNCHANGED <<vers, uploads>>
    BY <1>8 DEF UploadPart, Onto
  <2>2. to.blob = nextBlob /\ to.etag = <<p>> /\ to.pc = "putpart"
    BY DEF PuttingPart
  <2> HIDE DEF to
  <2> QED
    BY <1>2, <2>1, <2>2
<1>9. ASSUME NEW u \in DOMAIN uploads, NEW S \in SUBSET DOMAIN uploads[u].parts,
             CompleteUpload(r, u, S)
      PROVE  Own' /\ Told'
  <2> DEFINE parts == uploads[u].parts
             order == Ascending(S)
             blobs == [i \in DOMAIN order |-> parts[order[i]].blob]
             etags == [i \in DOMAIN order |-> parts[order[i]].etag]
             to == [pc |-> "assemble", up |-> u, key |-> uploads[u].key,
                    blobs |-> blobs, etag |-> Concat(etags)]
  <2>1. req' = [req EXCEPT ![r] = to] /\ UNCHANGED <<vers, disk, uploads>>
    BY <1>9 DEF CompleteUpload, Onto
  <2>2. order \in [1..Cardinality(S) -> S]
    <3>1. DOMAIN parts \subseteq Nat /\ IsFiniteSet(DOMAIN parts)
      BY <1>0 DEF UploadFits
    <3>2. IsFiniteSet(S)
      BY <3>1, FS_Subset
    <3> QED
      BY <3>1, <3>2, Ascends
  <2>3. \A i \in DOMAIN order : order[i] \in DOMAIN parts
    BY <2>2
  <2>4. /\ to.pc = "assemble" /\ to.blobs = blobs /\ to.etag = Concat(etags)
        /\ Loose(to) = {blobs[i] : i \in DOMAIN blobs}
    BY DEF Loose
  <2>5. /\ DOMAIN blobs = DOMAIN order /\ DOMAIN etags = DOMAIN order
        /\ etags = [i \in DOMAIN blobs |-> etags[i]]
        /\ \A i \in DOMAIN order : /\ blobs[i] = parts[order[i]].blob
                                   /\ etags[i] = parts[order[i]].etag
    OBVIOUS
  <2>6. \A n \in DOMAIN parts : Losable(parts[n].blob) /\ Says(disk, parts[n].blob, parts[n].etag)
    BY <1>0 DEF PartsTell
  <2> HIDE DEF to, blobs, etags, order, parts
  <2>7. \A b \in Loose(to) : Losable(b)
    BY <2>3, <2>4, <2>5, <2>6
  <2>8. \A i \in DOMAIN blobs : Says(disk, blobs[i], etags[i])
    BY <2>3, <2>5, <2>6
  <2>9. Tells(to, disk)
    BY <2>4, <2>5, <2>8 DEF Tells
  <2> QED
    BY <1>1, <2>1, <2>4, <2>7, <2>9
<1>10. ASSUME NEW u \in DOMAIN uploads, AbortUpload(r, u)
       PROVE  Own' /\ Told'
  <2> DEFINE D == {uploads[u].parts[n].blob : n \in DOMAIN uploads[u].parts}
             to == [pc |-> "drop", up |-> u, old |-> {}, drop |-> D]
  <2>1. req' = [req EXCEPT ![r] = to] /\ UNCHANGED <<vers, disk, uploads>>
    BY <1>10 DEF AbortUpload, Onto
  <2>2. \A b \in D : Losable(b)
    BY <1>0
  <2> HIDE DEF D
  <2>3. to.pc = "drop" /\ Loose(to) = D /\ Tells(to, disk)
    BY DEF Loose, Tells
  <2> HIDE DEF to
  <2> QED
    BY <1>1, <2>1, <2>2, <2>3
<1> QED
  BY <1>4, <1>5, <1>6, <1>7, <1>8, <1>9, <1>10 DEF RequestBegins

\* So does every later step of a request.
LEMMA ContinueBlobs ==
  ASSUME StoreInv, Own, Told, NEW r \in Requests, RequestContinues(r)
  PROVE  Own' /\ Told'
<1> DEFINE q == req[r]
<1>0. /\ \A u \in DOMAIN uploads : \A n \in DOMAIN uploads[u].parts :
           Losable(uploads[u].parts[n].blob)
      /\ \A u \in DOMAIN uploads : PartsTell(uploads[u], disk)
      /\ \A u \in DOMAIN uploads : UploadFits(uploads[u], nextBlob)
      /\ \A b \in Loose(q) : Losable(b)
      /\ Tells(q, disk)
  BY DEF Losable, Told, StoreInv, StoreFits
\* a blob is written
<1>1. ASSUME NEW to, req' = [req EXCEPT ![r] = to], UNCHANGED <<vers, uploads>>,
             NEW body, Written(body), to.blob = nextBlob, to.etag = body,
             \/ to.pc = "commit" /\ \A b \in Loose(to) : Losable(b)
             \/ to.pc = "putpart"
      PROVE  Own' /\ Told'
  <2>1. nextBlob \in DOMAIN disk' /\ disk'[nextBlob] = body
    BY <1>1, WrittenFacts DEF StoreInv
  <2>2. Tells(to, disk')
    BY <1>1, <2>1 DEF Tells, Says
  <2>3. \/ to.pc = "commit" /\ \A b \in Loose(to) : Losable(b)
        \/ to.pc # "commit" /\ Loose(to) = {nextBlob}
    BY <1>1 DEF Loose
  <2>4. Own'
    BY <1>1, <2>3, OwnFresh
  <2>5. Told'
    BY <1>1, <2>2, ToldMore
  <2> QED
    BY <2>4, <2>5
\* files are removed, or will be, or nothing happens
<1>2. ASSUME NEW D, req' = [req EXCEPT ![r] = Cleaning(D)], UNCHANGED vers,
             \A b \in D : Losable(b) \/ (q.pc = "commit" /\ b = q.blob),
             DOMAIN disk' \subseteq DOMAIN disk, \A b \in DOMAIN disk' : disk'[b] = disk[b],
             \A b \in DOMAIN disk : b \in DOMAIN disk' \/ Losable(b),
             \A u \in DOMAIN uploads' : PartsTell(uploads'[u], disk),
             \A u \in DOMAIN uploads' : \A n \in DOMAIN uploads'[u].parts :
               Losable(uploads'[u].parts[n].blob)
      PROVE  Own' /\ Told'
  <2>1. PICK to : to = Cleaning(D)
    OBVIOUS
  <2>2. to.pc # "commit" /\ Loose(to) = D /\ Tells(to, disk) /\ req' = [req EXCEPT ![r] = to]
    BY <1>2, <2>1, CleaningTells
  <2>3. Own'
    BY <1>2, <2>2, OwnDropped
  <2>4. Told'
    BY <1>2, <2>2, ToldLess
  <2> QED
    BY <2>3, <2>4
<1>3. Done = Cleaning({})
  BY DEF Cleaning
\* such a step that leaves the uploads
<1>4. ASSUME NEW D, req' = [req EXCEPT ![r] = Cleaning(D)], UNCHANGED <<vers, disk, uploads>>,
             \A b \in D : Losable(b) \/ (q.pc = "commit" /\ b = q.blob)
      PROVE  Own' /\ Told'
  BY <1>0, <1>2, <1>4
<1>5. ASSUME NEW c \in Conditions, NEW l \in Locks, PutVersion(r, c, l)
      PROVE  Own' /\ Told'
  <2> DEFINE old == Replaced(q.key)
             row == NewRow(q.key, q.blob, q.etag, l)
  <2>1. q.pc = "commit" /\ UNCHANGED <<disk, uploads>>
    BY <1>5 DEF PutVersion
  <2>2. CASE req' = [req EXCEPT ![r] = Cleaning({q.blob})] /\ UNCHANGED vers
    <3>1. PICK D : D = {q.blob}
      OBVIOUS
    <3>2. req' = [req EXCEPT ![r] = Cleaning(D)] /\ \A b \in D : b = q.blob
      BY <2>2, <3>1
    <3> QED
      BY <1>4, <2>1, <2>2, <3>2
  <2>3. ASSUME NEW to, req' = [req EXCEPT ![r] = to], vers' = (vers \ old) \cup {row},
               to.pc # "commit", Tells(to, disk),
               \A b \in Loose(to) : Losable(b) \/ b \in BlobsOf(old)
        PROVE  Own' /\ Told'
    <3>1. old \in SUBSET vers
      BY DEF Replaced, Named, VersionsOf
    <3>2. row.blob = q.blob /\ row.etag = q.etag
      BY DEF NewRow
    <3>3. q.blob \in DOMAIN disk /\ disk[q.blob] = q.etag
      BY <1>0, <2>1 DEF Tells
    <3> HIDE DEF old, row
    <3>4. PICK N : N = {row}
      OBVIOUS
    <3>5. /\ vers' = (vers \ old) \cup N /\ (\A v, w \in N : v = w)
          /\ \A v \in N : v.blob = NoBlob \/ (req[r].pc = "commit" /\ v.blob = req[r].blob)
      BY <2>1, <2>3, <3>2, <3>4
    <3>6. Own'
      BY <2>1, <2>3, <3>1, <3>5, OwnRows
    <3>7. \A v \in vers' : v \in vers \/ (v.blob \in DOMAIN disk /\ disk[v.blob] = v.etag)
      BY <2>3, <3>2, <3>3
    <3>8. Told'
      BY <2>1, <2>3, <3>7, ToldRows
    <3> QED
      BY <3>6, <3>8
  <2>4. CASE /\ vers' = (vers \ old) \cup {row}
             /\ req' = [req EXCEPT ![r] = Cleaning(BlobsOf(old))]
    <3>1. PICK to : to = Cleaning(BlobsOf(old))
      OBVIOUS
    <3>2. to.pc # "commit" /\ Loose(to) = BlobsOf(old) /\ Tells(to, disk)
      BY <3>1, CleaningTells
    <3> QED
      BY <2>3, <2>4, <3>1, <3>2
  <2>5. CASE /\ vers' = (vers \ old) \cup {row}
             /\ req' = [req EXCEPT ![r] = [pc |-> "drop", up |-> q.up, old |-> BlobsOf(old),
                                           drop |-> q.drop]]
    <3> DEFINE to == [pc |-> "drop", up |-> q.up, old |-> BlobsOf(old), drop |-> q.drop]
    <3>1. to.pc = "drop" /\ Loose(to) = BlobsOf(old) \cup q.drop /\ Tells(to, disk)
      BY DEF Loose, Tells
    <3>2. \A b \in q.drop : Losable(b)
      BY <1>0, <2>1 DEF Loose
    <3>3. req' = [req EXCEPT ![r] = to]
      BY <2>5
    <3> HIDE DEF to, old, row
    <3> QED
      BY <2>3, <2>5, <3>1, <3>2, <3>3
  <2> QED
    BY <1>5, <2>2, <2>4, <2>5 DEF PutVersion, Onto
<1>6. CASE CopyBlob(r)
  <2>1. q.pc = "copy" /\ UNCHANGED <<vers, uploads>>
    BY <1>6 DEF CopyBlob
  <2>2. CASE req' = [req EXCEPT ![r] = Done] /\ UNCHANGED disk
    <3>1. PICK D : D = {}
      OBVIOUS
    <3>2. req' = [req EXCEPT ![r] = Cleaning(D)] /\ \A b \in D : Losable(b)
      BY <1>3, <2>2, <3>1
    <3> QED
      BY <1>4, <2>1, <2>2, <3>2
  <2>3. CASE /\ q.blob \in DOMAIN disk /\ Written(disk[q.blob])
             /\ req' = [req EXCEPT ![r] = Committing(q.key, nextBlob, q.etag, 0, {})]
    <3> DEFINE to == Committing(q.key, nextBlob, q.etag, 0, {})
    <3>1. to.pc = "commit" /\ to.blob = nextBlob /\ to.etag = q.etag /\ Loose(to) = {}
      BY DEF Committing, Loose
    <3>2. req' = [req EXCEPT ![r] = to]
      BY <2>3
    <3>3. disk[q.blob] = q.etag
      BY <1>0, <2>1, <2>3 DEF Tells, Says
    <3> HIDE DEF to
    <3> QED
      BY <1>1, <2>1, <2>3, <3>1, <3>2, <3>3
  <2>4. CASE /\ q.blob \in DOMAIN disk /\ Written(disk[q.blob])
             /\ req' = [req EXCEPT ![r] = PuttingPart(q.up, q.part, nextBlob, disk[q.blob])]
    <3> DEFINE to == PuttingPart(q.up, q.part, nextBlob, disk[q.blob])
    <3>1. to.pc = "putpart" /\ to.blob = nextBlob /\ to.etag = disk[q.blob]
      BY DEF PuttingPart
    <3>2. req' = [req EXCEPT ![r] = to]
      BY <2>4
    <3> HIDE DEF to
    <3> QED
      BY <1>1, <2>1, <2>4, <3>1, <3>2
  <2> QED
    BY <1>6, <2>2, <2>3, <2>4 DEF CopyBlob, Onto
<1>7. CASE PutPart(r)
  <2> DEFINE parts == uploads[q.up].parts
  <2>1. q.pc = "putpart" /\ UNCHANGED <<vers, disk>>
    BY <1>7 DEF PutPart
  <2>2. Losable(q.blob) /\ Says(disk, q.blob, q.etag)
    BY <1>0, <2>1 DEF Loose, Tells
  <2>3. CASE req' = [req EXCEPT ![r] = Cleaning({q.blob})] /\ UNCHANGED uploads
    <3>1. PICK D : D = {q.blob}
      OBVIOUS
    <3>2. req' = [req EXCEPT ![r] = Cleaning(D)] /\ \A b \in D : Losable(b)
      BY <2>2, <2>3, <3>1
    <3> QED
      BY <1>4, <2>1, <2>3, <3>2
  <2>4. CASE /\ q.up \in DOMAIN uploads
             /\ uploads' = [uploads EXCEPT ![q.up].parts =
                  [n \in DOMAIN parts \cup {q.part} |->
                     IF n = q.part THEN [blob |-> q.blob, etag |-> q.etag] ELSE parts[n]]]
             /\ req' = [req EXCEPT ![r] = Cleaning(IF q.part \in DOMAIN parts
                                           THEN {parts[q.part].blob} ELSE {})]
    <3>1. PICK D : D = IF q.part \in DOMAIN parts THEN {parts[q.part].blob} ELSE {}
      OBVIOUS
    <3>2. req' = [req EXCEPT ![r] = Cleaning(D)]
      BY <2>4, <3>1
    <3>3. \A b \in D : Losable(b)
      BY <1>0, <2>4, <3>1
    <3>4. \A u \in DOMAIN uploads : uploads[u] = [key |-> uploads[u].key, parts |-> uploads[u].parts]
      BY <1>0 DEF UploadFits
    <3>5. PICK new : new = [n \in DOMAIN parts \cup {q.part} |->
                     IF n = q.part THEN [blob |-> q.blob, etag |-> q.etag] ELSE parts[n]]
      OBVIOUS
    <3>6. /\ DOMAIN uploads' = DOMAIN uploads
          /\ \A u \in DOMAIN uploads : u # q.up => uploads'[u] = uploads[u]
          /\ uploads'[q.up].parts = new
      BY <2>4, <3>4, <3>5
    <3>7. \A n \in DOMAIN new : \/ n \in DOMAIN parts /\ new[n] = parts[n]
                                \/ new[n].blob = q.blob /\ new[n].etag = q.etag
      BY <3>5
    <3>8. \A n \in DOMAIN parts : /\ Losable(parts[n].blob)
                                  /\ Says(disk, parts[n].blob, parts[n].etag)
      BY <1>0, <2>4 DEF PartsTell
    <3> HIDE DEF parts
    <3>9. \A n \in DOMAIN new : Losable(new[n].blob) /\ Says(disk, new[n].blob, new[n].etag)
      BY <2>2, <3>7, <3>8
    <3>10. \A u \in DOMAIN uploads' : \A n \in DOMAIN uploads'[u].parts :
             Losable(uploads'[u].parts[n].blob)
      BY <1>0, <3>6, <3>9
    <3>11. \A u \in DOMAIN uploads' : PartsTell(uploads'[u], disk)
      BY <1>0, <3>6, <3>9 DEF PartsTell
    <3> QED
      BY <1>2, <2>1, <3>2, <3>3, <3>10, <3>11
  <2> QED
    BY <1>7, <2>3, <2>4 DEF PutPart, Onto
<1>8. CASE ConcatBlobs(r)
  <2> DEFINE used == {q.blobs[i] : i \in DOMAIN q.blobs}
             body == Concat([i \in DOMAIN q.blobs |-> disk[q.blobs[i]]])
             to == Committing(q.key, nextBlob, q.etag, q.up, used)
  <2>1. q.pc = "assemble" /\ UNCHANGED <<vers, uploads>>
    BY <1>8 DEF ConcatBlobs
  <2>2. CASE req' = [req EXCEPT ![r] = Done] /\ UNCHANGED disk
    <3>1. PICK D : D = {}
      OBVIOUS
    <3>2. req' = [req EXCEPT ![r] = Cleaning(D)] /\ \A b \in D : Losable(b)
      BY <1>3, <2>2, <3>1
    <3> QED
      BY <1>4, <2>1, <2>2, <3>2
  <2>3. CASE used \subseteq DOMAIN disk /\ Written(body) /\ req' = [req EXCEPT ![r] = to]
    <3>1. PICK E : /\ E = [i \in DOMAIN q.blobs |-> E[i]] /\ q.etag = Concat(E)
                   /\ \A i \in DOMAIN q.blobs : Says(disk, q.blobs[i], E[i])
      BY <1>0, <2>1 DEF Tells
    <3>2. \A i \in DOMAIN q.blobs : disk[q.blobs[i]] = E[i]
      BY <2>3, <3>1 DEF Says
    <3>3. E = [i \in DOMAIN q.blobs |-> disk[q.blobs[i]]]
      BY <3>1, <3>2
    <3>4. body = q.etag
      BY <3>1, <3>3
    <3>5. to.pc = "commit" /\ to.blob = nextBlob /\ to.etag = q.etag /\ Loose(to) = used
      BY DEF Committing, Loose
    <3>6. \A b \in used : Losable(b)
      BY <1>0, <2>1 DEF Loose
    <3> HIDE DEF to, used, body
    <3> QED
      BY <1>1, <2>1, <2>3, <3>4, <3>5, <3>6
  <2> QED
    BY <1>8, <2>2, <2>3 DEF ConcatBlobs, Onto
<1>9. CASE DropUpload(r)
  <2>1. /\ q.pc = "drop" /\ UNCHANGED vers /\ req' = [req EXCEPT ![r] = Cleaning(q.drop)]
        /\ disk' = [b \in DOMAIN disk \ q.old |-> disk[b]]
        /\ uploads' = [u \in DOMAIN uploads \ {q.up} |-> uploads[u]]
    BY <1>9 DEF DropUpload, Onto
  <2>2. \A b \in q.old \cup q.drop : Losable(b)
    BY <1>0, <2>1 DEF Loose
  <2>3. /\ DOMAIN disk' = DOMAIN disk \ q.old /\ \A b \in DOMAIN disk' : disk'[b] = disk[b]
        /\ DOMAIN uploads' \subseteq DOMAIN uploads
        /\ \A u \in DOMAIN uploads' : uploads'[u] = uploads[u]
    BY <2>1
  <2>4. \A b \in DOMAIN disk : b \in DOMAIN disk' \/ Losable(b)
    BY <2>2, <2>3
  <2>5. /\ \A u \in DOMAIN uploads' : PartsTell(uploads'[u], disk)
        /\ \A u \in DOMAIN uploads' : \A n \in DOMAIN uploads'[u].parts :
             Losable(uploads'[u].parts[n].blob)
    BY <1>0, <2>3
  <2>6. PICK D : D = q.drop
    OBVIOUS
  <2>7. /\ req' = [req EXCEPT ![r] = Cleaning(D)] /\ \A b \in D : Losable(b)
        /\ DOMAIN disk' \subseteq DOMAIN disk /\ UNCHANGED vers
    BY <2>1, <2>2, <2>3, <2>6
  <2> QED
    BY <1>2, <2>3, <2>4, <2>5, <2>7
<1>10. CASE Clean(r)
  <2>1. /\ q.pc = "clean" /\ UNCHANGED <<vers, uploads>> /\ req' = [req EXCEPT ![r] = Done]
        /\ disk' = [b \in DOMAIN disk \ q.drop |-> disk[b]]
    BY <1>10 DEF Clean, Onto
  <2>2. \A b \in q.drop : Losable(b)
    BY <1>0, <2>1 DEF Loose
  <2>3. DOMAIN disk' = DOMAIN disk \ q.drop /\ \A b \in DOMAIN disk' : disk'[b] = disk[b]
    BY <2>1
  <2>4. \A b \in DOMAIN disk : b \in DOMAIN disk' \/ Losable(b)
    BY <2>2, <2>3
  <2>5. /\ \A u \in DOMAIN uploads' : PartsTell(uploads'[u], disk)
        /\ \A u \in DOMAIN uploads' : \A n \in DOMAIN uploads'[u].parts :
             Losable(uploads'[u].parts[n].blob)
    BY <1>0, <2>1
  <2>6. PICK D : D = {}
    OBVIOUS
  <2>7. /\ req' = [req EXCEPT ![r] = Cleaning(D)] /\ \A b \in D : Losable(b)
        /\ DOMAIN disk' \subseteq DOMAIN disk /\ UNCHANGED vers
    BY <1>3, <2>1, <2>3, <2>6
  <2> QED
    BY <1>2, <2>3, <2>4, <2>5, <2>7
<1> QED
  BY <1>5, <1>6, <1>7, <1>8, <1>9, <1>10 DEF RequestContinues

\* The rows, requests and parts stay, or fewer are left.
LEMMA BlobsStay ==
  ASSUME Own, Told, UNCHANGED <<vers, disk>>,
         \A x \in Requests : req'[x] = req[x] \/ req'[x] = Done,
         \A u \in DOMAIN uploads' : (u \in DOMAIN uploads /\ uploads'[u] = uploads[u])
                                    \/ DOMAIN uploads'[u].parts = {}
  PROVE  Own' /\ Told'
<1>1. Done.pc # "commit" /\ Loose(Done) = {} /\ Tells(Done, disk)
  BY CleaningTells
<1>2. \A x \in Requests : /\ req'[x].pc = "commit" => req'[x] = req[x]
                          /\ Loose(req'[x]) \subseteq Loose(req[x])
                          /\ Tells(req'[x], disk)
  BY <1>1 DEF Told
<1>3. \A b : Kept(b)' => Kept(b)
  BY <1>2 DEF Kept
<1>4. \A b : Losable(b)' => Losable(b)
  <2> SUFFICES ASSUME NEW b, Losable(b)' PROVE Losable(b)
    OBVIOUS
  <2>1. ASSUME NEW x \in Requests, b \in Loose(req'[x]) PROVE Losable(b)
    BY <1>2, <2>1 DEF Losable
  <2>2. ASSUME NEW u \in DOMAIN uploads', NEW n \in DOMAIN uploads'[u].parts,
               uploads'[u].parts[n].blob = b
        PROVE  Losable(b)
    BY <2>2 DEF Losable
  <2> QED
    BY <2>1, <2>2 DEF Losable
<1>5. \A b : ~(Kept(b)' /\ Losable(b)')
  BY <1>3, <1>4 DEF Own
<1>6. Own'
  BY <1>2, <1>5 DEF Own
<1>7. \A u \in DOMAIN uploads' : PartsTell(uploads'[u], disk)
  BY DEF PartsTell, Told
<1>8. Told'
  BY <1>2, <1>7 DEF Told, BlobsThere
<1> QED
  BY <1>6, <1>8

\* A retention or a hold on a version is none of the blobs' business.
LEMMA LockBlobs ==
  ASSUME StoreInv, Own, Told, NEW v \in vers, NEW l,
         vers' = (vers \ {v}) \cup {[v EXCEPT !.lock = l]}, UNCHANGED <<disk, uploads, req>>
  PROVE  Own' /\ Told'
<1>1. PICK n : n = [v EXCEPT !.lock = l]
  OBVIOUS
<1>2. n.blob = v.blob /\ n.etag = v.etag
  <2>1. v = [key |-> v.key, seq |-> v.seq, blob |-> v.blob, etag |-> v.etag,
             lock |-> v.lock, id |-> v.id]
    BY DEF StoreInv, RowsFit
  <2> QED
    BY <1>1, <2>1
<1>3. PICK V : V = vers'
  OBVIOUS
<1>4. \A x : x \in V <=> (x \in vers /\ x # v) \/ x = n
  BY <1>1, <1>3
<1>5. \A x, w \in V : x.blob # NoBlob /\ x.blob = w.blob => x = w
  BY <1>2, <1>4 DEF Own
<1>6. \A x \in V, r \in Requests : req[r].pc = "commit" => x.blob # req[r].blob
  BY <1>2, <1>4 DEF Own
<1>7. \A b : (\E x \in V : x.blob = b /\ b # NoBlob) => Kept(b)
  BY <1>2, <1>4 DEF Kept
<1>8. \A b : Kept(b)' => Kept(b)
  BY <1>3, <1>7 DEF Kept
<1>9. \A b : Losable(b)' => Losable(b)
  BY DEF Losable
<1>10. \A b : ~(Kept(b)' /\ Losable(b)')
  BY <1>8, <1>9 DEF Own
<1>11. Own'
  BY <1>3, <1>5, <1>6, <1>10 DEF Own
<1>12. \A x \in V : x.blob # NoBlob => x.blob \in DOMAIN disk /\ disk[x.blob] = x.etag
  BY <1>2, <1>4 DEF Told, BlobsThere, IsMarker
<1>13. BlobsThere'
  BY <1>3, <1>12 DEF BlobsThere, IsMarker
<1>14. Told'
  BY <1>13 DEF Told
<1> QED
  BY <1>11, <1>14

\* Every step keeps the blobs counted on, in the bucket's first life.
LEMMA BlobStep == StoreInv /\ BlobInv /\ [S3Next]_s3Vars => BlobInv'
<1> SUFFICES ASSUME StoreInv, BlobInv, [S3Next]_s3Vars PROVE BlobInv'
  OBVIOUS
<1>0. creates \in Nat /\ (bucket.there => creates # 0)
      /\ bucket = [there |-> bucket.there, versioning |-> bucket.versioning, lock |-> bucket.lock]
  BY DEF StoreInv, StoreFits
<1>1. ASSUME UNCHANGED <<bucket, creates>>, Own /\ Told => Own' /\ Told'
      PROVE  BlobInv'
  BY <1>1 DEF BlobInv, Good
<1>2. ASSUME NEW r \in Requests, RequestBegins(r) \/ RequestContinues(r) PROVE BlobInv'
  <2>1. UNCHANGED <<bucket, creates>>
    <3>1. CASE RequestBegins(r)
      BY <3>1 DEF RequestBegins, PutObject, CopyFrom, DeleteVersion, DeleteObject,
                  UploadPart, CompleteUpload, AbortUpload
    <3>2. CASE RequestContinues(r)
      BY <3>2 DEF RequestContinues, PutVersion, CopyBlob, PutPart, ConcatBlobs, DropUpload, Clean
    <3> QED
      BY <1>2, <3>1, <3>2
  <2>2. Own /\ Told => Own' /\ Told'
    BY <1>2, BeginBlobs, ContinueBlobs
  <2> QED
    BY <1>1, <2>1, <2>2
<1>3. ASSUME NEW v \in vers, NEW l \in Locks, NEW b \in BOOLEAN, SetLock(v, l, b)
      PROVE  BlobInv'
  <2>1. /\ vers' = (vers \ {v}) \cup {[v EXCEPT !.lock = l]}
        /\ UNCHANGED <<disk, uploads, req>> /\ UNCHANGED <<bucket, creates>>
    BY <1>3 DEF SetLock
  <2>2. Own /\ Told => Own' /\ Told'
    BY <2>1, LockBlobs
  <2>3. UNCHANGED <<bucket, creates>>
    BY <2>1
  <2> QED
    BY <1>1, <2>2, <2>3
<1>4. ASSUME NEW k \in Keys, CreateUpload(k) PROVE BlobInv'
  <2>1. /\ uploads' = [u \in DOMAIN uploads \cup {nextUp} |->
                         IF u = nextUp THEN [key |-> k, parts |-> Empty] ELSE uploads[u]]
        /\ UNCHANGED <<bucket, vers, disk, req, creates>>
    BY <1>4 DEF CreateUpload
  <2>2. DOMAIN Empty = {}
    BY DEF Empty
  <2>3. \A u \in DOMAIN uploads' : (u \in DOMAIN uploads /\ uploads'[u] = uploads[u])
                                    \/ DOMAIN uploads'[u].parts = {}
    BY <2>1, <2>2
  <2>4. Own /\ Told => Own' /\ Told'
    BY <2>1, <2>3, BlobsStay
  <2> QED
    BY <1>1, <2>1, <2>4
\* the bucket is all that changes
<1>5. ASSUME UNCHANGED <<vers, disk, uploads, req>>, Good' => Good PROVE BlobInv'
  <2>1. Own /\ Told => Own' /\ Told'
    BY <1>5, BlobsStay
  <2> QED
    BY <1>5, <2>1 DEF BlobInv
<1>6. ASSUME NEW lock \in BOOLEAN, CreateBucket(lock) PROVE BlobInv'
  <2>1. creates' = creates + 1 /\ UNCHANGED <<vers, disk, uploads, req>>
    BY <1>6 DEF CreateBucket
  <2>2. creates \in Nat /\ creates' = creates + 1
    BY <1>0, <2>1
  <2>3. creates' # 0 /\ (creates' = 1 => creates = 0)
    BY <2>2
  <2>4. Good' => Good
    BY <2>3 DEF Good
  <2> QED
    BY <1>5, <2>1, <2>4
<1>7. ASSUME NEW v \in {"Enabled", "Suspended"}, PutBucketVersioning(v) PROVE BlobInv'
  <2>1. /\ bucket' = [bucket EXCEPT !.versioning = v] /\ UNCHANGED creates
        /\ UNCHANGED <<vers, disk, uploads, req>>
    BY <1>7 DEF PutBucketVersioning
  <2>2. bucket'.there = bucket.there
    BY <1>0, <2>1
  <2>3. Good' => Good
    BY <2>1, <2>2 DEF Good
  <2> QED
    BY <1>5, <2>1, <2>3
<1>8. CASE DeleteBucket
  <2>1. bucket.there /\ bucket' = NoBucket /\ UNCHANGED creates
    BY <1>8 DEF DeleteBucket
  <2>2. ~bucket'.there /\ creates' # 0
    BY <1>0, <2>1 DEF NoBucket
  <2> QED
    BY <2>2 DEF Good, BlobInv
<1>9. CASE S3Crash
  <2>1. req' = [r \in Requests |-> Done] /\ UNCHANGED <<bucket, vers, disk, uploads, creates>>
    BY <1>9 DEF S3Crash
  <2>2. \A x \in Requests : req'[x] = Done
    BY <2>1
  <2>3. Own /\ Told => Own' /\ Told'
    BY <2>1, <2>2, BlobsStay
  <2> QED
    BY <1>1, <2>1, <2>3
<1>10. CASE UNCHANGED s3Vars
  <2>1. UNCHANGED <<bucket, vers, disk, uploads, req, creates>>
    BY <1>10 DEF s3Vars
  <2>2. Good' => Good
    BY <2>1 DEF Good
  <2> QED
    BY <1>5, <2>1, <2>2
<1> QED
  BY <1>2, <1>3, <1>4, <1>6, <1>7, <1>8, <1>9, <1>10 DEF S3Next

\* No blob.
LEMMA BlobInit == S3Init => BlobInv
<1> SUFFICES ASSUME S3Init PROVE Own /\ Told
  BY DEF BlobInv
<1>1. /\ vers = {} /\ DOMAIN uploads = {} /\ \A r \in Requests : req[r] = Done
  BY DEF S3Init, Empty
<1>2. Done.pc # "commit" /\ Loose(Done) = {} /\ Tells(Done, disk)
  BY CleaningTells
<1>3. \A b : ~Kept(b)
  BY <1>1, <1>2 DEF Kept
<1> QED
  BY <1>1, <1>2, <1>3 DEF Own, Told, BlobsThere

\* The bucket is created at most once.  A put that has written its blob when the
\* bucket is deleted and made again commits into the new bucket a blob whose
\* file went with the old one.
MadeOnce == creates <= 1

\* RowsAgree for every number of requests, keys, versions, parts and bodies: the
\* index names the newest row, and every row has its blob on disk with the bytes
\* its ETag says, although files are written before their row commits and removed
\* after, provided the bucket is not created a second time.
THEOREM VersionsReadable == S3Spec /\ []MadeOnce => []RowsAgree
<1>1. S3Init => StoreInv /\ BlobInv
  BY S3InitFits, BlobInit DEF StoreInv
<1>2. StoreInv /\ BlobInv /\ [S3Next]_s3Vars => (StoreInv /\ BlobInv)'
  BY StoreStep, BlobStep
<1>3. StoreInv /\ BlobInv /\ MadeOnce => RowsAgree
  <2> SUFFICES ASSUME StoreInv, BlobInv, MadeOnce PROVE RowsAgree
    OBVIOUS
  <2>1. CurIsNewest
    BY DEF StoreInv, IndexFits
  <2>2. BlobsThere
    <3>1. CASE bucket.there
      <4>1. creates \in Nat
        BY DEF StoreInv, StoreFits
      <4>2. creates = 0 \/ creates = 1
        BY <4>1 DEF MadeOnce
      <4>3. Good
        BY <3>1, <4>2 DEF Good
      <4> QED
        BY <4>3 DEF BlobInv, Told
    <3>2. CASE ~bucket.there
      <4>1. vers = {}
        BY <3>2 DEF StoreInv, StoreFits
      <4> QED
        BY <4>1 DEF BlobsThere
    <3> QED
      BY <3>1, <3>2
  <2> QED
    BY <2>1, <2>2 DEF RowsAgree
<1> QED
  BY <1>1, <1>2, <1>3, PTL DEF S3Spec

-----------------------------------------------------------------------------
(* S3: the types.                                                          *)

\* Every body there is: not empty, of pieces.
Bodies == Seq(Pieces) \ {<<>>}

\* The concatenation of bodies, one after the other.
LEMMA ConcatInSteps ==
  ASSUME NEW bodies, Len(bodies) \in Nat
  PROVE  \E f : /\ f[0] = <<>>
                /\ \A n \in 1..Len(bodies) : f[n] = f[n - 1] \o bodies[n]
                /\ Concat(bodies) = f[Len(bodies)]
<1> DEFINE Upto(m, f) == f = [n \in 0..m |-> IF n = 0 THEN <<>>
                                             ELSE f[n - 1] \o bodies[n]]
           Bad == {m \in Nat : ~\E f : Upto(m, f)}
<1>1. Bad = {}
  <2> SUFFICES ASSUME Bad # {} PROVE FALSE
    OBVIOUS
  <2>1. PICK m \in Bad : \A x \in Bad : m <= x
    <3> HIDE DEF Bad
    <3>1. Bad \in SUBSET Nat
      BY DEF Bad
    <3> QED
      BY <3>1, LeastNat
  <2>2. m \in Nat /\ ~\E f : Upto(m, f)
    BY <2>1
  <2>3. m # 0
    <3> SUFFICES ASSUME m = 0 PROVE FALSE
      OBVIOUS
    <3>1. PICK g : g = [n \in 0..0 |-> <<>>]
      OBVIOUS
    <3>2. \A n \in 0..0 : n = 0
      OBVIOUS
    <3>3. Upto(0, g)
      BY <3>1, <3>2
    <3> QED
      BY <2>2, <3>3
  <2>4. m - 1 \in Nat /\ m - 1 \notin Bad
    <3> HIDE DEF Bad
    <3>1. m \in Nat /\ m # 0 /\ \A x \in Bad : m <= x
      BY <2>1, <2>2, <2>3
    <3>2. m - 1 \in Nat /\ ~(m <= m - 1)
      BY <3>1
    <3> QED
      BY <3>1, <3>2
  <2>5. PICK f : Upto(m - 1, f)
    BY <2>4
  <2>6. PICK g : g = [n \in 0..m |-> IF n = m THEN f[m - 1] \o bodies[m] ELSE f[n]]
    OBVIOUS
  <2>7. \A n \in 0..(m - 1) : g[n] = f[n]
    BY <2>2, <2>6
  <2>8. ASSUME NEW n \in 0..m
        PROVE  g[n] = IF n = 0 THEN <<>> ELSE g[n - 1] \o bodies[n]
    <3>1. CASE n = m
      <4>2. m \in 0..m /\ m - 1 \in 0..(m - 1)
        BY <2>2, <2>3
      <4>1. g[m] = f[m - 1] \o bodies[m] /\ m - 1 \in 0..(m - 1)
        BY <2>6, <4>2, Zenon
      <4> QED
        BY <2>3, <2>7, <3>1, <4>1
    <3>2. CASE n # m
      <4>1. n \in 0..(m - 1) /\ (n # 0 => n - 1 \in 0..(m - 1))
        BY <2>2, <3>2
      <4>2. f[n] = IF n = 0 THEN <<>> ELSE f[n - 1] \o bodies[n]
        BY <2>5, <4>1
      <4> QED
        BY <2>7, <4>1, <4>2
    <3> QED
      BY <3>1, <3>2
  <2>9. g = [n \in 0..m |-> g[n]]
    BY <2>6
  <2>10. Upto(m, g)
    BY <2>8, <2>9
  <2> QED
    BY <2>2, <2>10
<1>2. \E f : Upto(Len(bodies), f)
  BY <1>1
<1>3. PICK f : f = CHOOSE g : Upto(Len(bodies), g)
  OBVIOUS
<1>4. Concat(bodies) = f[Len(bodies)]
  BY <1>3 DEF Concat
<1>5. Upto(Len(bodies), f)
  BY <1>2, <1>3
<1>6. f[0] = <<>> /\ \A n \in 1..Len(bodies) : f[n] = f[n - 1] \o bodies[n]
  BY <1>5
<1> QED
  BY <1>4, <1>6

\* Bodies put together are a body.
LEMMA ConcatBody ==
  ASSUME NEW n \in Nat \ {0}, NEW bodies, bodies = [i \in 1..n |-> bodies[i]],
         \A i \in 1..n : bodies[i] \in Bodies
  PROVE  Concat(bodies) \in Bodies
<1>1. bodies \in Seq(Bodies) /\ Len(bodies) = n
  OBVIOUS
<1>2. PICK f : /\ f[0] = <<>>
               /\ \A m \in 1..n : f[m] = f[m - 1] \o bodies[m]
               /\ Concat(bodies) = f[n]
  BY <1>1, ConcatInSteps
<1> DEFINE Bad == {m \in 0..n : f[m] \notin Seq(Pieces) \/ (m # 0 /\ f[m] = <<>>)}
<1>3. Bad = {}
  <2> SUFFICES ASSUME Bad # {} PROVE FALSE
    OBVIOUS
  <2>1. PICK m \in Bad : \A x \in Bad : m <= x
    <3> HIDE DEF Bad
    <3>1. Bad \in SUBSET Nat
      BY DEF Bad
    <3> QED
      BY <3>1, LeastNat
  <2>2. m \in 0..n /\ (f[m] \notin Seq(Pieces) \/ (m # 0 /\ f[m] = <<>>))
    BY <2>1
  <2>3. m # 0
    <3>1. <<>> \in Seq(Pieces)
      OBVIOUS
    <3>2. f[0] \in Seq(Pieces)
      BY <1>2, <3>1, Zenon
    <3> QED
      BY <2>2, <3>2
  <2>4. m \in 1..n /\ m - 1 \in 0..n /\ ~(m <= m - 1)
    BY <2>2, <2>3
  <2>5. f[m - 1] \in Seq(Pieces)
    BY <2>1, <2>4
  <2>6. f[m] = f[m - 1] \o bodies[m] /\ bodies[m] \in Seq(Pieces) /\ bodies[m] # <<>>
    BY <1>2, <2>4 DEF Bodies
  <2>7. \A s, t \in Seq(Pieces) : s \o t \in Seq(Pieces) /\ (t # <<>> => s \o t # <<>>)
    <3> SUFFICES ASSUME NEW s \in Seq(Pieces), NEW t \in Seq(Pieces)
                 PROVE  s \o t \in Seq(Pieces) /\ (t # <<>> => s \o t # <<>>)
      OBVIOUS
    <3>1. s \o t \in Seq(Pieces) /\ Len(s \o t) = Len(s) + Len(t) /\ Len(s) \in Nat /\ Len(t) \in Nat
      OBVIOUS
    <3>2. t # <<>> => Len(t) # 0
      OBVIOUS
    <3>3. Len(<<>>) = 0
      OBVIOUS
    <3> QED
      BY <3>1, <3>2, <3>3
  <2> QED
    BY <2>2, <2>5, <2>6, <2>7
<1>4. n \in 0..n /\ n # 0
  OBVIOUS
<1> QED
  BY <1>2, <1>3, <1>4 DEF Bodies

\* What a request carries is of its type.
ReqTyped(q) ==
  /\ q.pc \in {"done", "copy", "commit", "putpart", "assemble", "drop", "clean"}
  /\ q.pc \in {"commit", "putpart", "assemble"} => q.etag \in Bodies
  /\ q.pc = "copy" => q.part \in PartNumbers \cup {0} /\ (q.part = 0 => q.etag \in Bodies)
  /\ q.pc = "putpart" => q.part \in PartNumbers
  /\ q.pc = "assemble" => \E n \in Nat \ {0} : q.blobs = [i \in 1..n |-> q.blobs[i]]

\* A row has a body, or is a marker; its id is its number or that of the null
\* version.
RowTyped(v) ==
  /\ v.seq # 0 /\ v.lock \in Locks /\ v.id \in {NullVersion, v.seq}
  /\ v.etag \in Seq(Pieces) /\ (~IsMarker(v) => v.etag \in Bodies)

\* The parts of an upload have bodies.
PartsTyped(parts) == \A n \in DOMAIN parts : n \in PartNumbers /\ parts[n].etag \in Bodies

\* The types, with what makes them inductive: files and parts hold bodies.
S3Typed ==
  /\ nextVer <= MaxSeq + 1 /\ nextBlob <= MaxBlob + 1 /\ nextUp \in Nat \ {0}
  /\ DOMAIN uploads \subseteq 1..(nextUp - 1)
  /\ \A v \in vers : RowTyped(v)
  /\ \A b \in DOMAIN disk : disk[b] \in Bodies
  /\ \A u \in DOMAIN uploads : PartsTyped(uploads[u].parts)
  /\ \A r \in Requests : ReqTyped(req[r])

\* A step of a request.
LEMMA TypedMoves ==
  ASSUME StoreInv, S3Typed, NEW r \in Requests, NEW to, ReqTyped(to),
         req' = [req EXCEPT ![r] = to], UNCHANGED nextUp,
         nextVer' <= MaxSeq + 1, nextBlob' <= MaxBlob + 1,
         \A v \in vers' : RowTyped(v), \A b \in DOMAIN disk' : disk'[b] \in Bodies,
         DOMAIN uploads' \subseteq DOMAIN uploads,
         \A u \in DOMAIN uploads' : PartsTyped(uploads'[u].parts)
  PROVE  S3Typed'
<1>1. \A x \in Requests : ReqTyped(req'[x])
  BY ReqIs DEF S3Typed
<1> QED
  BY <1>1 DEF S3Typed

\* A single piece is a body.
LEMMA PieceBody == \A p \in Pieces : <<p>> \in Bodies
<1> SUFFICES ASSUME NEW p \in Pieces PROVE <<p>> \in Bodies
  OBVIOUS
<1>1. <<p>> \in Seq(Pieces) /\ Len(<<p>>) = 1 /\ Len(<<>>) = 0
  OBVIOUS
<1> QED
  BY <1>1 DEF Bodies

\* A request that removes files, or is over.
LEMMA CleaningTyped == \A D : ReqTyped(Cleaning(D)) /\ ReqTyped(Done)
BY DEF Cleaning, Done, ReqTyped

\* A file is written that holds a body.
LEMMA WrittenTyped ==
  ASSUME StoreInv, S3Typed, NEW body \in Bodies, Written(body)
  PROVE  /\ \A b \in DOMAIN disk' : disk'[b] \in Bodies
         /\ nextBlob' <= MaxBlob + 1
<1>1. DOMAIN disk' = DOMAIN disk \cup {nextBlob} /\ disk'[nextBlob] = body
      /\ \A b \in DOMAIN disk : disk'[b] = disk[b]
  BY WrittenFacts DEF StoreInv
<1>2. nextBlob' = nextBlob + 1 /\ nextBlob <= MaxBlob /\ nextBlob \in Nat /\ MaxBlob \in Nat
  BY S3Assumption DEF Written, StoreInv, StoreFits
<1>3. nextBlob' <= MaxBlob + 1
  BY <1>2
<1> QED
  BY <1>1, <1>3 DEF S3Typed

\* A row that is written.
LEMMA RowWritten ==
  ASSUME StoreInv, NEW k, NEW b, NEW e \in Seq(Pieces), NEW l \in Locks,
         b # NoBlob => e \in Bodies
  PROVE  RowTyped(NewRow(k, b, e, l))
<1>1. nextVer # 0
  BY DEF StoreInv, StoreFits
<1> QED
  BY <1>1 DEF RowTyped, NewRow, IsMarker, NullVersion

\* Every step that begins a request keeps the types.
LEMMA BeginTyped ==
  ASSUME StoreInv, S3Typed, NEW r \in Requests, RequestBegins(r)
  PROVE  S3Typed'
<1>0. /\ \A v \in vers : RowTyped(v) /\ v.key \in Keys
      /\ \A b \in DOMAIN disk : disk[b] \in Bodies
      /\ \A u \in DOMAIN uploads : PartsTyped(uploads[u].parts)
      /\ nextVer <= MaxSeq + 1 /\ nextBlob <= MaxBlob + 1 /\ nextVer \in Nat /\ MaxSeq \in Nat
  BY S3Assumption DEF S3Typed, StoreInv, RowsFit, StoreFits
\* the steps that only the request remembers
<1>1. ASSUME NEW to, req' = [req EXCEPT ![r] = to], ReqTyped(to),
             UNCHANGED <<vers, nextVer, disk, uploads, nextBlob, nextUp>>
      PROVE  S3Typed'
  BY <1>0, <1>1, TypedMoves
\* the steps that begin with a blob
<1>2. ASSUME NEW to, NEW p \in Pieces, Written(<<p>>), req' = [req EXCEPT ![r] = to], ReqTyped(to),
             UNCHANGED <<vers, nextVer, uploads, nextUp>>
      PROVE  S3Typed'
  <2>1. <<p>> \in Bodies
    BY PieceBody
  <2>2. /\ \A b \in DOMAIN disk' : disk'[b] \in Bodies
        /\ nextBlob' <= MaxBlob + 1
    BY <1>2, <2>1, WrittenTyped
  <2> QED
    BY <1>0, <1>2, <2>2, TypedMoves
\* the steps that change the rows
<1>3. ASSUME NEW to, req' = [req EXCEPT ![r] = to], ReqTyped(to),
             \A v \in vers' : v \in vers \/ RowTyped(v), nextVer' <= MaxSeq + 1,
             UNCHANGED <<disk, uploads, nextBlob, nextUp>>
      PROVE  S3Typed'
  BY <1>0, <1>3, TypedMoves
<1>4. ASSUME NEW k \in Keys, NEW p \in Pieces, PutObject(r, k, p)
      PROVE  S3Typed'
  <2> DEFINE to == Committing(k, nextBlob, <<p>>, 0, {})
  <2>1. Written(<<p>>) /\ req' = [req EXCEPT ![r] = to] /\ UNCHANGED <<vers, nextVer, uploads, nextUp>>
    BY <1>4 DEF PutObject, Onto
  <2>2. ReqTyped(to)
    BY PieceBody DEF ReqTyped, Committing
  <2> HIDE DEF to
  <2> QED
    BY <1>2, <2>1, <2>2
<1>5. ASSUME NEW v \in vers, NEW k \in Keys, NEW u, NEW n \in PartNumbers \cup {0},
             CopyFrom(r, v, k, u, n)
      PROVE  S3Typed'
  <2> DEFINE to == [pc |-> "copy", blob |-> v.blob, etag |-> v.etag, key |-> k, up |-> u, part |-> n]
  <2>1. req' = [req EXCEPT ![r] = to] /\ UNCHANGED <<vers, nextVer, disk, uploads, nextBlob, nextUp>>
    BY <1>5 DEF CopyFrom, Onto
  <2>2. n = 0 => v.etag \in Bodies
    BY <1>0, <1>5 DEF CopyFrom, RowTyped
  <2>3. ReqTyped(to)
    BY <2>2 DEF ReqTyped
  <2> HIDE DEF to
  <2> QED
    BY <1>1, <2>1, <2>3
<1>6. ASSUME NEW v \in vers, NEW b \in BOOLEAN, DeleteVersion(r, v, b)
      PROVE  S3Typed'
  <2>1. /\ vers' = vers \ {v} /\ req' = [req EXCEPT ![r] = Cleaning(BlobsOf({v}))]
        /\ UNCHANGED <<nextVer, disk, uploads, nextBlob, nextUp>>
    BY <1>6 DEF DeleteVersion, Onto
  <2> QED
    BY <1>0, <1>3, <2>1, CleaningTyped
<1>7. ASSUME NEW k \in Keys, NEW b \in BOOLEAN, DeleteObject(r, k, b)
      PROVE  S3Typed'
  <2>1. PICK D : req' = [req EXCEPT ![r] = Cleaning(D)]
    BY <1>7 DEF DeleteObject, Onto
  <2>2. UNCHANGED <<disk, uploads, nextBlob, nextUp>>
    BY <1>7 DEF DeleteObject
  <2>3. /\ \A v \in vers' : v \in vers \/ v = NewRow(k, NoBlob, <<>>, "none")
        /\ nextVer' = nextVer \/ (nextVer' = nextVer + 1 /\ nextVer <= MaxSeq)
    BY <1>7 DEF DeleteObject
  <2>4. RowTyped(NewRow(k, NoBlob, <<>>, "none"))
    <3>1. <<>> \in Seq(Pieces) /\ "none" \in Locks
      BY S3Assumption
    <3> QED
      BY <3>1, RowWritten
  <2>5. nextVer' <= MaxSeq + 1
    BY <1>0, <2>3
  <2> QED
    BY <1>3, <2>1, <2>2, <2>3, <2>4, <2>5, CleaningTyped
<1>8. ASSUME NEW u \in DOMAIN uploads, NEW n \in PartNumbers, NEW p \in Pieces, UploadPart(r, u, n, p)
      PROVE  S3Typed'
  <2> DEFINE to == PuttingPart(u, n, nextBlob, <<p>>)
  <2>1. Written(<<p>>) /\ req' = [req EXCEPT ![r] = to] /\ UNCHANGED <<vers, nextVer, uploads, nextUp>>
    BY <1>8 DEF UploadPart, Onto
  <2>2. ReqTyped(to)
    BY PieceBody DEF ReqTyped, PuttingPart
  <2> HIDE DEF to
  <2> QED
    BY <1>2, <2>1, <2>2
<1>9. ASSUME NEW u \in DOMAIN uploads, NEW S \in SUBSET DOMAIN uploads[u].parts, CompleteUpload(r, u, S)
      PROVE  S3Typed'
  <2> DEFINE parts == uploads[u].parts
             order == Ascending(S)
             blobs == [i \in DOMAIN order |-> parts[order[i]].blob]
             etags == [i \in DOMAIN order |-> parts[order[i]].etag]
             to == [pc |-> "assemble", up |-> u, key |-> uploads[u].key, blobs |-> blobs,
                    etag |-> Concat(etags)]
  <2>1. S # {} /\ req' = [req EXCEPT ![r] = to] /\ UNCHANGED <<vers, nextVer, disk, uploads, nextBlob, nextUp>>
    BY <1>9 DEF CompleteUpload, Onto
  <2>2. IsFiniteSet(S) /\ S \in SUBSET Nat
    <3>1. DOMAIN parts \subseteq Nat /\ IsFiniteSet(DOMAIN parts)
      BY DEF StoreInv, StoreFits, UploadFits
    <3> QED
      BY <3>1, FS_Subset
  <2>3. Cardinality(S) \in Nat \ {0}
    BY <2>1, <2>2, FS_CardinalityType, FS_EmptySet
  <2>4. order \in [1..Cardinality(S) -> S]
    BY <2>2, Ascends
  <2>5. PICK n \in Nat \ {0} : order \in [1..n -> S]
    BY <2>3, <2>4
  <2> HIDE DEF order
  <2>6. \A i \in 1..n : parts[order[i]].etag \in Bodies
    BY <1>0, <2>5 DEF PartsTyped
  <2>7. blobs = [i \in 1..n |-> blobs[i]] /\ etags = [i \in 1..n |-> etags[i]]
        /\ \A i \in 1..n : etags[i] \in Bodies
    BY <2>5, <2>6
  <2> HIDE DEF blobs, etags
  <2>8. Concat(etags) \in Bodies
    BY <2>7, ConcatBody
  <2>9. ReqTyped(to)
    BY <2>7, <2>8 DEF ReqTyped
  <2> HIDE DEF to
  <2> QED
    BY <1>1, <2>1, <2>9
<1>10. ASSUME NEW u \in DOMAIN uploads, AbortUpload(r, u)
       PROVE  S3Typed'
  <2> DEFINE to == [pc |-> "drop", up |-> u, old |-> {},
                    drop |-> {uploads[u].parts[n].blob : n \in DOMAIN uploads[u].parts}]
  <2>1. req' = [req EXCEPT ![r] = to] /\ UNCHANGED <<vers, nextVer, disk, uploads, nextBlob, nextUp>>
    BY <1>10 DEF AbortUpload, Onto
  <2>2. ReqTyped(to)
    BY DEF ReqTyped
  <2> HIDE DEF to
  <2> QED
    BY <1>1, <2>1, <2>2
<1>11. \A n \in PartNumbers : n \in PartNumbers \cup {0}
  OBVIOUS
<1>12. 0 \in PartNumbers \cup {0}
  OBVIOUS
<1> QED
  BY <1>0, <1>4, <1>5, <1>6, <1>7, <1>8, <1>9, <1>10, <1>11, <1>12 DEF RequestBegins

\* So does every later step of a request.
LEMMA ContinueTyped ==
  ASSUME StoreInv, S3Typed, NEW r \in Requests, RequestContinues(r)
  PROVE  S3Typed'
<1> DEFINE q == req[r]
<1>0. /\ \A v \in vers : RowTyped(v)
      /\ \A b \in DOMAIN disk : disk[b] \in Bodies
      /\ \A u \in DOMAIN uploads : PartsTyped(uploads[u].parts)
      /\ nextVer <= MaxSeq + 1 /\ nextBlob <= MaxBlob + 1 /\ nextVer \in Nat /\ MaxSeq \in Nat
      /\ ReqTyped(q)
  BY S3Assumption DEF S3Typed, StoreInv, StoreFits
\* files are removed, or will be, and uploads go
<1>1. ASSUME NEW to, req' = [req EXCEPT ![r] = to], ReqTyped(to),
             DOMAIN disk' \subseteq DOMAIN disk, \A b \in DOMAIN disk' : disk'[b] = disk[b],
             DOMAIN uploads' \subseteq DOMAIN uploads,
             \A u \in DOMAIN uploads' : PartsTyped(uploads'[u].parts),
             UNCHANGED <<vers, nextVer, nextBlob, nextUp>>
      PROVE  S3Typed'
  <2>1. \A b \in DOMAIN disk' : disk'[b] \in Bodies
    BY <1>0, <1>1
  <2> QED
    BY <1>0, <1>1, <2>1, TypedMoves
\* a blob is written
<1>2. ASSUME NEW to, NEW body \in Bodies, Written(body), req' = [req EXCEPT ![r] = to], ReqTyped(to),
             UNCHANGED <<vers, nextVer, uploads, nextUp>>
      PROVE  S3Typed'
  <2>1. /\ \A b \in DOMAIN disk' : disk'[b] \in Bodies
        /\ nextBlob' <= MaxBlob + 1
    BY <1>2, WrittenTyped
  <2> QED
    BY <1>0, <1>2, <2>1, TypedMoves
\* the request is over
<1>3. ASSUME req' = [req EXCEPT ![r] = Done],
             UNCHANGED <<vers, nextVer, disk, uploads, nextBlob, nextUp>>
      PROVE  S3Typed'
  BY <1>0, <1>1, <1>3, CleaningTyped
<1>4. ASSUME NEW c, NEW l \in Locks, PutVersion(r, c, l)
      PROVE  S3Typed'
  <2> DEFINE old == Replaced(q.key)
             n == NewRow(q.key, q.blob, q.etag, l)
             to == IF q.up = 0 THEN Cleaning(BlobsOf(old))
                   ELSE [pc |-> "drop", up |-> q.up, old |-> BlobsOf(old), drop |-> q.drop]
  <2>1. q.pc = "commit" /\ UNCHANGED <<disk, uploads, nextBlob, nextUp>>
    BY <1>4 DEF PutVersion
  <2>2. CASE req' = [req EXCEPT ![r] = Cleaning({q.blob})] /\ UNCHANGED <<vers, cur, nextVer>>
    BY <1>0, <1>1, <2>1, <2>2, CleaningTyped
  <2>3. CASE /\ nextVer <= MaxSeq /\ vers' = (vers \ old) \cup {n}
             /\ nextVer' = nextVer + 1 /\ req' = [req EXCEPT ![r] = to]
    <3>1. q.etag \in Bodies /\ q.etag \in Seq(Pieces)
      BY <1>0, <2>1 DEF ReqTyped, Bodies
    <3>2. RowTyped(n)
      BY <3>1, RowWritten
    <3>3. ReqTyped(to)
      BY CleaningTyped DEF ReqTyped
    <3>4. nextVer' <= MaxSeq + 1
      BY <1>0, <2>3
    <3> HIDE DEF n, to, old
    <3>5. \A v \in vers' : RowTyped(v)
      BY <1>0, <2>3, <3>2
    <3> QED
      BY <1>0, <2>1, <2>3, <3>3, <3>4, <3>5, TypedMoves
  <2> QED
    BY <1>4, <2>2, <2>3 DEF PutVersion, Onto
<1>5. CASE CopyBlob(r)
  <2> DEFINE to == IF q.part = 0 THEN Committing(q.key, nextBlob, q.etag, 0, {})
                   ELSE PuttingPart(q.up, q.part, nextBlob, disk[q.blob])
  <2>1. q.pc = "copy" /\ UNCHANGED <<vers, nextVer, uploads, nextUp>>
    BY <1>5 DEF CopyBlob
  <2>2. CASE req' = [req EXCEPT ![r] = Done] /\ UNCHANGED <<disk, nextBlob>>
    BY <1>3, <2>1, <2>2
  <2>3. CASE q.blob \in DOMAIN disk /\ Written(disk[q.blob]) /\ req' = [req EXCEPT ![r] = to]
    <3>1. disk[q.blob] \in Bodies
      BY <1>0, <2>3
    <3>2. q.part \in PartNumbers \cup {0} /\ (q.part = 0 => q.etag \in Bodies)
      BY <1>0, <2>1 DEF ReqTyped
    <3>3. ReqTyped(to)
      BY <3>1, <3>2 DEF ReqTyped, Committing, PuttingPart
    <3> HIDE DEF to
    <3> QED
      BY <1>2, <2>1, <2>3, <3>1, <3>3
  <2> QED
    BY <1>5, <2>2, <2>3 DEF CopyBlob, Onto
<1>6. CASE PutPart(r)
  <2> DEFINE parts == uploads[q.up].parts
             with == [n \in DOMAIN parts \cup {q.part} |->
                        IF n = q.part THEN [blob |-> q.blob, etag |-> q.etag] ELSE parts[n]]
  <2>1. q.pc = "putpart" /\ UNCHANGED <<vers, nextVer, disk, nextBlob, nextUp>>
    BY <1>6 DEF PutPart
  <2>2. CASE req' = [req EXCEPT ![r] = Cleaning({q.blob})] /\ UNCHANGED uploads
    BY <1>0, <1>1, <2>1, <2>2, CleaningTyped
  <2>3. ASSUME NEW D, q.up \in DOMAIN uploads, uploads' = [uploads EXCEPT ![q.up].parts = with],
               req' = [req EXCEPT ![r] = Cleaning(D)]
        PROVE  S3Typed'
    <3>1. q.etag \in Bodies /\ q.part \in PartNumbers
      BY <1>0, <2>1 DEF ReqTyped
    <3>2. PartsTyped(with)
      BY <1>0, <2>3, <3>1 DEF PartsTyped
    <3> HIDE DEF with
    <3>5. uploads[q.up] = [key |-> uploads[q.up].key, parts |-> uploads[q.up].parts]
      BY <2>3 DEF StoreInv, StoreFits, UploadFits
    <3>6. [uploads[q.up] EXCEPT !.parts = with].parts = with
      BY <3>5
    <3>3. DOMAIN uploads' = DOMAIN uploads /\ uploads'[q.up].parts = with
          /\ \A u \in DOMAIN uploads : u # q.up => uploads'[u] = uploads[u]
      BY <2>3, <3>6
    <3>4. \A u \in DOMAIN uploads' : PartsTyped(uploads'[u].parts)
      BY <1>0, <3>2, <3>3
    <3> QED
      BY <1>1, <2>1, <2>3, <3>3, <3>4, CleaningTyped
  <2> QED
    BY <1>6, <2>2, <2>3 DEF PutPart, Onto
<1>7. CASE ConcatBlobs(r)
  <2> DEFINE used == {q.blobs[i] : i \in DOMAIN q.blobs}
             bodies == [i \in DOMAIN q.blobs |-> disk[q.blobs[i]]]
             to == Committing(q.key, nextBlob, q.etag, q.up, used)
  <2>1. q.pc = "assemble" /\ UNCHANGED <<vers, nextVer, uploads, nextUp>>
    BY <1>7 DEF ConcatBlobs
  <2>2. CASE req' = [req EXCEPT ![r] = Done] /\ UNCHANGED <<disk, nextBlob>>
    BY <1>3, <2>1, <2>2
  <2>3. CASE used \subseteq DOMAIN disk /\ Written(Concat(bodies)) /\ req' = [req EXCEPT ![r] = to]
    <3>1. q.etag \in Bodies
      BY <1>0, <2>1 DEF ReqTyped
    <3>2. PICK n \in Nat \ {0} : q.blobs = [i \in 1..n |-> q.blobs[i]]
      BY <1>0, <2>1 DEF ReqTyped
    <3>3. DOMAIN q.blobs = 1..n
      BY <3>2, Zenon
    <3>4. bodies = [i \in 1..n |-> bodies[i]] /\ \A i \in 1..n : bodies[i] \in Bodies
      BY <1>0, <2>3, <3>3
    <3> HIDE DEF bodies
    <3>5. Concat(bodies) \in Bodies
      BY <3>4, ConcatBody
    <3>6. ReqTyped(to)
      BY <3>1 DEF ReqTyped, Committing
    <3> HIDE DEF to
    <3> QED
      BY <1>2, <2>1, <2>3, <3>5, <3>6
  <2> QED
    BY <1>7, <2>2, <2>3 DEF ConcatBlobs, Onto
<1>8. CASE DropUpload(r)
  <2>1. /\ disk' = [b \in DOMAIN disk \ q.old |-> disk[b]]
        /\ uploads' = [u \in DOMAIN uploads \ {q.up} |-> uploads[u]]
        /\ req' = [req EXCEPT ![r] = Cleaning(q.drop)]
        /\ UNCHANGED <<vers, nextVer, nextBlob, nextUp>>
    BY <1>8 DEF DropUpload, Onto
  <2>2. /\ DOMAIN disk' \subseteq DOMAIN disk /\ \A b \in DOMAIN disk' : disk'[b] = disk[b]
        /\ DOMAIN uploads' \subseteq DOMAIN uploads
        /\ \A u \in DOMAIN uploads' : uploads'[u] = uploads[u]
    BY <2>1
  <2>3. \A u \in DOMAIN uploads' : PartsTyped(uploads'[u].parts)
    BY <1>0, <2>2
  <2> QED
    BY <1>1, <2>1, <2>2, <2>3, CleaningTyped
<1>9. CASE Clean(r)
  <2>1. /\ disk' = [b \in DOMAIN disk \ q.drop |-> disk[b]]
        /\ req' = [req EXCEPT ![r] = Done]
        /\ UNCHANGED <<vers, nextVer, uploads, nextBlob, nextUp>>
    BY <1>9 DEF Clean, Onto
  <2>2. DOMAIN disk' \subseteq DOMAIN disk /\ \A b \in DOMAIN disk' : disk'[b] = disk[b]
    BY <2>1
  <2> QED
    BY <1>0, <1>1, <2>1, <2>2, CleaningTyped
<1> QED
  BY <1>4, <1>5, <1>6, <1>7, <1>8, <1>9 DEF RequestContinues

\* Every step keeps the types.
LEMMA TypedStep == StoreInv /\ S3Typed /\ [S3Next]_s3Vars => S3Typed'
<1> SUFFICES ASSUME StoreInv, S3Typed, [S3Next]_s3Vars PROVE S3Typed'
  OBVIOUS
<1>1. ASSUME NEW v \in vers, NEW l \in Locks, NEW b \in BOOLEAN, SetLock(v, l, b)
      PROVE  S3Typed'
  <2> DEFINE w == [v EXCEPT !.lock = l]
  <2>1. /\ vers' = (vers \ {v}) \cup {w}
        /\ UNCHANGED <<nextVer, disk, uploads, req, nextBlob, nextUp>>
    BY <1>1 DEF SetLock
  <2>2. v = [key |-> v.key, seq |-> v.seq, blob |-> v.blob, etag |-> v.etag,
             lock |-> v.lock, id |-> v.id]
    BY DEF StoreInv, RowsFit
  <2>3. w.seq = v.seq /\ w.blob = v.blob /\ w.etag = v.etag /\ w.lock = l /\ w.id = v.id
    BY <2>2
  <2> HIDE DEF w
  <2>4. RowTyped(w)
    BY <2>3 DEF S3Typed, RowTyped, IsMarker
  <2>5. \A x \in vers' : RowTyped(x)
    BY <2>1, <2>4 DEF S3Typed
  <2> QED
    BY <2>1, <2>5 DEF S3Typed
<1>2. ASSUME NEW k \in Keys, CreateUpload(k) PROVE S3Typed'
  <2>1. /\ uploads' = [u \in DOMAIN uploads \cup {nextUp} |->
                         IF u = nextUp THEN [key |-> k, parts |-> Empty] ELSE uploads[u]]
        /\ nextUp' = nextUp + 1
        /\ UNCHANGED <<vers, nextVer, disk, req, nextBlob>>
    BY <1>2 DEF CreateUpload
  <2>2. nextUp \in Nat \ {0} /\ nextUp' = nextUp + 1 /\ DOMAIN uploads \subseteq 1..(nextUp - 1)
    BY <2>1 DEF S3Typed
  <2>3. nextUp' \in Nat \ {0} /\ DOMAIN uploads \cup {nextUp} \subseteq 1..(nextUp' - 1)
    BY <2>2
  <2>4. PartsTyped(Empty)
    BY DEF PartsTyped, Empty
  <2>5. DOMAIN uploads' \subseteq 1..(nextUp' - 1)
        /\ \A u \in DOMAIN uploads' : PartsTyped(uploads'[u].parts)
    BY <2>1, <2>3, <2>4 DEF S3Typed
  <2> QED
    BY <2>1, <2>3, <2>5 DEF S3Typed
<1>3. ASSUME UNCHANGED <<vers, nextVer, disk, uploads, req, nextBlob, nextUp>> PROVE S3Typed'
  BY <1>3 DEF S3Typed
<1>4. ASSUME NEW l \in BOOLEAN, CreateBucket(l) PROVE S3Typed'
  BY <1>3, <1>4 DEF CreateBucket
<1>5. ASSUME NEW v, PutBucketVersioning(v) PROVE S3Typed'
  BY <1>3, <1>5 DEF PutBucketVersioning
<1>6. CASE DeleteBucket
  <2>1. vers' = {} /\ nextVer' = 1 /\ disk' = Empty /\ UNCHANGED <<uploads, req, nextBlob, nextUp>>
    BY <1>6 DEF DeleteBucket
  <2>2. DOMAIN disk' = {}
    BY <2>1 DEF Empty
  <2>3. nextVer' <= MaxSeq + 1
    BY <2>1, S3Assumption
  <2> QED
    BY <2>1, <2>2, <2>3 DEF S3Typed
<1>7. CASE S3Crash
  <2>1. req' = [r \in Requests |-> Done] /\ UNCHANGED <<vers, nextVer, disk, uploads, nextBlob, nextUp>>
    BY <1>7 DEF S3Crash
  <2>2. \A r \in Requests : ReqTyped(req'[r])
    BY <2>1, CleaningTyped
  <2> QED
    BY <2>1, <2>2 DEF S3Typed
<1>8. CASE UNCHANGED s3Vars
  BY <1>3, <1>8 DEF s3Vars
<1> QED
  BY <1>1, <1>2, <1>4, <1>5, <1>6, <1>7, <1>8, BeginTyped, ContinueTyped DEF S3Next

\* An empty data directory is of the types.
LEMMA TypedInit == S3Init => S3Typed
<1> SUFFICES ASSUME S3Init PROVE S3Typed
  OBVIOUS
<1>1. vers = {} /\ DOMAIN disk = {} /\ DOMAIN uploads = {} /\ \A r \in Requests : req[r] = Done
  BY DEF S3Init, Empty
<1>2. nextVer = 1 /\ nextBlob = 1 /\ nextUp = 1
  BY DEF S3Init
<1>3. nextVer <= MaxSeq + 1 /\ nextBlob <= MaxBlob + 1 /\ nextUp \in Nat \ {0}
  BY <1>2, S3Assumption
<1> QED
  BY <1>1, <1>3, CleaningTyped DEF S3Typed

\* For every value of the constants the rows, the index, the files, the uploads and
\* the requests of a bucket are of their types: every file, part and row that is
\* not a marker holds a body of at least one piece (WriteBlob, PutPart,
\* PutVersion, ConcatBlobs).
THEOREM BucketTyped == S3Spec => []S3TypeOK
<1>1. S3Init => StoreInv /\ S3Typed
  BY S3InitFits, TypedInit DEF StoreInv
<1>2. StoreInv /\ S3Typed => S3TypeOK
  <2> SUFFICES ASSUME StoreInv, S3Typed PROVE S3TypeOK
    OBVIOUS
  <2>0. /\ nextVer \in Nat \ {0} /\ nextVer <= MaxSeq + 1 /\ MaxSeq \in Nat
        /\ nextBlob \in Nat \ {0} /\ nextBlob <= MaxBlob + 1 /\ MaxBlob \in Nat
    BY S3Assumption DEF StoreInv, StoreFits, S3Typed
  <2>1. ASSUME NEW v \in vers PROVE v \in Version
    <3>1. /\ v.key \in Keys /\ v.seq \in Nat /\ v.seq < nextVer /\ v.blob \in 0..(nextBlob - 1)
          /\ v = [key |-> v.key, seq |-> v.seq, blob |-> v.blob, etag |-> v.etag,
                  lock |-> v.lock, id |-> v.id]
      BY DEF StoreInv, RowsFit
    <3>2. v.seq # 0 /\ v.lock \in Locks /\ v.id \in {0, v.seq} /\ v.etag \in Seq(Pieces)
      BY DEF S3Typed, RowTyped, NullVersion
    <3>3. v.seq \in 1..MaxSeq /\ v.blob \in 0..MaxBlob
      BY <2>0, <3>1, <3>2
    <3>4. v.id \in 0..MaxSeq
      BY <2>0, <3>2, <3>3
    <3> QED
      BY <3>1, <3>2, <3>3, <3>4 DEF Version
  <2>2. cur \in [Keys -> 0..MaxSeq]
    <3>1. cur = [k \in Keys |-> cur[k]] /\ \A k \in Keys : cur[k] = Shown(vers, k)
      BY DEF StoreInv, IndexFits, CurIsNewest
    <3>2. ASSUME NEW k \in Keys PROVE Shown(vers, k) \in 0..MaxSeq
      <4>1. 0 \in 0..MaxSeq
        BY <2>0
      <4>2. ASSUME VersionsOf(vers, k) # {} PROVE Newest(vers, k).seq \in 0..MaxSeq
        <5>1. Newest(vers, k) \in vers
          BY <4>2, NewestThere DEF StoreInv
        <5>2. Newest(vers, k).seq \in 1..MaxSeq
          BY <2>1, <5>1 DEF Version
        <5> QED
          BY <5>2, <2>0
      <4> QED
        BY <4>1, <4>2 DEF Shown
    <3> QED
      BY <3>1, <3>2
  <2>3. /\ bucket \in [there : BOOLEAN, versioning : {"", "Enabled", "Suspended"}, lock : BOOLEAN]
        /\ DOMAIN disk \subseteq 1..(nextBlob - 1)
        /\ \A u \in DOMAIN uploads : uploads[u].key \in Keys
        /\ DOMAIN req = Requests
    <3>1. req = [r \in Requests |-> req[r]]
      BY DEF StoreInv, StoreFits
    <3>2. DOMAIN req = Requests
      BY <3>1, Zenon
    <3> QED
      BY <3>2 DEF StoreInv, StoreFits, UploadFits
  <2>4. /\ \A b \in DOMAIN disk : disk[b] \in Seq(Pieces)
        /\ DOMAIN uploads \subseteq 1..(nextUp - 1)
        /\ \A u \in DOMAIN uploads : DOMAIN uploads[u].parts \subseteq PartNumbers
        /\ \A r \in Requests :
             req[r].pc \in {"done", "copy", "commit", "putpart", "assemble", "drop", "clean"}
    BY DEF S3Typed, PartsTyped, ReqTyped, Bodies
  <2>5. vers \subseteq Version
    BY <2>1
  <2> QED
    BY <2>2, <2>3, <2>4, <2>5 DEF S3TypeOK
<1> QED
  BY <1>1, <1>2, StoreStep, TypedStep, PTL DEF S3Spec

-----------------------------------------------------------------------------
(* S3: the bucket implements what its clients are promised.                *)

\* What a client sees of a row: its bytes are what its ETag says.
Face(v) ==
  [id |-> v.id, body |-> IF IsMarker(v) THEN <<>> ELSE v.etag, held |-> v.lock = "hold"]

\* The numbers of a key's rows.
Numbers(V, k) == {v.seq : v \in VersionsOf(V, k)}

\* The stacks are functions of the rows alone.
StacksFit ==
  /\ DOMAIN Stacks = Keys
  /\ Stacks = [k \in Keys |-> Stacks[k]]
  /\ \A k \in Keys : /\ DOMAIN Stacks[k] = Numbers(vers, k)
                     /\ Stacks[k] = [n \in Numbers(vers, k) |-> Stacks[k][n]]
  /\ \A v \in vers : v.key \in Keys /\ Stacks[v.key][v.seq] = Face(v)

\* What the steps of the refinement rest on.
SeenInv == StoreInv /\ S3Typed /\ BlobsThere

\* A number is that of some row of the key.
LEMMA NumbersAre ==
  ASSUME NEW V, NEW k
  PROVE  /\ \A v \in V : v.key = k => v.seq \in Numbers(V, k)
         /\ \A n \in Numbers(V, k) : \E v \in V : v.key = k /\ v.seq = n
BY DEF Numbers, VersionsOf

\* With every blob there, the bodies that clients read are those of the rows,
LEMMA StacksAre == SeenInv => StacksFit
<1> SUFFICES ASSUME SeenInv PROVE StacksFit
  OBVIOUS
<1>1. /\ DOMAIN Stacks = Keys
      /\ Stacks = [k \in Keys |-> Stacks[k]]
      /\ \A k \in Keys : Stacks[k] = Stack(k)
  BY DEF Stacks
<1>2. ASSUME NEW k \in Keys
      PROVE  /\ DOMAIN Stack(k) = Numbers(vers, k)
             /\ Stack(k) = [n \in Numbers(vers, k) |-> Stack(k)[n]]
  BY DEF Stack, Numbers
<1>3. ASSUME NEW v \in vers
      PROVE  v.key \in Keys /\ Stack(v.key)[v.seq] = Face(v)
  <2>1. v.key \in Keys /\ \A w \in vers : w.seq = v.seq => w = v
    BY DEF SeenInv, StoreInv, RowsFit
  <2>2. Row(v.key, v.seq) = v
    BY <2>1 DEF Row
  <2>3. Body(v) = IF IsMarker(v) THEN <<>> ELSE v.etag
    <3>1. NoBlob \notin DOMAIN disk
      <4>1. nextBlob \in Nat /\ DOMAIN disk \subseteq 1..(nextBlob - 1)
        BY DEF SeenInv, StoreInv, StoreFits
      <4>2. 0 \notin 1..(nextBlob - 1)
        BY <4>1
      <4> QED
        BY <4>1, <4>2 DEF NoBlob
    <3> QED
      BY <3>1 DEF Body, IsMarker, SeenInv, BlobsThere
  <2>4. v.seq \in {w.seq : w \in VersionsOf(vers, v.key)}
    BY DEF VersionsOf
  <2> QED
    BY <2>1, <2>2, <2>3, <2>4 DEF Stack, Face
<1> QED
  BY <1>1, <1>2, <1>3 DEF StacksFit

\* also after a step.
LEMMA StacksAreNext == SeenInv' => StacksFit'
BY StacksAre, PTL

\* Equal rows, equal stacks.
LEMMA KeySame ==
  ASSUME StacksFit, StacksFit', NEW k \in Keys,
         \A v : v.key = k => (v \in vers <=> v \in vers')
  PROVE  Stacks'[k] = Stacks[k]
<1>1. Numbers(vers', k) = Numbers(vers, k)
  BY DEF Numbers, VersionsOf
<1>2. ASSUME NEW n \in Numbers(vers, k) PROVE Stacks'[k][n] = Stacks[k][n]
  <2>1. PICK v \in vers : v.key = k /\ v.seq = n
    BY NumbersAre
  <2>2. v \in vers'
    BY <2>1
  <2> QED
    BY <2>1, <2>2 DEF StacksFit
<1>3. /\ Stacks[k] = [n \in Numbers(vers, k) |-> Stacks[k][n]]
      /\ Stacks'[k] = [n \in Numbers(vers', k) |-> Stacks'[k][n]]
  BY DEF StacksFit
<1> QED
  BY <1>1, <1>2, <1>3

\* Nothing happens to the rows, and nothing is seen.
LEMMA StacksSame ==
  ASSUME StacksFit, StacksFit', vers' = vers
  PROVE  Stacks' = Stacks
<1>1. \A k \in Keys : Stacks'[k] = Stacks[k]
  BY KeySame
<1>2. Stacks = [k \in Keys |-> Stacks[k]] /\ Stacks' = [k \in Keys |-> Stacks'[k]]
  BY DEF StacksFit
<1> QED
  BY <1>1, <1>2

\* A step on the rows of one key.
LEMMA OneKey ==
  ASSUME StacksFit, StacksFit', NEW k \in Keys,
         \A v : v.key # k => (v \in vers <=> v \in vers')
  PROVE  Stacks' = [Stacks EXCEPT ![k] = Stacks'[k]]
<1>1. \A j \in Keys : j # k => Stacks'[j] = Stacks[j]
  BY KeySame
<1>2. Stacks = [j \in Keys |-> Stacks[j]] /\ Stacks' = [j \in Keys |-> Stacks'[j]]
  BY DEF StacksFit
<1> QED
  BY <1>1, <1>2

\* A row n is written on top of key k, and replaces what Replaced says.
LEMMA RowPushed ==
  ASSUME SeenInv, StacksFit, StacksFit', NEW k \in Keys, NEW n, NEW B,
         n.key = k, n.seq = nextVer, Face(n).body \in B,
         n.id = IF bucket.versioning = "Enabled" THEN nextVer ELSE NullVersion,
         vers' = (vers \ Replaced(k)) \cup {n}
  PROVE  Api!Pushed(k, B)
<1> DEFINE s == Stacks[k]
           t == Stacks'[k]
           en == bucket.versioning = "Enabled"
           left == {m \in DOMAIN s : en \/ s[m].id # 0}
<1>0. /\ nextVer \in Nat \ {0}
      /\ \A v \in vers : v.seq \in Nat /\ v.seq < nextVer /\ v.id \in {0, v.seq}
      /\ \A v, w \in vers : v.seq = w.seq => v = w
  BY DEF SeenInv, StoreInv, StoreFits, RowsFit, S3Typed, RowTyped, NullVersion
<1>1. \A v : v \in Replaced(k) <=> ~en /\ v \in vers /\ v.key = k /\ v.id = 0
  BY DEF Replaced, Named, VersionsOf, NullVersion
<1>2. /\ DOMAIN s = Numbers(vers, k) /\ DOMAIN t = Numbers(vers', k)
      /\ t = [m \in Numbers(vers', k) |-> t[m]]
  BY DEF StacksFit
<1>3. \A v \in vers : v.key = k => v.seq \in DOMAIN s /\ s[v.seq] = Face(v)
  BY <1>2, NumbersAre DEF StacksFit
<1>4. \A v \in vers' : v.key = k => v.seq \in DOMAIN t /\ t[v.seq] = Face(v)
  BY <1>2, NumbersAre DEF StacksFit
<1>5. \A m \in DOMAIN s : \E v \in vers : v.key = k /\ v.seq = m
  BY <1>2, NumbersAre
<1>6. \A m \in DOMAIN t : \E v \in vers' : v.key = k /\ v.seq = m
  BY <1>2, NumbersAre
<1>7. n \in vers' /\ nextVer \in DOMAIN t /\ t[nextVer] = Face(n)
  BY <1>4
<1>8. \A m \in DOMAIN s : m < nextVer /\ m \in Nat
  BY <1>0, <1>5
<1>9. t[nextVer].body \in B /\ t[nextVer].id = n.id
  BY <1>7 DEF Face
<1>10. t[nextVer].id = 0 <=> ~en
  BY <1>0, <1>9 DEF NullVersion
<1>11. \A v : Face(v).id = v.id
  BY DEF Face
<1>12. \A m \in left : s[m].id # t[nextVer].id
  <2> SUFFICES ASSUME NEW m \in left PROVE s[m].id # t[nextVer].id
    OBVIOUS
  <2>1. PICK v \in vers : v.key = k /\ v.seq = m
    BY <1>5
  <2>2. s[m].id = v.id
    BY <1>3, <1>11, <2>1
  <2> QED
    BY <1>0, <1>9, <2>1, <2>2 DEF NullVersion
<1>13. DOMAIN t = left \cup {nextVer}
  <2>1. ASSUME NEW m \in DOMAIN t PROVE m \in left \cup {nextVer}
    <3>1. PICK v \in vers' : v.key = k /\ v.seq = m
      BY <1>6
    <3>2. CASE v = n
      BY <3>1, <3>2
    <3>3. CASE v # n
      <4>1. v \in vers /\ v \notin Replaced(k)
        BY <3>3
      <4>2. m \in DOMAIN s /\ s[m].id = v.id
        BY <1>3, <1>11, <3>1, <4>1
      <4> QED
        BY <1>1, <3>1, <4>1, <4>2
    <3> QED
      BY <3>2, <3>3
  <2>2. ASSUME NEW m \in left PROVE m \in DOMAIN t
    <3>1. PICK v \in vers : v.key = k /\ v.seq = m
      BY <1>5
    <3>2. s[m].id = v.id
      BY <1>3, <1>11, <3>1
    <3>3. v \in vers'
      BY <1>1, <3>2
    <3> QED
      BY <1>4, <3>1, <3>3
  <2> QED
    BY <1>7, <2>1, <2>2
<1>14. \A m \in left : m # nextVer /\ t[m] = s[m]
  <2> SUFFICES ASSUME NEW m \in left PROVE m # nextVer /\ t[m] = s[m]
    OBVIOUS
  <2>1. PICK v \in vers : v.key = k /\ v.seq = m
    BY <1>5
  <2>2. s[m].id = v.id
    BY <1>3, <1>11, <2>1
  <2>3. v \in vers'
    BY <1>1, <2>2
  <2>4. m # nextVer
    BY <1>0, <2>1
  <2> QED
    BY <1>3, <1>4, <2>1, <2>3, <2>4
<1>15. DOMAIN Api!Under(s) = left
  BY DEF Api!Under, Api!Dropped, Api!Nulls, Api!NullId
<1>16. Stacks' = [Stacks EXCEPT ![k] = t]
  <2>1. \A v : v.key # k => (v \in vers <=> v \in vers')
    BY <1>1
  <2> QED
    BY <2>1, OneKey
<1>17. t = [m \in left \cup {nextVer} |-> IF m = nextVer THEN t[nextVer] ELSE s[m]]
  BY <1>2, <1>13, <1>14
<1>18. Stacks' = [Stacks EXCEPT ![k] = [m \in left \cup {nextVer} |->
                                         IF m = nextVer THEN t[nextVer] ELSE s[m]]]
  BY <1>16, <1>17
<1> HIDE DEF left
<1> QED
  BY <1>7, <1>8, <1>9, <1>10, <1>12, <1>15, <1>18 DEF Api!Pushed, Api!NullId

\* A client sees a hold as one.
LEMMA FaceHeld == \A v : v.lock # "hold" => ~Face(v).held
BY DEF Face

\* One row of the key goes.
LEMMA RowDropped ==
  ASSUME SeenInv, StacksFit, StacksFit', NEW v \in vers, vers' = vers \ {v}
  PROVE  Stacks' = [Stacks EXCEPT ![v.key] = Api!Dropped(Stacks[v.key], {v.seq})]
<1> DEFINE k == v.key
           s == Stacks[k]
           t == Stacks'[k]
<1>0. k \in Keys /\ \A u, w \in vers : u.seq = w.seq => u = w
  BY DEF SeenInv, StoreInv, RowsFit
<1>1. /\ DOMAIN s = Numbers(vers, k) /\ DOMAIN t = Numbers(vers', k)
      /\ t = [m \in Numbers(vers', k) |-> t[m]]
  BY <1>0 DEF StacksFit
<1>2. DOMAIN t = DOMAIN s \ {v.seq}
  <2>1. ASSUME NEW m \in DOMAIN t PROVE m \in DOMAIN s /\ m # v.seq
    <3>1. PICK w \in vers' : w.key = k /\ w.seq = m
      BY <1>1, NumbersAre
    <3> QED
      BY <1>0, <1>1, <3>1, NumbersAre
  <2>2. ASSUME NEW m \in DOMAIN s, m # v.seq PROVE m \in DOMAIN t
    <3>1. PICK w \in vers : w.key = k /\ w.seq = m
      BY <1>1, NumbersAre
    <3>2. w \in vers'
      BY <2>2, <3>1
    <3> QED
      BY <1>1, <3>1, <3>2, NumbersAre
  <2> QED
    BY <2>1, <2>2
<1>3. \A m \in DOMAIN t : t[m] = s[m]
  <2> SUFFICES ASSUME NEW m \in DOMAIN t PROVE t[m] = s[m]
    OBVIOUS
  <2>1. PICK w \in vers' : w.key = k /\ w.seq = m
    BY <1>1, NumbersAre
  <2> QED
    BY <2>1 DEF StacksFit
<1>4. Stacks' = [Stacks EXCEPT ![k] = t]
  <2>1. \A w : w.key # k => (w \in vers <=> w \in vers')
    OBVIOUS
  <2> QED
    BY <1>0, <2>1, OneKey
<1>5. t = Api!Dropped(s, {v.seq})
  BY <1>1, <1>2, <1>3 DEF Api!Dropped
<1> QED
  BY <1>4, <1>5

\* The stacks with the hold of a version put on or lifted.
HoldTurned(k, n) == [Stacks EXCEPT ![k][n].held = ~@]

\* The lock of a row changes.
LEMMA HoldSeen ==
  ASSUME SeenInv, StacksFit, StacksFit', NEW v \in vers, NEW w,
         w.key = v.key, w.seq = v.seq, w.blob = v.blob, w.etag = v.etag, w.id = v.id,
         vers' = (vers \ {v}) \cup {w}
  PROVE  Stacks' \in {HoldTurned(v.key, v.seq), Stacks}
<1> DEFINE k == v.key
           s == Stacks[k]
           t == Stacks'[k]
<1>0. k \in Keys /\ \A x, y \in vers : x.seq = y.seq => x = y
  BY DEF SeenInv, StoreInv, RowsFit
<1>4. /\ DOMAIN s = Numbers(vers, k) /\ DOMAIN t = Numbers(vers', k)
      /\ t = [m \in Numbers(vers', k) |-> t[m]] /\ s = [m \in Numbers(vers, k) |-> s[m]]
  BY <1>0 DEF StacksFit
<1>5. v.seq \in DOMAIN s /\ v.seq \in DOMAIN t /\ s[v.seq] = Face(v) /\ t[v.seq] = Face(w)
  <2>1. v.seq \in Numbers(vers, k) /\ v.seq \in Numbers(vers', k)
    BY NumbersAre
  <2> QED
    BY <1>4, <2>1 DEF StacksFit
<1>6. DOMAIN t = DOMAIN s
  BY <1>4 DEF Numbers, VersionsOf
<1>7. \A m \in DOMAIN s : m # v.seq => t[m] = s[m]
  <2> SUFFICES ASSUME NEW m \in DOMAIN s, m # v.seq PROVE t[m] = s[m]
    OBVIOUS
  <2>1. PICK x \in vers : x.key = k /\ x.seq = m
    BY <1>4, NumbersAre
  <2>2. x \in vers'
    BY <2>1
  <2> QED
    BY <2>1, <2>2 DEF StacksFit
<1>8. Stacks' = [Stacks EXCEPT ![k] = t]
  <2>1. \A x : x.key # k => (x \in vers <=> x \in vers')
    OBVIOUS
  <2> QED
    BY <1>0, <2>1, OneKey
<1>9. Face(w) = [Face(v) EXCEPT !.held = (w.lock = "hold")] /\ Face(v).held = (v.lock = "hold")
  BY DEF Face, IsMarker
<1>10. t = [s EXCEPT ![v.seq] = Face(w)]
  BY <1>4, <1>5, <1>6, <1>7
<1>11. ASSUME w.lock = "hold" <=> v.lock # "hold" PROVE Stacks' = HoldTurned(k, v.seq)
  <2>1. Face(w) = [Face(v) EXCEPT !.held = ~@]
    BY <1>9, <1>11
  <2>2. t = [s EXCEPT ![v.seq].held = ~@]
    BY <1>5, <1>10, <2>1
  <2>3. Stacks' = HoldTurned(k, v.seq)
    BY <1>0, <1>5, <1>8, <2>2 DEF HoldTurned
  <2> QED
    BY <2>3
<1>12. ASSUME w.lock = "hold" <=> v.lock = "hold" PROVE Stacks' = Stacks
  <2>1. Face(w) = Face(v)
    BY <1>12 DEF Face, IsMarker
  <2>2. t = s
    BY <1>4, <1>5, <1>10, <2>1
  <2>3. Stacks = [j \in Keys |-> Stacks[j]]
    BY DEF StacksFit
  <2> QED
    BY <1>0, <1>5, <1>8, <2>2, <2>3
<1> QED
  BY <1>11, <1>12

\* A step that changes neither the bucket nor the rows is none to a client.
LEMMA UnseenStep ==
  ASSUME StacksFit, StacksFit', vers' = vers, bucket' = bucket
  PROVE  UNCHANGED Api!apiVars
BY StacksSame DEF Api!apiVars

\* PutVersion puts a version, or refuses and nothing is seen.
LEMMA PutSeen ==
  ASSUME SeenInv, StacksFit, StacksFit', NEW r \in Requests, NEW c, NEW l, PutVersion(r, c, l)
  PROVE  [Api!ApiNext]_(Api!apiVars)
<1> DEFINE q == req[r]
           n == NewRow(q.key, q.blob, q.etag, l)
<1>1. q.pc = "commit" /\ bucket' = bucket
  BY DEF PutVersion
<1>2. CASE vers' = vers
  BY <1>1, <1>2, UnseenStep
<1>3. CASE bucket.there /\ vers' = (vers \ Replaced(q.key)) \cup {n}
  <2>1. q.key \in Keys /\ q.blob # NoBlob
    <3>1. ReqFits(q, nextBlob) /\ nextBlob \in Nat
      BY DEF SeenInv, StoreInv, StoreFits
    <3> QED
      BY <1>1, <3>1 DEF ReqFits, NoBlob
  <2>2. q.etag \in Bodies
    BY <1>1 DEF SeenInv, S3Typed, ReqTyped
  <2>3. /\ n.key = q.key /\ n.seq = nextVer /\ n.blob = q.blob /\ n.etag = q.etag
        /\ n.id = IF bucket.versioning = "Enabled" THEN nextVer ELSE NullVersion
    BY DEF NewRow
  <2> HIDE DEF n
  <2>4. Face(n).body \in Seq(Pieces) \ {<<>>}
    BY <2>1, <2>2, <2>3 DEF Face, IsMarker, Bodies
  <2>5. Api!Pushed(q.key, Seq(Pieces) \ {<<>>})
    BY <1>3, <2>1, <2>3, <2>4, RowPushed
  <2> QED
    BY <1>1, <1>3, <2>1, <2>5 DEF Api!ApiNext, Api!ApiPut
<1> QED
  BY <1>2, <1>3 DEF PutVersion

\* DeleteObject naming a version takes exactly that one, if no hold is on it.
LEMMA DeleteVersionSeen ==
  ASSUME SeenInv, StacksFit, StacksFit', NEW r, NEW v \in vers, NEW b, DeleteVersion(r, v, b)
  PROVE  [Api!ApiNext]_(Api!apiVars)
<1>1. bucket.there /\ bucket' = bucket /\ vers' = vers \ {v} /\ v.lock # "hold"
  BY DEF DeleteVersion, Blocked
<1>2. v.key \in Keys /\ v.seq \in DOMAIN Stacks[v.key] /\ Stacks[v.key][v.seq] = Face(v)
  BY NumbersAre DEF StacksFit
<1>3. Stacks' = [Stacks EXCEPT ![v.key] = Api!Dropped(@, {v.seq})]
  BY <1>1, RowDropped
<1>4. Api!ApiRemoveVersion(v.key, v.seq)
  BY <1>1, <1>2, <1>3, FaceHeld DEF Api!ApiRemoveVersion, Api!Held
<1> QED
  BY <1>2, <1>4 DEF Api!ApiNext

\* DeleteObject naming none ends the object, or puts a marker over it.
LEMMA DeleteSeen ==
  ASSUME SeenInv, StacksFit, StacksFit', NEW r, NEW k \in Keys, NEW b, DeleteObject(r, k, b)
  PROVE  [Api!ApiNext]_(Api!apiVars)
<1> DEFINE n == NewRow(k, NoBlob, <<>>, "none")
<1>1. bucket.there /\ bucket' = bucket
  BY DEF DeleteObject
<1>2. CASE bucket.versioning # ""
  <2>1. vers' = (vers \ Replaced(k)) \cup {n} /\ \A v \in Replaced(k) : v.lock # "hold"
    BY <1>2 DEF DeleteObject, Blocked
  <2>2. /\ n.key = k /\ n.seq = nextVer /\ n.blob = NoBlob
        /\ n.id = IF bucket.versioning = "Enabled" THEN nextVer ELSE NullVersion
    BY DEF NewRow
  <2> HIDE DEF n
  <2>3. Face(n).body \in {Api!Marker}
    BY <2>2 DEF Face, IsMarker, Api!Marker
  <2>4. Api!Pushed(k, {Api!Marker})
    BY <2>1, <2>2, <2>3, RowPushed
  <2>5. ASSUME bucket.versioning = "Suspended", NEW m \in Api!Nulls(Stacks[k])
        PROVE  ~Api!Held(k, m)
    <3>1. m \in Numbers(vers, k) /\ Stacks[k][m].id = 0
      BY DEF Api!Nulls, Api!NullId, StacksFit
    <3>2. PICK v \in vers : v.key = k /\ v.seq = m
      BY <3>1, NumbersAre
    <3>3. Stacks[k][m] = Face(v)
      BY <3>2 DEF StacksFit
    <3>4. v.id = 0
      BY <3>1, <3>3 DEF Face
    <3>5. v \in Replaced(k)
      BY <2>5, <3>2, <3>4 DEF Replaced, Named, VersionsOf, NullVersion
    <3> QED
      BY <2>1, <3>3, <3>5, FaceHeld DEF Api!Held
  <2>6. Api!ApiRemove(k)
    BY <1>1, <1>2, <2>4, <2>5 DEF Api!ApiRemove
  <2> QED
    BY <2>6 DEF Api!ApiNext
<1>3. CASE bucket.versioning = ""
  <2> DEFINE v == Newest(vers, k)
  <2>1. VersionsOf(vers, k) # {} /\ vers' = vers \ {v} /\ v.lock # "hold"
    BY <1>3 DEF DeleteObject, Blocked
  <2>2. v \in vers /\ v.key = k /\ \A w \in vers : w.key = k => w.seq <= v.seq
    BY <2>1, NewestThere DEF SeenInv, StoreInv
  <2> HIDE DEF v
  <2>3. v.seq \in DOMAIN Stacks[k] /\ Stacks[k][v.seq] = Face(v)
    BY <2>2, NumbersAre DEF StacksFit
  <2>4. Api!OnTop(k, v.seq)
    <3> SUFFICES ASSUME NEW m \in DOMAIN Stacks[k] PROVE m <= v.seq
      BY DEF Api!OnTop
    <3>1. PICK w \in vers : w.key = k /\ w.seq = m
      BY NumbersAre DEF StacksFit
    <3> QED
      BY <2>2, <3>1
  <2>5. Stacks' = [Stacks EXCEPT ![k] = Api!Dropped(@, {v.seq})]
    BY <2>1, <2>2, RowDropped
  <2>6. Api!ApiRemoveVersion(k, v.seq)
    BY <1>1, <2>1, <2>3, <2>5, FaceHeld DEF Api!ApiRemoveVersion, Api!Held
  <2>7. Api!ApiRemove(k)
    BY <1>3, <2>3, <2>4, <2>6 DEF Api!ApiRemove
  <2> QED
    BY <2>7 DEF Api!ApiNext
<1> QED
  BY <1>2, <1>3

\* PutObjectLegalHold is seen, PutObjectRetention is not.
LEMMA LockSeen ==
  ASSUME SeenInv, StacksFit, StacksFit', NEW v \in vers, NEW l, NEW b, SetLock(v, l, b)
  PROVE  [Api!ApiNext]_(Api!apiVars)
<1> DEFINE w == [v EXCEPT !.lock = l]
<1>1. bucket.there /\ bucket' = bucket /\ vers' = (vers \ {v}) \cup {w}
  BY DEF SetLock
<1>2. Stacks' \in {HoldTurned(v.key, v.seq), Stacks}
  <2>1. v = [key |-> v.key, seq |-> v.seq, blob |-> v.blob, etag |-> v.etag,
             lock |-> v.lock, id |-> v.id]
    BY DEF SeenInv, StoreInv, RowsFit
  <2>2. w.key = v.key /\ w.seq = v.seq /\ w.blob = v.blob /\ w.etag = v.etag /\ w.id = v.id
    BY <2>1
  <2> HIDE DEF w
  <2> QED
    BY <1>1, <2>2, HoldSeen
<1>3. CASE Stacks' = Stacks
  BY <1>1, <1>3 DEF Api!apiVars
<1>4. CASE Stacks' = HoldTurned(v.key, v.seq)
  <2>1. Api!ApiHold(v.key, v.seq)
    BY <1>1, <1>4 DEF Api!ApiHold, HoldTurned
  <2>2. v.key \in Keys /\ v.seq \in DOMAIN Stacks[v.key]
    BY NumbersAre DEF StacksFit
  <2> QED
    BY <2>1, <2>2 DEF Api!ApiNext
<1> QED
  BY <1>2, <1>3, <1>4

\* Every step is one operation of the promise, or is not seen.
LEMMA StepSeen == SeenInv /\ SeenInv' /\ [S3Next]_s3Vars => [Api!ApiNext]_(Api!apiVars)
<1> SUFFICES ASSUME SeenInv, SeenInv', [S3Next]_s3Vars PROVE [Api!ApiNext]_(Api!apiVars)
  OBVIOUS
<1>0. StacksFit /\ StacksFit'
  BY StacksAre, StacksAreNext
<1>1. ASSUME vers' = vers, bucket' = bucket PROVE [Api!ApiNext]_(Api!apiVars)
  BY <1>0, <1>1, UnseenStep
<1>2. ASSUME NEW r \in Requests, RequestBegins(r) PROVE [Api!ApiNext]_(Api!apiVars)
  <2>1. \/ vers' = vers /\ bucket' = bucket
        \/ \E v \in vers, b \in BOOLEAN : DeleteVersion(r, v, b)
        \/ \E k \in Keys, b \in BOOLEAN : DeleteObject(r, k, b)
    BY <1>2 DEF RequestBegins, PutObject, CopyFrom, UploadPart, CompleteUpload, AbortUpload
  <2> QED
    BY <1>0, <1>1, <2>1, DeleteVersionSeen, DeleteSeen
<1>3. ASSUME NEW r \in Requests, RequestContinues(r) PROVE [Api!ApiNext]_(Api!apiVars)
  <2>1. \/ vers' = vers /\ bucket' = bucket
        \/ \E c \in Conditions, l \in Locks : PutVersion(r, c, l)
    BY <1>3 DEF RequestContinues, CopyBlob, PutPart, ConcatBlobs, DropUpload, Clean
  <2> QED
    BY <1>0, <1>1, <2>1, PutSeen
<1>4. ASSUME NEW l \in BOOLEAN, CreateBucket(l) PROVE [Api!ApiNext]_(Api!apiVars)
  <2>1. ~bucket.there /\ bucket'.there = TRUE /\ bucket'.versioning \in {"", "Enabled"} /\ vers' = vers
    BY <1>4 DEF CreateBucket
  <2> QED
    BY <1>0, <2>1, StacksSame DEF Api!ApiNext, Api!ApiCreate
<1>5. ASSUME NEW v \in {"Enabled", "Suspended"}, PutBucketVersioning(v)
      PROVE  [Api!ApiNext]_(Api!apiVars)
  <2>1. bucket \in [there : BOOLEAN, versioning : {"", "Enabled", "Suspended"}, lock : BOOLEAN]
    BY DEF SeenInv, StoreInv, StoreFits
  <2>2. bucket.there /\ bucket'.there = bucket.there /\ bucket'.versioning = v /\ vers' = vers
    BY <1>5, <2>1 DEF PutBucketVersioning
  <2> QED
    BY <1>0, <2>2, StacksSame DEF Api!ApiNext, Api!ApiVersioning
<1>6. CASE DeleteBucket
  <2>1. /\ bucket.there /\ bucket'.there = FALSE /\ bucket'.versioning = "" /\ vers = {}
        /\ vers' = vers
    BY <1>6 DEF DeleteBucket, NoBucket
  <2>2. ASSUME NEW k \in Keys PROVE Stacks[k] = Api!NoVersions
    <3>1. Numbers(vers, k) = {}
      BY <2>1 DEF Numbers, VersionsOf
    <3> QED
      BY <1>0, <3>1 DEF StacksFit, Api!NoVersions
  <2> QED
    BY <1>0, <2>1, <2>2, StacksSame DEF Api!ApiNext, Api!ApiDelete
<1>7. ASSUME NEW v \in vers, NEW l, NEW b, SetLock(v, l, b) PROVE [Api!ApiNext]_(Api!apiVars)
  BY <1>0, <1>7, LockSeen
<1>8. ASSUME NEW k, CreateUpload(k) PROVE [Api!ApiNext]_(Api!apiVars)
  BY <1>1, <1>8 DEF CreateUpload
<1>9. CASE S3Crash
  BY <1>1, <1>9 DEF S3Crash
<1>10. CASE UNCHANGED s3Vars
  BY <1>1, <1>10 DEF s3Vars
<1> QED
  BY <1>2, <1>3, <1>4, <1>5, <1>6, <1>7, <1>8, <1>9, <1>10 DEF S3Next

\* No bucket.
LEMMA SeenInit == S3Init => Api!ApiInit
<1> SUFFICES ASSUME S3Init PROVE Api!ApiInit
  OBVIOUS
<1>1. bucket.there = FALSE /\ bucket.versioning = "" /\ vers = {}
  BY DEF S3Init, NoBucket
<1>2. ASSUME NEW k \in Keys PROVE Stack(k) = Api!NoVersions
  <2>1. {v.seq : v \in VersionsOf(vers, k)} = {}
    BY <1>1 DEF VersionsOf
  <2> QED
    BY <2>1 DEF Stack, Api!NoVersions
<1>3. Stacks = [k \in Keys |-> Api!NoVersions]
  BY <1>2 DEF Stacks
<1> QED
  BY <1>1, <1>3 DEF Api!ApiInit

\* The bucket implements S3Api for every number of requests, keys, versions, parts
\* and bodies: whatever steps a put, copy, upload, delete or sweep is made of,
\* clients see each as one operation or as none, versions keep the body that was
\* put under them, and no delete takes a version under legal hold
\* (internal/s3store), provided the bucket is not created a second time.
THEOREM BucketAsPromised == S3Spec /\ []MadeOnce => ApiOK
<1>1. S3Init => StoreInv /\ S3Typed
  BY S3InitFits, TypedInit DEF StoreInv
<1>2. StoreInv /\ S3Typed /\ [S3Next]_s3Vars => (StoreInv /\ S3Typed)'
  BY StoreStep, TypedStep
<1>3. S3Spec /\ []MadeOnce => []RowsAgree
  BY VersionsReadable
<1>4. StoreInv /\ S3Typed /\ RowsAgree => SeenInv
  BY DEF SeenInv, RowsAgree
<1>5. S3Init => Api!ApiInit
  BY SeenInit
<1>6. SeenInv /\ SeenInv' /\ [S3Next]_s3Vars => [Api!ApiNext]_(Api!apiVars)
  BY StepSeen
<1> QED
  BY <1>1, <1>2, <1>3, <1>4, <1>5, <1>6, PTL DEF S3Spec, ApiOK, Api!ApiSpec

-----------------------------------------------------------------------------
(* DynamoDB: the writes of one transaction.                                *)

\* what the planned writes make of the buckets, step by step
LEMMA AppliedInSteps ==
  ASSUME NEW ops, Len(ops) \in Nat
  PROVE  \E f : /\ f[0] = Buckets
                /\ \A n \in 1..Len(ops) : f[n] = PlannedWrite(f[n - 1], ops[n])
                /\ Applied(ops) = f[Len(ops)]
<1> DEFINE Upto(m, f) == f = [n \in 0..m |-> IF n = 0 THEN Buckets
                                             ELSE PlannedWrite(f[n - 1], ops[n])]
           Bad == {m \in Nat : ~\E f : Upto(m, f)}
<1>1. Bad = {}
  <2> SUFFICES ASSUME Bad # {} PROVE FALSE
    OBVIOUS
  <2>1. PICK m \in Bad : \A x \in Bad : m <= x
    <3> HIDE DEF Bad
    <3>1. Bad \in SUBSET Nat
      BY DEF Bad
    <3> QED
      BY <3>1, LeastNat
  <2>2. m \in Nat /\ ~\E f : Upto(m, f)
    BY <2>1
  <2>3. m # 0
    <3> SUFFICES ASSUME m = 0 PROVE FALSE
      OBVIOUS
    <3>1. PICK g : g = [n \in 0..0 |-> Buckets]
      OBVIOUS
    <3>2. \A n \in 0..0 : n = 0
      OBVIOUS
    <3>3. Upto(0, g)
      BY <3>1, <3>2
    <3> QED
      BY <2>2, <3>3
  <2>4. m - 1 \in Nat /\ m - 1 \notin Bad
    <3> HIDE DEF Bad
    <3>1. m \in Nat /\ m # 0 /\ \A x \in Bad : m <= x
      BY <2>1, <2>2, <2>3
    <3>2. m - 1 \in Nat /\ ~(m <= m - 1)
      BY <3>1
    <3> QED
      BY <3>1, <3>2
  <2>5. PICK f : Upto(m - 1, f)
    BY <2>4
  <2>6. PICK g : g = [n \in 0..m |-> IF n = m THEN PlannedWrite(f[m - 1], ops[m]) ELSE f[n]]
    OBVIOUS
  <2>7. \A n \in 0..(m - 1) : g[n] = f[n]
    BY <2>2, <2>6
  <2>8. ASSUME NEW n \in 0..m
        PROVE  g[n] = IF n = 0 THEN Buckets ELSE PlannedWrite(g[n - 1], ops[n])
    <3>1. CASE n = m
      <4>1. g[m] = PlannedWrite(f[m - 1], ops[m]) /\ m - 1 \in 0..(m - 1)
        BY <2>2, <2>3, <2>6
      <4> QED
        BY <2>3, <2>7, <3>1, <4>1
    <3>2. CASE n # m
      <4>1. n \in 0..(m - 1) /\ (n # 0 => n - 1 \in 0..(m - 1))
        BY <2>2, <3>2
      <4>2. f[n] = IF n = 0 THEN Buckets ELSE PlannedWrite(f[n - 1], ops[n])
        BY <2>5, <4>1
      <4> QED
        BY <2>7, <4>1, <4>2
    <3> QED
      BY <3>1, <3>2
  <2>9. g = [n \in 0..m |-> g[n]]
    BY <2>6
  <2>10. Upto(m, g)
    BY <2>8, <2>9
  <2> QED
    BY <2>2, <2>10
<1>2. \E f : Upto(Len(ops), f)
  BY <1>1
<1>3. PICK f : f = CHOOSE g : Upto(Len(ops), g)
  OBVIOUS
<1>4. Applied(ops) = f[Len(ops)]
  BY <1>3 DEF Applied
<1>5. Upto(Len(ops), f)
  BY <1>2, <1>3
<1>6. f[0] = Buckets /\ \A n \in 1..Len(ops) : f[n] = PlannedWrite(f[n - 1], ops[n])
  BY <1>5
<1> QED
  BY <1>4, <1>6

\* What a key of the items bucket holds.
StoredRow == Items \cup {NoRow}

\* the writes of one transaction have reached bs, of the keys in D
RowsWritten(bs, D) ==
  /\ bs = [rows |-> bs.rows, entries |-> bs.entries, log |-> bs.log, seq |-> bs.seq,
           keyN |-> bs.keyN]
  /\ bs.rows \in [ItemKeys -> StoredRow]
  /\ \A k \in ItemKeys : k \notin D => bs.rows[k] = rows[k]
  /\ table.indexed => \A k \in ItemKeys : IndexEntries(k, bs.rows[k]) \subseteq bs.entries

\* The log of a transaction under way: old records stay or are pruned, new ones
\* are numbered after them.
LogFits(bs) ==
  /\ bs.keyN = Cardinality(DOMAIN log)
  /\ bs.seq \in Nat /\ bs.seq >= lastSeq
  /\ IsFiniteSet(DOMAIN bs.log) /\ \A n \in DOMAIN bs.log : n \in Nat /\ n <= bs.seq
  /\ \A n \in DOMAIN bs.log : n <= lastSeq => n \in DOMAIN log /\ bs.log[n] = log[n]
  /\ bs.seq = lastSeq => DOMAIN bs.log = DOMAIN log

\* The record a change of k to new asks for.
RecordOf(k, new) == [key |-> k, event |-> EventName(loadItem(k), new)]

\* The log has it, under a new number.
RecordIn(bs, k) == \E n \in DOMAIN bs.log : n > lastSeq /\ bs.log[n] = RecordOf(k, bs.rows[k])

\* Every key written has its record, unless pruneStream counts a committed log
\* over its limit a second time.
Recorded(bs, D) ==
  table.streamed /\ (bs.seq <= lastSeq + 1 \/ bs.keyN <= StreamMax) =>
    \A k \in D : loadItem(k).there \/ bs.rows[k].there => RecordIn(bs, k)

\* What a prefix of the writes of a transaction has done.
WritesDone(bs, D) == RowsWritten(bs, D) /\ LogFits(bs) /\ Recorded(bs, D)

\* pruneStream takes records away and changes none, and takes none at all when
\* the committed log is within its limit.
LEMMA Prunes ==
  ASSUME NEW f, IsFiniteSet(DOMAIN f), DOMAIN f \subseteq Nat, NEW kn \in Nat
  PROVE  /\ DOMAIN pruneStream(f, kn) \subseteq DOMAIN f
         /\ \A n \in DOMAIN pruneStream(f, kn) : pruneStream(f, kn)[n] = f[n]
         /\ kn <= StreamMax => DOMAIN pruneStream(f, kn) = DOMAIN f
         /\ \A n \in DOMAIN f : Cardinality({m \in DOMAIN f : m < n}) = kn =>
              n \in DOMAIN pruneStream(f, kn)
<1> DEFINE over == IF kn > StreamMax THEN kn - StreamMax ELSE 0
           kept == {n \in DOMAIN f : Cardinality({m \in DOMAIN f : m < n}) >= over}
<1>1. pruneStream(f, kn) = [n \in kept |-> f[n]]
  BY DEF pruneStream
<1>2. StreamMax \in Nat \ {0}
  BY DdbConstants
<1>3. over \in Nat /\ over <= kn /\ (kn <= StreamMax => over = 0)
  BY <1>2
<1>4. ASSUME NEW n \in DOMAIN f PROVE Cardinality({m \in DOMAIN f : m < n}) \in Nat
  <2>1. IsFiniteSet({m \in DOMAIN f : m < n})
    BY FS_Subset
  <2> QED
    BY <2>1, FS_CardinalityType
<1> HIDE DEF over
<1>5. kn <= StreamMax => kept = DOMAIN f
  <2> HAVE kn <= StreamMax
  <2>1. over = 0
    BY <1>3
  <2>2. \A n \in DOMAIN f : Cardinality({m \in DOMAIN f : m < n}) >= over
    BY <1>4, <2>1
  <2> QED
    BY <2>2
<1>6. \A n \in DOMAIN f : Cardinality({m \in DOMAIN f : m < n}) = kn => n \in kept
  BY <1>3
<1>7. kept \subseteq DOMAIN f
  OBVIOUS
<1> HIDE DEF kept
<1> QED
  BY <1>1, <1>5, <1>6, <1>7

\* writeItem (item.go): the row, its index entries and the record.
LEMMA IndexedWriteIs ==
  ASSUME NEW bs, NEW D, RowsWritten(bs, D), NEW k \in ItemKeys, NEW old, NEW new \in StoredRow,
         NEW w, w = IndexedWrite(bs, k, old, new)
  PROVE  RowsWritten(w, D \cup {k})
<1>1. PICK E : E = IF table.indexed THEN (bs.entries \ IndexEntries(k, old)) \cup IndexEntries(k, new)
                   ELSE bs.entries
  OBVIOUS
<1>3. bs = [rows |-> bs.rows, entries |-> bs.entries, log |-> bs.log, seq |-> bs.seq, keyN |-> bs.keyN]
      /\ bs.rows \in [ItemKeys -> StoredRow]
  BY DEF RowsWritten
<1>4. w = [rows |-> [bs.rows EXCEPT ![k] = new], entries |-> E, log |-> bs.log, seq |-> bs.seq,
           keyN |-> bs.keyN]
  BY <1>1, <1>3 DEF IndexedWrite
<1>5. /\ w.rows = [bs.rows EXCEPT ![k] = new] /\ w.entries = E /\ w.log = bs.log
      /\ w.seq = bs.seq /\ w.keyN = bs.keyN
      /\ w = [rows |-> w.rows, entries |-> w.entries, log |-> w.log, seq |-> w.seq, keyN |-> w.keyN]
  BY <1>4
<1>6. /\ w.rows \in [ItemKeys -> StoredRow] /\ w.rows[k] = new
      /\ \A x \in ItemKeys : x # k => w.rows[x] = bs.rows[x]
  BY <1>3, <1>5
<1>7. ASSUME table.indexed, NEW x \in ItemKeys PROVE IndexEntries(x, w.rows[x]) \subseteq w.entries
  <2>1. w.entries = (bs.entries \ IndexEntries(k, old)) \cup IndexEntries(k, new)
    BY <1>1, <1>5, <1>7
  <2>2. CASE x = k
    BY <1>6, <2>1, <2>2
  <2>3. CASE x # k
    <3>1. IndexEntries(x, w.rows[x]) \subseteq bs.entries
      BY <1>6, <1>7, <2>3 DEF RowsWritten
    <3>2. \A e \in IndexEntries(x, w.rows[x]) : e \notin IndexEntries(k, old)
      BY <2>3 DEF IndexEntries
    <3> QED
      BY <2>1, <3>1, <3>2
  <2> QED
    BY <2>2, <2>3
<1>8. \A x \in ItemKeys : x \notin D \cup {k} => w.rows[x] = rows[x]
  BY <1>6 DEF RowsWritten
<1> QED
  BY <1>5, <1>6, <1>7, <1>8 DEF RowsWritten

\* One more write keeps what the earlier ones did, if it is of another key.
LEMMA WriteKeeps ==
  ASSUME NEW bs, NEW D \in SUBSET ItemKeys, WritesDone(bs, D), lastSeq \in Nat,
         IsFiniteSet(DOMAIN log), \A n \in DOMAIN log : n \in Nat /\ n <= lastSeq,
         NEW k \in ItemKeys, k \notin D, NEW new \in StoredRow
  PROVE  WritesDone(writeItem(bs, k, loadItem(k), new), D \cup {k})
<1>1. PICK w : w = IndexedWrite(bs, k, loadItem(k), new)
  OBVIOUS
<1>2. PICK v : v = writeItem(bs, k, loadItem(k), new)
  OBVIOUS
<1>3. /\ RowsWritten(w, D \cup {k}) /\ w.rows[k] = new
      /\ \A x \in ItemKeys : x # k => w.rows[x] = bs.rows[x]
      /\ w.log = bs.log /\ w.seq = bs.seq /\ w.keyN = bs.keyN
  <2>1. RowsWritten(bs, D)
    BY DEF WritesDone
  <2>2. RowsWritten(w, D \cup {k})
    BY <1>1, <2>1, IndexedWriteIs
  <2>3. bs = [rows |-> bs.rows, entries |-> bs.entries, log |-> bs.log, seq |-> bs.seq, keyN |-> bs.keyN]
        /\ bs.rows \in [ItemKeys -> StoredRow]
    BY <2>1 DEF RowsWritten
  <2>4. PICK E : w = [rows |-> [bs.rows EXCEPT ![k] = new], entries |-> E, log |-> bs.log,
                      seq |-> bs.seq, keyN |-> bs.keyN]
    BY <1>1, <2>3 DEF IndexedWrite
  <2>5. /\ w.rows = [bs.rows EXCEPT ![k] = new]
        /\ w.log = bs.log /\ w.seq = bs.seq /\ w.keyN = bs.keyN
    BY <2>4
  <2> QED
    BY <2>2, <2>3, <2>5
<1>4. \A x \in D : w.rows[x] = bs.rows[x]
  BY <1>3
<1>5. CASE ~table.streamed \/ (~loadItem(k).there /\ ~new.there)
  <2>1. v = w
    BY <1>1, <1>2, <1>5 DEF writeItem, captureStream
  <2>2. LogFits(w)
    BY <1>3 DEF LogFits, WritesDone
  <2>3. Recorded(w, D \cup {k})
    <3> SUFFICES ASSUME table.streamed, w.seq <= lastSeq + 1 \/ w.keyN <= StreamMax,
                        NEW x \in D \cup {k}, loadItem(x).there \/ w.rows[x].there
                 PROVE  RecordIn(w, x)
      BY DEF Recorded
    <3>1. x \in D
      BY <1>3, <1>5
    <3>2. RecordIn(bs, x)
      BY <1>3, <1>4, <3>1 DEF WritesDone, Recorded
    <3> QED
      BY <1>3, <1>4, <3>1, <3>2 DEF RecordIn
  <2> QED
    BY <1>2, <1>3, <2>1, <2>2, <2>3 DEF WritesDone
<1>6. CASE table.streamed /\ (loadItem(k).there \/ new.there)
  <2>1. PICK f : f = [n \in DOMAIN bs.log \cup {bs.seq + 1} |->
                        IF n = bs.seq + 1 THEN RecordOf(k, new) ELSE bs.log[n]]
    OBVIOUS
  <2>2. PICK g : g = pruneStream(f, bs.keyN)
    OBVIOUS
  <2>3. w = [rows |-> w.rows, entries |-> w.entries, log |-> w.log, seq |-> w.seq, keyN |-> w.keyN]
    BY <1>3 DEF RowsWritten
  <2>4. v = [w EXCEPT !.seq = bs.seq + 1, !.log = g]
    BY <1>1, <1>2, <1>3, <1>6, <2>1, <2>2, <2>3 DEF writeItem, captureStream, RecordOf
  <2>5. /\ v.rows = w.rows /\ v.entries = w.entries /\ v.log = g /\ v.seq = bs.seq + 1
        /\ v.keyN = bs.keyN
        /\ v = [rows |-> v.rows, entries |-> v.entries, log |-> v.log, seq |-> v.seq, keyN |-> v.keyN]
    BY <1>3, <2>3, <2>4
  <2>6. RowsWritten(v, D \cup {k})
    BY <1>3, <2>5 DEF RowsWritten
  <2>7. /\ bs.keyN = Cardinality(DOMAIN log) /\ bs.keyN \in Nat /\ bs.seq \in Nat /\ bs.seq >= lastSeq
        /\ IsFiniteSet(DOMAIN bs.log) /\ \A n \in DOMAIN bs.log : n \in Nat /\ n <= bs.seq
        /\ \A n \in DOMAIN bs.log : n <= lastSeq => n \in DOMAIN log /\ bs.log[n] = log[n]
        /\ bs.seq = lastSeq => DOMAIN bs.log = DOMAIN log
    BY FS_CardinalityType DEF WritesDone, LogFits
  <2>8. /\ DOMAIN f = DOMAIN bs.log \cup {bs.seq + 1}
        /\ f[bs.seq + 1] = RecordOf(k, new)
        /\ \A n \in DOMAIN bs.log : n # bs.seq + 1 => f[n] = bs.log[n]
    BY <2>1
  <2>9. \A n \in DOMAIN bs.log : n # bs.seq + 1
    BY <2>7
  <2>10. IsFiniteSet(DOMAIN f) /\ DOMAIN f \subseteq Nat
    <3>1. IsFiniteSet(DOMAIN bs.log \cup {bs.seq + 1})
      BY <2>7, FS_AddElement
    <3>2. DOMAIN bs.log \cup {bs.seq + 1} \subseteq Nat
      BY <2>7
    <3> QED
      BY <2>8, <3>1, <3>2
  <2>11. /\ DOMAIN g \subseteq DOMAIN f
         /\ \A n \in DOMAIN g : g[n] = f[n]
         /\ bs.keyN <= StreamMax => DOMAIN g = DOMAIN f
         /\ \A n \in DOMAIN f : Cardinality({m \in DOMAIN f : m < n}) = bs.keyN => n \in DOMAIN g
    BY <2>2, <2>7, <2>10, Prunes
  <2>12. LogFits(v)
    <3>1. v.seq \in Nat /\ v.seq >= lastSeq /\ v.seq # lastSeq
      BY <2>5, <2>7
    <3>2. IsFiniteSet(DOMAIN v.log)
      BY <2>5, <2>10, <2>11, FS_Subset
    <3>3. \A n \in DOMAIN g : n \in Nat /\ n <= bs.seq + 1
      <4>1. \A n \in DOMAIN f : n \in Nat /\ n <= bs.seq + 1
        BY <2>7, <2>8
      <4> QED
        BY <2>11, <4>1
    <3>4. \A n \in DOMAIN g : n <= lastSeq => n \in DOMAIN bs.log /\ g[n] = bs.log[n]
      <4>1. ~(bs.seq + 1 <= lastSeq)
        BY <2>7
      <4> QED
        BY <2>8, <2>9, <2>11, <4>1
    <3>5. \A n \in DOMAIN v.log : n <= lastSeq => n \in DOMAIN log /\ v.log[n] = log[n]
      BY <2>5, <2>7, <3>4
    <3>6. \A n \in DOMAIN v.log : n \in Nat /\ n <= v.seq
      BY <2>5, <3>3
    <3> QED
      BY <2>5, <2>7, <3>1, <3>2, <3>5, <3>6 DEF LogFits
  <2>13. Recorded(v, D \cup {k})
    <3> SUFFICES ASSUME v.seq <= lastSeq + 1 \/ v.keyN <= StreamMax,
                        NEW x \in D \cup {k}, loadItem(x).there \/ v.rows[x].there
                 PROVE  RecordIn(v, x)
      BY DEF Recorded
    <3>1. bs.keyN <= StreamMax \/ bs.seq = lastSeq
      BY <2>5, <2>7
    <3>2. bs.seq + 1 \in DOMAIN g
      <4>1. CASE bs.keyN <= StreamMax
        BY <2>8, <2>11, <4>1
      <4>2. CASE bs.seq = lastSeq
        <5>1. {m \in DOMAIN f : m < bs.seq + 1} = DOMAIN log
          <6>1. DOMAIN f = DOMAIN log \cup {bs.seq + 1}
            BY <2>7, <2>8, <4>2
          <6>2. \A m \in DOMAIN log : m < bs.seq + 1
            BY <2>7, <4>2
          <6>3. ~(bs.seq + 1 < bs.seq + 1)
            BY <2>7
          <6> QED
            BY <6>1, <6>2, <6>3
        <5> QED
          BY <2>7, <2>8, <2>11, <5>1
      <4> QED
        BY <3>1, <4>1, <4>2
    <3>3. CASE x = k
      <4>1. bs.seq + 1 > lastSeq
        BY <2>7
      <4>2. v.log[bs.seq + 1] = RecordOf(k, v.rows[k])
        BY <1>3, <2>5, <2>8, <2>11, <3>2
      <4> QED
        BY <2>5, <3>2, <3>3, <4>1, <4>2 DEF RecordIn
    <3>4. CASE x \in D
      <4>1. bs.seq <= lastSeq + 1 \/ bs.keyN <= StreamMax
        BY <2>7, <3>1
      <4>2. loadItem(x).there \/ bs.rows[x].there
        BY <1>4, <2>5, <3>4
      <4>3. RecordIn(bs, x)
        BY <1>6, <3>4, <4>1, <4>2 DEF WritesDone, Recorded
      <4>4. PICK n \in DOMAIN bs.log : n > lastSeq /\ bs.log[n] = RecordOf(x, bs.rows[x])
        BY <4>3 DEF RecordIn
      <4>5. bs.keyN <= StreamMax
        <5>1. ~(bs.seq = lastSeq)
          BY <2>7, <4>4
        <5> QED
          BY <3>1, <5>1
      <4>6. n \in DOMAIN g /\ g[n] = bs.log[n]
        BY <2>8, <2>9, <2>11, <4>5
      <4>7. RecordOf(x, v.rows[x]) = g[n]
        BY <1>4, <2>5, <3>4, <4>4, <4>6
      <4> QED
        BY <2>5, <4>4, <4>6, <4>7 DEF RecordIn
    <3> QED
      BY <3>3, <3>4
  <2> QED
    BY <1>2, <2>6, <2>12, <2>13 DEF WritesDone
<1> QED
  BY <1>5, <1>6

-----------------------------------------------------------------------------
(* DynamoDB: the table, its indexes, its stream and its tokens.            *)

\* The table and its rows.
TableFits ==
  /\ table \in [there : BOOLEAN, streamed : BOOLEAN, indexed : BOOLEAN, ttl : BOOLEAN]
  /\ rows \in [ItemKeys -> StoredRow]
  /\ doomed \subseteq ItemKeys
  /\ ~table.there => \A k \in ItemKeys : rows[k] = NoRow

\* The log holds finitely many records, numbered up to the last.
LogFinite == lastSeq \in Nat /\ IsFiniteSet(DOMAIN log) /\ \A n \in DOMAIN log : n \in Nat /\ n <= lastSeq

\* A token that was used is remembered from its use for TokenTTL.
TokensFit ==
  /\ ddbClock \in Nat
  /\ txRecords \in [TxTokens -> Nat]
  /\ applied \in [TxTokens -> [times : Nat, last : Nat]]
  /\ \A t \in TxTokens : applied[t].times > 0 => txRecords[t] = applied[t].last + TokenTTL

\* The inductive invariant of the table.
TableInv == TableFits /\ LogFinite /\ IndexCovers /\ TokensFit

\* The first part of TableHistory, of one step: visible changes are recorded.
ChangeStep ==
  \A k \in ItemKeys :
       (/\ table.streamed /\ table' = table /\ ddbClock' = ddbClock
        /\ lastSeq' = lastSeq + 1 \/ Cardinality(DOMAIN log) <= StreamMax
        /\ loadItem(k) # loadItem(k)') =>
       \E n \in DOMAIN log' :
         /\ n > lastSeq
         /\ log'[n] = [key |-> k, event |-> EventName(loadItem(k), rows'[k])]

\* The second: records keep their numbers, and no number is used again.
SequenceStep ==
  /\ lastSeq' >= lastSeq
  /\ \A n \in DOMAIN log' : n <= lastSeq => n \in DOMAIN log /\ log'[n] = log[n]

\* The third: a token is applied again only after it has expired.
TokenStep ==
  \A t \in TxTokens : (applied[t].times > 0 /\ applied'[t] # applied[t]) =>
       applied'[t].last >= applied[t].last + TokenTTL

\* What the rows of the model are.
LEMMA RowFacts ==
  /\ NoRow \in StoredRow /\ ~NoRow.there /\ NoRow.ix = {}
  /\ \A row \in StoredRow : ~row.there => row = NoRow
  /\ \A row \in StoredRow : row.there => row \in Items
<1>1. NoRow \in StoredRow /\ ~NoRow.there /\ NoRow.ix = {}
  BY DEF StoredRow, NoRow
<1>2. \A row \in Items : row.there = TRUE
  BY DEF Items
<1>3. \A row \in StoredRow : row \in Items \/ row = NoRow
  BY DEF StoredRow
<1> QED
  BY <1>1, <1>2, <1>3

\* loadItem shows the stored row, or none once it has expired.
LEMMA LoadFacts ==
  ASSUME TableFits, NEW k \in ItemKeys
  PROVE  loadItem(k) \in StoredRow /\ (~loadItem(k).there => loadItem(k) = NoRow)
<1>1. rows[k] \in StoredRow
  BY DEF TableFits
<1>2. loadItem(k) = rows[k] \/ loadItem(k) = NoRow
  BY DEF loadItem
<1> QED
  BY <1>1, <1>2, RowFacts

\* An operation leaves a row of the model.
LEMMA NextRowFits ==
  ASSUME NEW op \in WriteOps, op.kind # "check", NEW now \in StoredRow
  PROVE  NextRow(op, now) \in StoredRow
<1>1. op.kind \in {"put", "update", "delete", "check"} /\ op.row \in Items
  BY DdbConstants DEF WriteOp
<1>2. CASE op.kind = "put"
  BY <1>1, <1>2 DEF NextRow, StoredRow
<1>3. CASE op.kind = "update"
  <2>1. op.row.ix \in {{}} \cup {{x} : x \in IndexKeys}
    BY <1>1 DEF Items
  <2>2. CASE now.there
    <3>1. now \in Items
      BY <2>2, RowFacts
    <3>2. [now EXCEPT !.ix = op.row.ix] \in Items
      BY <2>1, <3>1 DEF Items
    <3> QED
      BY <1>3, <2>2, <3>2 DEF NextRow, StoredRow
  <2>3. CASE ~now.there
    <3>1. [ix |-> op.row.ix, dies |-> {}, there |-> TRUE] \in Items
      BY <2>1 DEF Items
    <3> QED
      BY <1>3, <2>3, <3>1 DEF NextRow, StoredRow
  <2> QED
    BY <2>2, <2>3
<1>4. CASE op.kind = "delete"
  BY <1>4, RowFacts DEF NextRow
<1> QED
  BY <1>1, <1>2, <1>3, <1>4

\* Before the first write nothing is done.
LEMMA BucketsDone ==
  ASSUME TableInv
  PROVE  WritesDone(Buckets, {})
<1>1. PICK bs : bs = Buckets
  OBVIOUS
<1>2. /\ bs.rows = rows /\ bs.entries = entries /\ bs.log = log /\ bs.seq = lastSeq
      /\ bs.keyN = Cardinality(DOMAIN log)
      /\ bs = [rows |-> bs.rows, entries |-> bs.entries, log |-> bs.log, seq |-> bs.seq,
               keyN |-> bs.keyN]
  BY <1>1 DEF Buckets
<1>3. RowsWritten(bs, {})
  BY <1>2 DEF RowsWritten, TableInv, TableFits, IndexCovers
<1>4. LogFits(bs)
  <2>1. lastSeq >= lastSeq
    BY DEF TableInv, LogFinite
  <2> QED
    BY <1>2, <2>1 DEF LogFits, TableInv, LogFinite
<1>5. Recorded(bs, {})
  BY DEF Recorded
<1> QED
  BY <1>1, <1>3, <1>4, <1>5 DEF WritesDone

\* What the writes did, committed, is a step that keeps the invariant and the
\* history.
LEMMA CommitKeeps ==
  ASSUME TableInv, NEW bs, NEW D \in SUBSET ItemKeys, WritesDone(bs, D), Committed(bs),
         table.there, UNCHANGED <<table, ddbClock>>
  PROVE  /\ rows' \in [ItemKeys -> StoredRow] /\ LogFinite' /\ IndexCovers'
         /\ ChangeStep /\ SequenceStep
<1>1. rows' = bs.rows /\ entries' = bs.entries /\ log' = bs.log /\ lastSeq' = bs.seq
  BY DEF Committed
<1>2. /\ bs.rows \in [ItemKeys -> StoredRow]
      /\ \A k \in ItemKeys : k \notin D => bs.rows[k] = rows[k]
      /\ table.indexed => \A k \in ItemKeys : IndexEntries(k, bs.rows[k]) \subseteq bs.entries
  BY DEF WritesDone, RowsWritten
<1>3. LogFits(bs)
  BY DEF WritesDone
<1>4. LogFinite'
  BY <1>1, <1>3 DEF LogFits, LogFinite
<1>5. IndexCovers'
  BY <1>1, <1>2 DEF IndexCovers, IndexEntries
<1>6. SequenceStep
  BY <1>1, <1>3 DEF LogFits, SequenceStep
<1>7. ChangeStep
  <2> SUFFICES ASSUME NEW k \in ItemKeys, table.streamed,
                      lastSeq' = lastSeq + 1 \/ Cardinality(DOMAIN log) <= StreamMax,
                      loadItem(k) # loadItem(k)'
               PROVE  \E n \in DOMAIN log' :
                        /\ n > lastSeq
                        /\ log'[n] = [key |-> k, event |-> EventName(loadItem(k), rows'[k])]
    BY DEF ChangeStep
  <2>1. TableFits /\ lastSeq \in Nat
    BY DEF TableInv, LogFinite
  <2>2. loadItem(k)' = IF rows'[k].there /\ ~ItemExpired(rows'[k]) THEN rows'[k] ELSE NoRow
    BY DEF loadItem, ItemExpired
  <2>3. k \in D
    <3> SUFFICES ASSUME rows'[k] = rows[k] PROVE FALSE
      BY <1>1, <1>2
    <3>1. loadItem(k) = IF rows'[k].there /\ ~ItemExpired(rows'[k]) THEN rows'[k] ELSE NoRow
      BY DEF loadItem
    <3> QED
      BY <2>2, <3>1
  <2>4. loadItem(k).there \/ bs.rows[k].there
    <3> SUFFICES ASSUME ~loadItem(k).there, ~bs.rows[k].there PROVE FALSE
      OBVIOUS
    <3>1. loadItem(k) = NoRow
      BY <2>1, LoadFacts
    <3>2. loadItem(k)' = NoRow
      BY <1>1, <2>2
    <3> QED
      BY <3>1, <3>2
  <2>5. bs.seq <= lastSeq + 1 \/ bs.keyN <= StreamMax
    <3>1. bs.keyN = Cardinality(DOMAIN log) /\ bs.seq \in Nat
      BY <1>3 DEF LogFits
    <3>2. CASE lastSeq' = lastSeq + 1
      BY <1>1, <2>1, <3>1, <3>2
    <3>3. CASE Cardinality(DOMAIN log) <= StreamMax
      BY <3>1, <3>3
    <3> QED
      BY <3>2, <3>3
  <2>6. RecordIn(bs, k)
    BY <2>3, <2>4, <2>5 DEF WritesDone, Recorded
  <2> QED
    BY <1>1, <2>6 DEF RecordIn, RecordOf
<1> QED
  BY <1>1, <1>2, <1>4, <1>5, <1>6, <1>7

\* One item is written.
LEMMA OneWrite ==
  ASSUME TableInv, NEW k \in ItemKeys, NEW new \in StoredRow
  PROVE  WritesDone(writeItem(Buckets, k, loadItem(k), new), {k})
<1>1. PICK bs : bs = Buckets
  OBVIOUS
<1>2. WritesDone(bs, {})
  BY <1>1, BucketsDone
<1>3. WritesDone(writeItem(bs, k, loadItem(k), new), {} \cup {k})
  BY <1>2, WriteKeeps DEF TableInv, LogFinite
<1>4. {} \cup {k} = {k}
  OBVIOUS
<1> QED
  BY <1>1, <1>3, <1>4

\* The writes of a transaction, in order.
LEMMA TransactionWrites ==
  ASSUME TableInv, NEW ops \in Transactions
  PROVE  \E D \in SUBSET ItemKeys : WritesDone(Applied(ops), D)
<1>1. /\ Len(ops) \in Nat /\ DOMAIN ops = 1..Len(ops)
      /\ \A i \in 1..Len(ops) : ops[i] \in WriteOps
      /\ \A i, j \in 1..Len(ops) : ops[i].key = ops[j].key => i = j
  <2>1. ops \in SeqOf(WriteOps, TxMax) /\ \A i, j \in DOMAIN ops : ops[i].key = ops[j].key => i = j
    BY DEF Transactions
  <2>2. PICK m \in 0..TxMax : ops \in [1..m -> WriteOps]
    BY <2>1 DEF SeqOf
  <2>3. m \in Nat
    BY <2>2, DdbConstants
  <2>4. ops \in Seq(WriteOps)
    BY <2>2, <2>3
  <2>5. Len(ops) = m /\ DOMAIN ops = 1..m
    BY <2>2, <2>3, <2>4
  <2> QED
    BY <2>1, <2>2, <2>3, <2>5
<1>2. PICK f : /\ f[0] = Buckets
               /\ \A n \in 1..Len(ops) : f[n] = PlannedWrite(f[n - 1], ops[n])
               /\ Applied(ops) = f[Len(ops)]
  BY <1>1, AppliedInSteps
<1> DEFINE D(n) == {ops[i].key : i \in {j \in 1..n : ops[j].kind # "check"}}
           Bad == {n \in 0..Len(ops) : ~WritesDone(f[n], D(n))}
<1>3. \A i \in 1..Len(ops) : ops[i].key \in ItemKeys
  BY <1>1, DdbConstants DEF WriteOp
<1>4. ASSUME NEW n \in 0..Len(ops) PROVE D(n) \in SUBSET ItemKeys
  BY <1>1, <1>3
<1>5. ASSUME NEW n \in 1..Len(ops), WritesDone(f[n - 1], D(n - 1)) PROVE WritesDone(f[n], D(n))
  <2>1. n \in Nat /\ n - 1 \in 0..Len(ops) /\ 1..(n - 1) \subseteq 1..Len(ops)
        /\ 1..n = 1..(n - 1) \cup {n} /\ n \notin 1..(n - 1)
    BY <1>1
  <2>2. f[n] = PlannedWrite(f[n - 1], ops[n])
    BY <1>2
  <2>3. CASE ops[n].kind = "check"
    <3>1. D(n) = D(n - 1)
      BY <2>1, <2>3
    <3>2. f[n] = f[n - 1]
      BY <2>2, <2>3 DEF PlannedWrite
    <3> HIDE DEF D
    <3> QED
      BY <1>5, <3>1, <3>2
  <2>4. CASE ops[n].kind # "check"
    <3>1. PICK op : op = ops[n]
      OBVIOUS
    <3>2. op \in WriteOps /\ op.key \in ItemKeys /\ op.kind # "check"
      BY <1>1, <1>3, <2>4, <3>1
    <3>3. D(n) = D(n - 1) \cup {op.key}
      BY <2>1, <2>4, <3>1
    <3>4. op.key \notin D(n - 1)
      BY <1>1, <2>1, <3>1
    <3>5. D(n - 1) \in SUBSET ItemKeys
      BY <1>4, <2>1
    <3> HIDE DEF D
    <3>6. PICK new : new = NextRow(op, loadItem(op.key))
      OBVIOUS
    <3>7. new \in StoredRow
      <4>1. loadItem(op.key) \in StoredRow
        BY <3>2, LoadFacts DEF TableInv
      <4> QED
        BY <3>2, <3>6, <4>1, NextRowFits
    <3>8. f[n] = writeItem(f[n - 1], op.key, loadItem(op.key), new)
      BY <2>2, <3>1, <3>2, <3>6 DEF PlannedWrite
    <3>9. WritesDone(writeItem(f[n - 1], op.key, loadItem(op.key), new), D(n - 1) \cup {op.key})
      BY <1>5, <3>2, <3>4, <3>5, <3>7, WriteKeeps DEF TableInv, LogFinite
    <3> QED
      BY <3>3, <3>8, <3>9
  <2> QED
    BY <2>3, <2>4
<1>6. Bad = {}
  <2> SUFFICES ASSUME Bad # {} PROVE FALSE
    OBVIOUS
  <2>1. Bad \in SUBSET Nat
    BY <1>1
  <2>2. PICK n \in Bad : \A m \in Bad : n <= m
    <3> HIDE DEF Bad
    <3> QED
      BY <2>1, LeastNat
  <2>3. n \in 0..Len(ops) /\ ~WritesDone(f[n], D(n))
    BY <2>2
  <2>4. n # 0
    <3> SUFFICES ASSUME n = 0 PROVE FALSE
      OBVIOUS
    <3>1. D(0) = {}
      OBVIOUS
    <3> HIDE DEF D
    <3> QED
      BY <1>2, <2>3, <3>1, BucketsDone
  <2>5. n \in 1..Len(ops) /\ n - 1 \in 0..Len(ops) /\ ~(n <= n - 1)
    BY <1>1, <2>3, <2>4
  <2>6. n - 1 \notin Bad
    <3> HIDE DEF Bad
    <3> QED
      BY <2>2, <2>5
  <2>7. WritesDone(f[n - 1], D(n - 1))
    <3> HIDE DEF D
    <3> QED
      BY <2>5, <2>6
  <2>8. WritesDone(f[n], D(n))
    <3> HIDE DEF D, Bad
    <3> QED
      BY <1>5, <2>5, <2>7
  <2> QED
    BY <2>3, <2>8
<1>7. Len(ops) \in 0..Len(ops)
  BY <1>1
<1>8. WritesDone(f[Len(ops)], D(Len(ops)))
  <2> HIDE DEF D
  <2> QED
    BY <1>6, <1>7
<1> HIDE DEF D
<1> QED
  BY <1>2, <1>4, <1>7, <1>8

\* No table.
LEMMA TableInit == DdbInit => TableInv
<1> SUFFICES ASSUME DdbInit PROVE TableInv
  OBVIOUS
<1>1. TableFits
  <2>1. table \in [there : BOOLEAN, streamed : BOOLEAN, indexed : BOOLEAN, ttl : BOOLEAN]
    BY DEF DdbInit, NoTable
  <2>2. rows \in [ItemKeys -> StoredRow] /\ \A k \in ItemKeys : rows[k] = NoRow
    BY RowFacts DEF DdbInit
  <2>3. doomed \subseteq ItemKeys
    BY DEF DdbInit
  <2> QED
    BY <2>1, <2>2, <2>3 DEF TableFits
<1>2. LogFinite
  <2>1. DOMAIN log = {} /\ lastSeq = 0
    BY DEF DdbInit
  <2>2. IsFiniteSet({})
    BY FS_EmptySet
  <2> QED
    BY <2>1, <2>2 DEF LogFinite
<1>3. IndexCovers
  BY DEF DdbInit, NoTable, IndexCovers
<1>4. TokensFit
  <2>1. \A t \in TxTokens : applied[t].times = 0
    BY DEF DdbInit
  <2>2. ddbClock \in Nat /\ txRecords \in [TxTokens -> Nat]
    BY DEF DdbInit
  <2>3. applied \in [TxTokens -> [times : Nat, last : Nat]]
    BY DEF DdbInit
  <2> QED
    BY <2>1, <2>2, <2>3 DEF TokensFit
<1> QED
  BY <1>1, <1>2, <1>3, <1>4 DEF TableInv

\* Every step keeps the invariant and the history.
LEMMA TableStep ==
  ASSUME TableInv, [DdbNext]_ddbVars
  PROVE  TableInv' /\ (ChangeStep /\ SequenceStep /\ TokenStep)
<1>0. /\ TableFits /\ LogFinite /\ IndexCovers /\ TokensFit
      /\ lastSeq \in Nat /\ ddbClock \in Nat
  BY DEF TableInv, LogFinite, TokensFit
\* the log stays as it is
<1>1. ASSUME UNCHANGED <<log, lastSeq>> PROVE LogFinite' /\ SequenceStep
  <2>1. lastSeq' >= lastSeq
    BY <1>0, <1>1
  <2> QED
    BY <1>0, <1>1, <2>1 DEF LogFinite, SequenceStep
\* the tokens stay as they are
<1>2. ASSUME UNCHANGED <<txRecords, applied, ddbClock>> PROVE TokensFit' /\ TokenStep
  BY <1>0, <1>2 DEF TokensFit, TokenStep
\* the rows stay, or the definition of the table changes
<1>3. ASSUME UNCHANGED <<table, rows>> \/ table' # table \/ ddbClock' # ddbClock PROVE ChangeStep
  <2> SUFFICES ASSUME UNCHANGED <<table, rows, ddbClock>> PROVE ChangeStep
    BY <1>3 DEF ChangeStep
  <2>1. \A k \in ItemKeys : loadItem(k)' = loadItem(k)
    BY DEF loadItem, ItemExpired
  <2> QED
    BY <2>1 DEF ChangeStep
<1>4. ASSUME NEW bs, NEW D \in SUBSET ItemKeys, WritesDone(bs, D), Committed(bs), table.there,
             UNCHANGED <<table, ddbClock>>, doomed' \subseteq ItemKeys
      PROVE  TableFits' /\ LogFinite' /\ IndexCovers' /\ ChangeStep /\ SequenceStep
  <2>1. rows' \in [ItemKeys -> StoredRow] /\ LogFinite' /\ IndexCovers' /\ ChangeStep /\ SequenceStep
    BY <1>4, CommitKeeps
  <2>2. TableFits'
    BY <1>0, <1>4, <2>1 DEF TableFits
  <2> QED
    BY <2>1, <2>2
\* nothing but rows, entries, doomed and the log changes, and these as one item
\* is written
<1>5. ASSUME NEW k \in ItemKeys, NEW new \in StoredRow,
             Committed(writeItem(Buckets, k, loadItem(k), new)), table.there,
             UNCHANGED <<table, txRecords, applied, ddbClock>>, doomed' \subseteq ItemKeys
      PROVE  TableInv' /\ (ChangeStep /\ SequenceStep /\ TokenStep)
  <2>1. PICK bs : bs = writeItem(Buckets, k, loadItem(k), new)
    OBVIOUS
  <2>2. WritesDone(bs, {k}) /\ Committed(bs)
    BY <1>5, <2>1, OneWrite
  <2>3. {k} \in SUBSET ItemKeys
    OBVIOUS
  <2>4. TableFits' /\ LogFinite' /\ IndexCovers' /\ ChangeStep /\ SequenceStep
    BY <1>4, <1>5, <2>2, <2>3
  <2> QED
    BY <1>2, <1>5, <2>4 DEF TableInv
\* nothing but doomed changes
<1>6. ASSUME UNCHANGED <<table, rows, entries, log, lastSeq, txRecords, applied, ddbClock>>,
             doomed' \subseteq ItemKeys
      PROVE  TableInv' /\ (ChangeStep /\ SequenceStep /\ TokenStep)
  <2>1. TableFits' /\ IndexCovers'
    BY <1>0, <1>6 DEF TableFits, IndexCovers, IndexEntries
  <2> QED
    BY <1>1, <1>2, <1>3, <1>6, <2>1 DEF TableInv
<1>7. ASSUME NEW streamed \in BOOLEAN, NEW indexed \in BOOLEAN, CreateTable(streamed, indexed)
      PROVE  TableInv' /\ (ChangeStep /\ SequenceStep /\ TokenStep)
  <2>1. /\ ~table.there
        /\ table' = [there |-> TRUE, streamed |-> streamed, indexed |-> indexed, ttl |-> FALSE]
        /\ UNCHANGED <<rows, entries, log, lastSeq, doomed, txRecords, applied, ddbClock>>
    BY <1>7 DEF CreateTable
  <2>2. table' \in [there : BOOLEAN, streamed : BOOLEAN, indexed : BOOLEAN, ttl : BOOLEAN]
        /\ table'.there
    BY <2>1
  <2>3. TableFits'
    BY <1>0, <2>1, <2>2 DEF TableFits
  <2>4. \A k \in ItemKeys : rows'[k] = NoRow
    BY <1>0, <2>1 DEF TableFits
  <2>5. IndexCovers'
    BY <2>4, RowFacts DEF IndexCovers, IndexEntries
  <2>6. table' # table
    BY <2>1, <2>2
  <2> QED
    BY <1>1, <1>2, <1>3, <2>1, <2>3, <2>5, <2>6 DEF TableInv
<1>8. CASE DeleteTable
  <2>1. /\ table.there /\ table' = NoTable /\ rows' = [k \in ItemKeys |-> NoRow]
        /\ UNCHANGED <<log, lastSeq, doomed, txRecords, applied, ddbClock>>
    BY <1>8 DEF DeleteTable
  <2>2. table' \in [there : BOOLEAN, streamed : BOOLEAN, indexed : BOOLEAN, ttl : BOOLEAN]
        /\ ~table'.there /\ ~table'.indexed
    BY <2>1 DEF NoTable
  <2>3. rows' \in [ItemKeys -> StoredRow] /\ \A k \in ItemKeys : rows'[k] = NoRow
    BY <2>1, RowFacts
  <2>4. TableFits'
    BY <1>0, <2>1, <2>2, <2>3 DEF TableFits
  <2>5. IndexCovers'
    BY <2>2 DEF IndexCovers
  <2>6. table' # table
    BY <2>1, <2>2
  <2> QED
    BY <1>1, <1>2, <1>3, <2>1, <2>4, <2>5, <2>6 DEF TableInv
<1>9. CASE UpdateTableIndex
  <2>1. /\ table.there /\ table' = [table EXCEPT !.indexed = ~@]
        /\ entries' = IF table.indexed THEN {} ELSE backfillIndex
        /\ UNCHANGED <<rows, log, lastSeq, doomed, txRecords, applied, ddbClock>>
    BY <1>9 DEF UpdateTableIndex
  <2>2. /\ table' \in [there : BOOLEAN, streamed : BOOLEAN, indexed : BOOLEAN, ttl : BOOLEAN]
        /\ table'.there /\ table'.indexed = ~table.indexed
    BY <1>0, <2>1 DEF TableFits
  <2>3. TableFits'
    BY <1>0, <2>1, <2>2 DEF TableFits
  <2>4. IndexCovers'
    <3> SUFFICES ASSUME table'.indexed, NEW k \in ItemKeys
                 PROVE  IndexEntries(k, rows'[k]) \subseteq entries'
      BY DEF IndexCovers, IndexEntries
    <3>1. entries' = backfillIndex /\ rows'[k] = rows[k]
      BY <2>1, <2>2
    <3>2. IndexEntries(k, rows[k]) \subseteq backfillIndex
      BY DEF backfillIndex
    <3> QED
      BY <3>1, <3>2
  <2>5. table' # table
    BY <2>2
  <2> QED
    BY <1>1, <1>2, <1>3, <2>1, <2>3, <2>4, <2>5 DEF TableInv
<1>10. CASE UpdateTimeToLive
  <2>1. /\ table.there /\ table' = [table EXCEPT !.ttl = ~@]
        /\ UNCHANGED <<rows, entries, log, lastSeq, doomed, txRecords, applied, ddbClock>>
    BY <1>10 DEF UpdateTimeToLive
  <2>2. /\ table' \in [there : BOOLEAN, streamed : BOOLEAN, indexed : BOOLEAN, ttl : BOOLEAN]
        /\ table'.there /\ table'.indexed = table.indexed /\ table'.ttl = ~table.ttl
    BY <1>0, <2>1 DEF TableFits
  <2>3. TableFits'
    BY <1>0, <2>1, <2>2 DEF TableFits
  <2>4. IndexCovers'
    BY <1>0, <2>1, <2>2 DEF IndexCovers, IndexEntries
  <2>5. table' # table
    BY <2>2
  <2> QED
    BY <1>1, <1>2, <1>3, <2>1, <2>3, <2>4, <2>5 DEF TableInv
<1>11. ASSUME NEW k \in ItemKeys, Deleted(k), UNCHANGED <<table, txRecords, applied, ddbClock>>,
              doomed' \subseteq ItemKeys
       PROVE  TableInv' /\ (ChangeStep /\ SequenceStep /\ TokenStep)
  <2>1. CASE table.there /\ loadItem(k).there
    <3>1. Committed(writeItem(Buckets, k, loadItem(k), NoRow))
      BY <1>11, <2>1 DEF Deleted
    <3> QED
      BY <1>5, <1>11, <2>1, <3>1, RowFacts
  <2>2. CASE ~(table.there /\ loadItem(k).there)
    <3>1. UNCHANGED <<rows, entries, log, lastSeq>>
      BY <1>11, <2>2 DEF Deleted
    <3> QED
      BY <1>6, <1>11, <3>1
  <2> QED
    BY <2>1, <2>2
<1>12. ASSUME NEW op \in WriteOps, PutItem(op)
       PROVE  TableInv' /\ (ChangeStep /\ SequenceStep /\ TokenStep)
  <2>1. /\ op.kind \in {"put", "update"} /\ table.there
        /\ Committed(writeItem(Buckets, op.key, loadItem(op.key), NextRow(op, loadItem(op.key))))
        /\ UNCHANGED <<table, doomed, txRecords, applied, ddbClock>>
    BY <1>12 DEF PutItem
  <2>2. op.key \in ItemKeys
    BY DdbConstants DEF WriteOp
  <2>3. loadItem(op.key) \in StoredRow
    BY <1>0, <2>2, LoadFacts
  <2>4. PICK new : new = NextRow(op, loadItem(op.key))
    OBVIOUS
  <2>5. new \in StoredRow
    BY <2>1, <2>3, <2>4, NextRowFits
  <2>6. doomed' \subseteq ItemKeys
    BY <1>0, <2>1 DEF TableFits
  <2>7. Committed(writeItem(Buckets, op.key, loadItem(op.key), new))
    BY <2>1, <2>4
  <2> QED
    BY <1>5, <2>1, <2>2, <2>5, <2>6, <2>7
<1>13. ASSUME NEW op \in WriteOps, DeleteItem(op)
       PROVE  TableInv' /\ (ChangeStep /\ SequenceStep /\ TokenStep)
  <2>1. Deleted(op.key) /\ UNCHANGED <<table, doomed, txRecords, applied, ddbClock>>
    BY <1>13 DEF DeleteItem
  <2>2. op.key \in ItemKeys
    BY DdbConstants DEF WriteOp
  <2>3. doomed' \subseteq ItemKeys
    BY <1>0, <2>1 DEF TableFits
  <2> QED
    BY <1>11, <2>1, <2>2, <2>3
<1>14. ASSUME NEW ops \in Transactions, NEW token \in TxTokens, TransactWrite(ops, token)
       PROVE  TableInv' /\ (ChangeStep /\ SequenceStep /\ TokenStep)
  <2>1. /\ table.there /\ ~TokenLive(token) /\ Committed(Applied(ops))
        /\ txRecords' = [txRecords EXCEPT ![token] = ddbClock + TokenTTL]
        /\ applied' = [applied EXCEPT ![token] = [times |-> @.times + 1, last |-> ddbClock]]
        /\ UNCHANGED <<table, doomed, ddbClock>>
    BY <1>14 DEF TransactWrite
  <2>2. PICK D \in SUBSET ItemKeys : WritesDone(Applied(ops), D)
    BY TransactionWrites
  <2>3. PICK bs : bs = Applied(ops)
    OBVIOUS
  <2>4. WritesDone(bs, D) /\ Committed(bs)
    BY <2>1, <2>2, <2>3
  <2>5. doomed' \subseteq ItemKeys
    BY <1>0, <2>1 DEF TableFits
  <2>6. TableFits' /\ LogFinite' /\ IndexCovers' /\ ChangeStep /\ SequenceStep
    BY <1>4, <2>1, <2>4, <2>5
  <2>7. TokenTTL \in Nat
    BY DdbConstants
  <2>8. /\ txRecords \in [TxTokens -> Nat] /\ applied \in [TxTokens -> [times : Nat, last : Nat]]
        /\ \A t \in TxTokens : applied[t].times > 0 => txRecords[t] = applied[t].last + TokenTTL
    BY <1>0 DEF TokensFit
  <2>9. /\ txRecords'[token] = ddbClock + TokenTTL /\ applied'[token].last = ddbClock
        /\ applied'[token] = [times |-> applied[token].times + 1, last |-> ddbClock]
        /\ \A t \in TxTokens : t # token => txRecords'[t] = txRecords[t] /\ applied'[t] = applied[t]
    BY <2>1, <2>8
  <2>10. applied[token].times \in Nat /\ applied[token].last \in Nat /\ txRecords[token] \in Nat
    BY <2>8
  <2>11. txRecords' \in [TxTokens -> Nat]
    <3>1. ddbClock + TokenTTL \in Nat
      BY <1>0, <2>7
    <3> QED
      BY <2>1, <2>8, <3>1
  <2>12. applied' \in [TxTokens -> [times : Nat, last : Nat]]
    <3>1. applied[token].times + 1 \in Nat
      BY <2>10
    <3>2. [times |-> applied[token].times + 1, last |-> ddbClock] \in [times : Nat, last : Nat]
      BY <1>0, <3>1
    <3> QED
      BY <2>1, <2>8, <3>2
  <2>13. TokensFit'
    <3>1. \A t \in TxTokens : applied'[t].times > 0 => txRecords'[t] = applied'[t].last + TokenTTL
      BY <2>8, <2>9
    <3>2. ddbClock' \in Nat
      BY <1>0, <2>1
    <3> QED
      BY <2>11, <2>12, <3>1, <3>2 DEF TokensFit
  <2>14. TokenStep
    <3> SUFFICES ASSUME NEW t \in TxTokens, applied[t].times > 0, applied'[t] # applied[t]
                 PROVE  applied'[t].last >= applied[t].last + TokenTTL
      BY DEF TokenStep
    <3>1. t = token
      BY <2>9
    <3>2. ~(txRecords[token] > ddbClock) /\ txRecords[token] = applied[token].last + TokenTTL
      BY <2>1, <2>8, <3>1 DEF TokenLive
    <3>3. ddbClock >= applied[token].last + TokenTTL
      BY <1>0, <2>10, <3>2
    <3> QED
      BY <2>9, <3>1, <3>3
  <2> QED
    BY <2>6, <2>13, <2>14 DEF TableInv
<1>15. CASE SweepList
  <2>1. /\ UNCHANGED <<table, rows, entries, log, lastSeq, txRecords, applied, ddbClock>>
        /\ doomed' \subseteq ItemKeys
    BY <1>15 DEF SweepList
  <2> QED
    BY <1>6, <2>1
<1>16. ASSUME NEW k \in ItemKeys, SweepDelete(k)
       PROVE  TableInv' /\ (ChangeStep /\ SequenceStep /\ TokenStep)
  <2>1. Deleted(k) /\ doomed' = doomed \ {k} /\ UNCHANGED <<table, txRecords, applied, ddbClock>>
    BY <1>16 DEF SweepDelete
  <2>2. doomed' \subseteq ItemKeys
    BY <1>0, <2>1 DEF TableFits
  <2> QED
    BY <1>11, <2>1, <2>2
<1>17. CASE DdbTick
  <2>1. /\ ddbClock' = ddbClock + 1
        /\ UNCHANGED <<table, rows, entries, log, lastSeq, doomed, txRecords, applied>>
    BY <1>17 DEF DdbTick
  <2>2. ddbClock' \in Nat /\ ddbClock' # ddbClock
    <3>1. ddbClock' = ddbClock + 1
      BY <2>1
    <3> QED
      BY <1>0, <3>1
  <2>3. TableFits' /\ IndexCovers'
    BY <1>0, <2>1 DEF TableFits, IndexCovers, IndexEntries
  <2>4. TokensFit' /\ TokenStep
    <3>1. UNCHANGED <<txRecords, applied>>
      BY <2>1
    <3> QED
      BY <1>0, <2>2, <3>1 DEF TokensFit, TokenStep
  <2>5. UNCHANGED <<log, lastSeq>>
    BY <2>1
  <2>6. LogFinite' /\ SequenceStep
    BY <1>1, <2>5
  <2>7. ChangeStep
    BY <1>3, <2>2
  <2> QED
    BY <2>3, <2>4, <2>6, <2>7 DEF TableInv
<1>18. CASE UNCHANGED ddbVars
  <2>1. UNCHANGED <<table, rows, entries, log, lastSeq, txRecords, applied, ddbClock>>
        /\ doomed' \subseteq ItemKeys
    BY <1>0, <1>18 DEF ddbVars, TableFits
  <2> QED
    BY <1>6, <2>1
<1> QED
  BY <1>7, <1>8, <1>9, <1>10, <1>12, <1>13, <1>14, <1>15, <1>16, <1>17, <1>18 DEF DdbNext

\* IndexCovers for every set of keys, items and operations: a global index has
\* the entry of every stored item that it covers, however puts, updates, deletes,
\* transactions, the TTL sweep and changes of the table interleave.
THEOREM IndexMissesNothing == DdbSpec => []IndexCovers
<1>1. TableInv => IndexCovers
  BY DEF TableInv
<1>2. TableInv /\ [DdbNext]_ddbVars => TableInv'
  BY TableStep
<1> QED
  BY <1>1, <1>2, TableInit, PTL DEF DdbSpec

\* TableHistory for every set of keys, items, transactions and tokens: a visible
\* change has its stream record with the event that is true of it, records keep
\* their numbers, and a client token applies its transaction once in its
\* lifetime.
THEOREM HistoryExact == DdbSpec => TableHistory
<1>1. TableInv /\ [DdbNext]_ddbVars => TableInv'
  BY TableStep
<1>2. TableInv /\ [DdbNext]_ddbVars => [ChangeStep]_ddbVars
  BY TableStep
<1>3. TableInv /\ [DdbNext]_ddbVars => [SequenceStep]_ddbVars
  BY TableStep
<1>4. TableInv /\ [DdbNext]_ddbVars => [TokenStep]_ddbVars
  BY TableStep
<1>5. DdbSpec => [][ChangeStep]_ddbVars /\ [][SequenceStep]_ddbVars /\ [][TokenStep]_ddbVars
  BY <1>1, <1>2, <1>3, <1>4, TableInit, PTL DEF DdbSpec
<1> QED
  BY <1>5 DEF TableHistory, ChangesRecorded, SequenceNeverReused, AppliedOnce,
              ChangeStep, SequenceStep, TokenStep

-----------------------------------------------------------------------------
(* DynamoDB: the types.                                                    *)

\* What the stream says of one change.
ChangeRecord == [key : ItemKeys, event : {"INSERT", "MODIFY", "REMOVE"}]

\* The buckets of a transaction under way are of their types.
BucketsTyped(bs) ==
  /\ bs = [rows |-> bs.rows, entries |-> bs.entries, log |-> bs.log, seq |-> bs.seq,
           keyN |-> bs.keyN]
  /\ bs.rows \in [ItemKeys -> StoredRow]
  /\ bs.entries \subseteq IndexKeys \X ItemKeys
  /\ bs.seq \in Nat /\ bs.keyN \in Nat
  /\ IsFiniteSet(DOMAIN bs.log) /\ DOMAIN bs.log \subseteq Nat \ {0}
  /\ \A n \in DOMAIN bs.log : bs.log[n] \in ChangeRecord

\* The types of the table, beyond TableInv.
TableTyped ==
  /\ entries \subseteq IndexKeys \X ItemKeys
  /\ ~table.there => entries = {}
  /\ lastSeq <= MaxChanges
  /\ \A n \in DOMAIN log : n # 0 /\ log[n] \in ChangeRecord
  /\ ddbClock <= MaxClock
  /\ \A t \in TxTokens : /\ txRecords[t] <= ddbClock + TokenTTL
                         /\ applied[t].times <= MaxApplied /\ applied[t].last <= ddbClock

\* The entries of a row.
LEMMA EntriesTyped ==
  ASSUME NEW k \in ItemKeys, NEW row \in StoredRow
  PROVE  IndexEntries(k, row) \subseteq IndexKeys \X ItemKeys
<1>1. row.ix \subseteq IndexKeys
  <2>1. CASE row = NoRow
    BY <2>1 DEF NoRow
  <2>2. CASE row \in Items
    <3>1. row.ix \in {{}} \cup {{x} : x \in IndexKeys}
      BY <2>2 DEF Items
    <3> QED
      BY <3>1
  <2> QED
    BY <2>1, <2>2 DEF StoredRow
<1> QED
  BY <1>1 DEF IndexEntries

\* A write leaves buckets of their types.
LEMMA WriteTyped ==
  ASSUME NEW bs, BucketsTyped(bs), NEW k \in ItemKeys, NEW old, NEW new \in StoredRow
  PROVE  BucketsTyped(writeItem(bs, k, old, new))
<1>1. PICK w : w = IndexedWrite(bs, k, old, new)
  OBVIOUS
<1>2. PICK E : E = IF table.indexed THEN (bs.entries \ IndexEntries(k, old)) \cup IndexEntries(k, new)
                   ELSE bs.entries
  OBVIOUS
<1>3. bs = [rows |-> bs.rows, entries |-> bs.entries, log |-> bs.log, seq |-> bs.seq, keyN |-> bs.keyN]
      /\ bs.rows \in [ItemKeys -> StoredRow] /\ bs.entries \subseteq IndexKeys \X ItemKeys
  BY DEF BucketsTyped
<1>4. w = [rows |-> [bs.rows EXCEPT ![k] = new], entries |-> E, log |-> bs.log, seq |-> bs.seq,
           keyN |-> bs.keyN]
  BY <1>1, <1>2, <1>3 DEF IndexedWrite
<1>5. E \subseteq IndexKeys \X ItemKeys
  <2>1. IndexEntries(k, new) \subseteq IndexKeys \X ItemKeys
    BY EntriesTyped
  <2> QED
    BY <1>2, <1>3, <2>1
<1>6. [bs.rows EXCEPT ![k] = new] \in [ItemKeys -> StoredRow]
  BY <1>3
<1>7. /\ w.rows \in [ItemKeys -> StoredRow] /\ w.entries = E /\ w.log = bs.log
      /\ w.seq = bs.seq /\ w.keyN = bs.keyN
      /\ w = [rows |-> w.rows, entries |-> w.entries, log |-> w.log, seq |-> w.seq, keyN |-> w.keyN]
  BY <1>4, <1>6
<1>8. BucketsTyped(w)
  BY <1>5, <1>7 DEF BucketsTyped
<1>9. writeItem(bs, k, old, new) = captureStream(w, k, old, new)
  BY <1>1 DEF writeItem
<1>10. CASE ~table.streamed \/ (~old.there /\ ~new.there)
  BY <1>8, <1>9, <1>10 DEF captureStream
<1>11. CASE ~(~table.streamed \/ (~old.there /\ ~new.there))
  <2> DEFINE seq == w.seq + 1
             rec == [key |-> k, event |-> EventName(old, new)]
             g == [n \in DOMAIN w.log \cup {seq} |-> IF n = seq THEN rec ELSE w.log[n]]
             h == pruneStream(g, w.keyN)
  <2>1. seq \in Nat \ {0} /\ w.keyN \in Nat
    BY <1>8 DEF BucketsTyped
  <2>2. rec \in ChangeRecord
    <3>1. EventName(old, new) \in {"INSERT", "MODIFY", "REMOVE"}
      BY DEF EventName
    <3> QED
      BY <3>1 DEF ChangeRecord
  <2>3. IsFiniteSet(DOMAIN g) /\ DOMAIN g \subseteq Nat \ {0}
    <3>1. DOMAIN g = DOMAIN w.log \cup {seq}
      OBVIOUS
    <3>2. IsFiniteSet(DOMAIN w.log) /\ DOMAIN w.log \subseteq Nat \ {0}
      BY <1>8 DEF BucketsTyped
    <3> HIDE DEF g, seq
    <3>3. IsFiniteSet(DOMAIN w.log \cup {seq})
      BY <3>2, FS_AddElement
    <3> QED
      BY <2>1, <3>1, <3>2, <3>3
  <2>4. \A n \in DOMAIN g : g[n] \in ChangeRecord
    BY <1>8, <2>2 DEF BucketsTyped
  <2>5. captureStream(w, k, old, new) = [w EXCEPT !.seq = seq, !.log = h]
    BY <1>11 DEF captureStream
  <2> HIDE DEF g, rec, seq
  <2>6. DOMAIN g \subseteq Nat
    BY <2>3
  <2>7. DOMAIN h \subseteq DOMAIN g /\ \A n \in DOMAIN h : h[n] = g[n]
    BY <2>1, <2>3, <2>6, Prunes
  <2> HIDE DEF h
  <2>8. PICK x : x = [rows |-> w.rows, entries |-> w.entries, log |-> h, seq |-> seq, keyN |-> w.keyN]
    OBVIOUS
  <2>9. captureStream(w, k, old, new) = x
    BY <1>7, <2>5, <2>8
  <2>10. /\ x.rows = w.rows /\ x.entries = w.entries /\ x.log = h /\ x.seq = seq /\ x.keyN = w.keyN
         /\ x = [rows |-> x.rows, entries |-> x.entries, log |-> x.log, seq |-> x.seq, keyN |-> x.keyN]
    BY <2>8
  <2>11. IsFiniteSet(DOMAIN h)
    BY <2>3, <2>7, FS_Subset
  <2>12. DOMAIN h \subseteq Nat \ {0} /\ \A n \in DOMAIN h : h[n] \in ChangeRecord
    BY <2>3, <2>4, <2>7
  <2>13. BucketsTyped(x)
    BY <1>8, <2>1, <2>10, <2>11, <2>12 DEF BucketsTyped
  <2> QED
    BY <1>9, <2>9, <2>13
<1> QED
  BY <1>10, <1>11

\* The buckets as they are.
LEMMA BucketsAreTyped ==
  ASSUME TableInv, TableTyped
  PROVE  BucketsTyped(Buckets)
<1>1. PICK bs : bs = Buckets
  OBVIOUS
<1>2. /\ bs.rows = rows /\ bs.entries = entries /\ bs.log = log /\ bs.seq = lastSeq
      /\ bs.keyN = Cardinality(DOMAIN log)
      /\ bs = [rows |-> bs.rows, entries |-> bs.entries, log |-> bs.log, seq |-> bs.seq,
               keyN |-> bs.keyN]
  BY <1>1 DEF Buckets
<1>3. IsFiniteSet(DOMAIN log) /\ DOMAIN log \subseteq Nat \ {0} /\ lastSeq \in Nat
  BY DEF TableInv, LogFinite, TableTyped
<1>4. Cardinality(DOMAIN log) \in Nat
  BY <1>3, FS_CardinalityType
<1>5. rows \in [ItemKeys -> StoredRow]
  BY DEF TableInv, TableFits
<1>6. BucketsTyped(bs)
  BY <1>2, <1>3, <1>4, <1>5 DEF BucketsTyped, TableTyped
<1> QED
  BY <1>1, <1>6

\* The writes of a transaction leave buckets of their types.
LEMMA TransactionTyped ==
  ASSUME TableInv, TableTyped, NEW ops \in Transactions
  PROVE  BucketsTyped(Applied(ops))
<1>1. Len(ops) \in Nat /\ \A i \in 1..Len(ops) : ops[i] \in WriteOps
  <2>1. ops \in SeqOf(WriteOps, TxMax)
    BY DEF Transactions
  <2>2. PICK m \in 0..TxMax : ops \in [1..m -> WriteOps]
    BY <2>1 DEF SeqOf
  <2>3. m \in Nat
    BY <2>2, DdbConstants
  <2>4. ops \in Seq(WriteOps)
    BY <2>2, <2>3
  <2>5. Len(ops) = m
    BY <2>2, <2>3, <2>4
  <2> QED
    BY <2>2, <2>3, <2>5
<1>2. PICK f : /\ f[0] = Buckets
               /\ \A n \in 1..Len(ops) : f[n] = PlannedWrite(f[n - 1], ops[n])
               /\ Applied(ops) = f[Len(ops)]
  BY <1>1, AppliedInSteps
<1> DEFINE Bad == {n \in 0..Len(ops) : ~BucketsTyped(f[n])}
<1>3. ASSUME NEW n \in 1..Len(ops), BucketsTyped(f[n - 1]) PROVE BucketsTyped(f[n])
  <2>1. f[n] = PlannedWrite(f[n - 1], ops[n])
    BY <1>2
  <2>2. PICK op : op = ops[n]
    OBVIOUS
  <2>3. op \in WriteOps /\ op.key \in ItemKeys
    BY <1>1, <2>2, DdbConstants DEF WriteOp
  <2>4. CASE op.kind = "check"
    BY <1>3, <2>1, <2>2, <2>4 DEF PlannedWrite
  <2>5. CASE op.kind # "check"
    <3>1. PICK new : new = NextRow(op, loadItem(op.key))
      OBVIOUS
    <3>2. loadItem(op.key) \in StoredRow
      BY <2>3, LoadFacts DEF TableInv
    <3>3. new \in StoredRow
      BY <2>3, <2>5, <3>1, <3>2, NextRowFits
    <3>4. f[n] = writeItem(f[n - 1], op.key, loadItem(op.key), new)
      BY <2>1, <2>2, <2>5, <3>1 DEF PlannedWrite
    <3> QED
      BY <1>3, <2>3, <3>3, <3>4, WriteTyped
  <2> QED
    BY <2>4, <2>5
<1>4. Bad = {}
  <2> SUFFICES ASSUME Bad # {} PROVE FALSE
    OBVIOUS
  <2>1. Bad \in SUBSET Nat
    BY <1>1
  <2>2. PICK n \in Bad : \A m \in Bad : n <= m
    <3> HIDE DEF Bad
    <3> QED
      BY <2>1, LeastNat
  <2>3. n \in 0..Len(ops) /\ ~BucketsTyped(f[n])
    BY <2>2
  <2>4. n # 0
    BY <1>2, <2>3, BucketsAreTyped
  <2>5. n \in 1..Len(ops) /\ n - 1 \in 0..Len(ops) /\ ~(n <= n - 1)
    BY <1>1, <2>3, <2>4
  <2>6. n - 1 \notin Bad
    <3> HIDE DEF Bad
    <3> QED
      BY <2>2, <2>5
  <2>7. BucketsTyped(f[n - 1])
    BY <2>5, <2>6
  <2> QED
    BY <1>3, <2>3, <2>5, <2>7
<1>5. Len(ops) \in 0..Len(ops)
  BY <1>1
<1> QED
  BY <1>2, <1>4, <1>5

\* What a transaction commits is of its types.
LEMMA CommitTyped ==
  ASSUME TableInv, TableTyped, NEW bs, BucketsTyped(bs), Committed(bs), table.there,
         UNCHANGED <<table, txRecords, applied, ddbClock>>
  PROVE  TableTyped'
<1>1. entries' = bs.entries /\ log' = bs.log /\ lastSeq' = bs.seq /\ bs.seq <= MaxChanges
  BY DEF Committed
<1>2. \A n \in DOMAIN bs.log : n # 0 /\ bs.log[n] \in ChangeRecord
  BY DEF BucketsTyped
<1>3. bs.entries \subseteq IndexKeys \X ItemKeys
  BY DEF BucketsTyped
<1> QED
  BY <1>1, <1>2, <1>3 DEF TableTyped

\* Every step keeps the types.
LEMMA TableTypedStep == TableInv /\ TableTyped /\ [DdbNext]_ddbVars => TableTyped'
<1> SUFFICES ASSUME TableInv, TableTyped, [DdbNext]_ddbVars PROVE TableTyped'
  OBVIOUS
<1>0. /\ TableFits /\ lastSeq \in Nat /\ ddbClock \in Nat
      /\ txRecords \in [TxTokens -> Nat] /\ applied \in [TxTokens -> [times : Nat, last : Nat]]
      /\ TokenTTL \in Nat /\ MaxClock \in Nat /\ MaxApplied \in Nat
  BY DdbConstants DEF TableInv, LogFinite, TokensFit
\* the table and its entries change, and nothing else
<1>1. ASSUME UNCHANGED <<log, lastSeq, txRecords, applied, ddbClock>>,
             entries' \subseteq IndexKeys \X ItemKeys, ~table'.there => entries' = {}
      PROVE  TableTyped'
  BY <1>1 DEF TableTyped
\* one item is written
<1>2. ASSUME NEW k \in ItemKeys, NEW new \in StoredRow,
             Committed(writeItem(Buckets, k, loadItem(k), new)), table.there,
             UNCHANGED <<table, txRecords, applied, ddbClock>>
      PROVE  TableTyped'
  <2>1. PICK bs : bs = writeItem(Buckets, k, loadItem(k), new)
    OBVIOUS
  <2>2. BucketsTyped(bs)
    BY <2>1, BucketsAreTyped, WriteTyped
  <2> QED
    BY <1>2, <2>1, <2>2, CommitTyped
<1>3. ASSUME UNCHANGED <<table, entries, log, lastSeq, txRecords, applied, ddbClock>> PROVE TableTyped'
  BY <1>3 DEF TableTyped
<1>4. ASSUME NEW k \in ItemKeys, Deleted(k), UNCHANGED <<table, txRecords, applied, ddbClock>>
      PROVE  TableTyped'
  <2>1. CASE table.there /\ loadItem(k).there
    <3>1. Committed(writeItem(Buckets, k, loadItem(k), NoRow))
      BY <1>4, <2>1 DEF Deleted
    <3> QED
      BY <1>2, <1>4, <2>1, <3>1, RowFacts
  <2>2. CASE ~(table.there /\ loadItem(k).there)
    <3>1. UNCHANGED <<rows, entries, log, lastSeq>>
      BY <1>4, <2>2 DEF Deleted
    <3> QED
      BY <1>3, <1>4, <3>1
  <2> QED
    BY <2>1, <2>2
<1>5. ASSUME NEW s, NEW i, CreateTable(s, i) PROVE TableTyped'
  <2>1. table'.there /\ UNCHANGED <<entries, log, lastSeq, txRecords, applied, ddbClock>>
    BY <1>5 DEF CreateTable
  <2> QED
    BY <1>1, <2>1 DEF TableTyped
<1>6. CASE DeleteTable
  <2>1. entries' = {} /\ UNCHANGED <<log, lastSeq, txRecords, applied, ddbClock>>
    BY <1>6 DEF DeleteTable
  <2> QED
    BY <1>1, <2>1
<1>7. CASE UpdateTableIndex
  <2>1. /\ table.there /\ table' = [table EXCEPT !.indexed = ~@]
        /\ entries' = IF table.indexed THEN {} ELSE backfillIndex
        /\ UNCHANGED <<log, lastSeq, txRecords, applied, ddbClock>>
    BY <1>7 DEF UpdateTableIndex
  <2>2. table'.there
    BY <1>0, <2>1 DEF TableFits
  <2>3. backfillIndex \subseteq IndexKeys \X ItemKeys
    <3>1. \A k \in ItemKeys : rows[k] \in StoredRow
      BY <1>0 DEF TableFits
    <3>2. \A k \in ItemKeys : IndexEntries(k, rows[k]) \subseteq IndexKeys \X ItemKeys
      BY <3>1, EntriesTyped
    <3> QED
      BY <3>2 DEF backfillIndex
  <2> QED
    BY <1>1, <2>1, <2>2, <2>3
<1>8. CASE UpdateTimeToLive
  <2>1. /\ table.there /\ table' = [table EXCEPT !.ttl = ~@]
        /\ UNCHANGED <<entries, log, lastSeq, txRecords, applied, ddbClock>>
    BY <1>8 DEF UpdateTimeToLive
  <2>2. table'.there
    BY <1>0, <2>1 DEF TableFits
  <2> QED
    BY <1>1, <2>1, <2>2 DEF TableTyped
<1>9. ASSUME NEW op \in WriteOps, PutItem(op) PROVE TableTyped'
  <2>1. /\ op.kind \in {"put", "update"} /\ table.there
        /\ Committed(writeItem(Buckets, op.key, loadItem(op.key), NextRow(op, loadItem(op.key))))
        /\ UNCHANGED <<table, txRecords, applied, ddbClock>>
    BY <1>9 DEF PutItem
  <2>2. op.key \in ItemKeys
    BY DdbConstants DEF WriteOp
  <2>3. loadItem(op.key) \in StoredRow
    BY <1>0, <2>2, LoadFacts
  <2>4. PICK new : new = NextRow(op, loadItem(op.key))
    OBVIOUS
  <2>5. new \in StoredRow
    BY <2>1, <2>3, <2>4, NextRowFits
  <2> QED
    BY <1>2, <2>1, <2>2, <2>4, <2>5
<1>10. ASSUME NEW op \in WriteOps, DeleteItem(op) PROVE TableTyped'
  <2>1. Deleted(op.key) /\ UNCHANGED <<table, txRecords, applied, ddbClock>>
    BY <1>10 DEF DeleteItem
  <2>2. op.key \in ItemKeys
    BY DdbConstants DEF WriteOp
  <2> QED
    BY <1>4, <2>1, <2>2
<1>11. ASSUME NEW ops \in Transactions, NEW token \in TxTokens, TransactWrite(ops, token)
       PROVE  TableTyped'
  <2>1. /\ table.there /\ applied[token].times < MaxApplied /\ Committed(Applied(ops))
        /\ txRecords' = [txRecords EXCEPT ![token] = ddbClock + TokenTTL]
        /\ applied' = [applied EXCEPT ![token] = [times |-> @.times + 1, last |-> ddbClock]]
        /\ UNCHANGED <<table, ddbClock>>
    BY <1>11 DEF TransactWrite
  <2>2. PICK bs : bs = Applied(ops)
    OBVIOUS
  <2>3. BucketsTyped(bs) /\ Committed(bs)
    BY <2>1, <2>2, TransactionTyped
  <2>4. /\ entries' \subseteq IndexKeys \X ItemKeys /\ lastSeq' <= MaxChanges
        /\ \A n \in DOMAIN log' : n # 0 /\ log'[n] \in ChangeRecord
    BY <2>3 DEF Committed, BucketsTyped
  <2>5. /\ txRecords'[token] = ddbClock + TokenTTL
        /\ applied'[token].times = applied[token].times + 1 /\ applied'[token].last = ddbClock
        /\ \A t \in TxTokens : t # token => txRecords'[t] = txRecords[t] /\ applied'[t] = applied[t]
    BY <1>0, <2>1
  <2>6. applied[token].times \in Nat
    BY <1>0
  <2>7. /\ ddbClock + TokenTTL <= ddbClock + TokenTTL
        /\ applied[token].times + 1 <= MaxApplied /\ ddbClock <= ddbClock
    BY <1>0, <2>1, <2>6
  <2>8. \A t \in TxTokens : /\ txRecords'[t] <= ddbClock' + TokenTTL
                            /\ applied'[t].times <= MaxApplied /\ applied'[t].last <= ddbClock'
    BY <2>1, <2>5, <2>7 DEF TableTyped
  <2> QED
    BY <2>1, <2>4, <2>8 DEF TableTyped
<1>12. CASE SweepList
  BY <1>3, <1>12 DEF SweepList
<1>13. ASSUME NEW k \in ItemKeys, SweepDelete(k) PROVE TableTyped'
  BY <1>4, <1>13 DEF SweepDelete
<1>14. CASE DdbTick
  <2>1. /\ ddbClock < MaxClock /\ ddbClock' = ddbClock + 1
        /\ UNCHANGED <<table, entries, log, lastSeq, txRecords, applied>>
    BY <1>14 DEF DdbTick
  <2>2. ddbClock' <= MaxClock
    <3>1. ddbClock < MaxClock /\ ddbClock' = ddbClock + 1
      BY <2>1
    <3> QED
      BY <1>0, <3>1
  <2>3. ASSUME NEW t \in TxTokens
        PROVE  txRecords[t] <= ddbClock' + TokenTTL /\ applied[t].last <= ddbClock'
    <3>1. ddbClock' = ddbClock + 1
      BY <2>1
    <3>2. /\ txRecords[t] \in Nat /\ applied[t].last \in Nat
          /\ txRecords[t] <= ddbClock + TokenTTL /\ applied[t].last <= ddbClock
      BY <1>0 DEF TableTyped
    <3> QED
      BY <1>0, <3>1, <3>2
  <2> QED
    BY <2>1, <2>2, <2>3 DEF TableTyped
<1>15. CASE UNCHANGED ddbVars
  BY <1>3, <1>15 DEF ddbVars
<1> QED
  BY <1>5, <1>6, <1>7, <1>8, <1>9, <1>10, <1>11, <1>12, <1>13, <1>14, <1>15 DEF DdbNext

\* DdbTypeOK for every set of items, operations and tokens: entries are of stored
\* keys, records have the three event names and numbers up to the last, and
\* tokens lie within their time, whatever a transaction writes
\* (internal/ddb/store).
THEOREM TableTypes == DdbSpec => []DdbTypeOK
<1>1. DdbInit => TableTyped
  <2> SUFFICES ASSUME DdbInit PROVE TableTyped
    OBVIOUS
  <2>1. /\ entries = {} /\ lastSeq = 0 /\ DOMAIN log = {} /\ ddbClock = 0
        /\ \A t \in TxTokens : txRecords[t] = 0 /\ applied[t].times = 0 /\ applied[t].last = 0
    BY DEF DdbInit
  <2>2. 0 <= MaxChanges /\ 0 <= MaxClock /\ 0 <= 0 + TokenTTL /\ 0 <= MaxApplied /\ 0 <= 0
    BY DdbConstants
  <2> QED
    BY <2>1, <2>2 DEF TableTyped
<1>2. TableInv /\ TableTyped => DdbTypeOK
  <2> SUFFICES ASSUME TableInv, TableTyped PROVE DdbTypeOK
    OBVIOUS
  <2>0. /\ lastSeq \in Nat /\ lastSeq <= MaxChanges /\ MaxChanges \in Nat
        /\ ddbClock \in Nat /\ ddbClock <= MaxClock /\ MaxClock \in Nat
        /\ TokenTTL \in Nat /\ MaxApplied \in Nat
    BY DdbConstants DEF TableInv, LogFinite, TokensFit, TableTyped
  <2>1. lastSeq \in 0..MaxChanges /\ ddbClock \in 0..MaxClock
    BY <2>0
  <2>2. DOMAIN log \subseteq 1..lastSeq
    <3> SUFFICES ASSUME NEW n \in DOMAIN log PROVE n \in 1..lastSeq
      OBVIOUS
    <3>1. n \in Nat /\ n # 0 /\ n <= lastSeq
      BY DEF TableInv, LogFinite, TableTyped
    <3> QED
      BY <2>0, <3>1
  <2>3. txRecords \in [TxTokens -> 0..(ddbClock + TokenTTL)]
    <3>1. txRecords \in [TxTokens -> Nat]
      BY DEF TableInv, TokensFit
    <3>2. \A t \in TxTokens : txRecords[t] \in Nat /\ txRecords[t] <= ddbClock + TokenTTL
      BY <3>1 DEF TableTyped
    <3>3. \A t \in TxTokens : txRecords[t] \in 0..(ddbClock + TokenTTL)
      BY <2>0, <3>2
    <3> QED
      BY <3>1, <3>3
  <2>4. applied \in [TxTokens -> [times : 0..MaxApplied, last : 0..ddbClock]]
    <3>1. applied \in [TxTokens -> [times : Nat, last : Nat]]
      BY DEF TableInv, TokensFit
    <3>2. ASSUME NEW t \in TxTokens
          PROVE  applied[t] \in [times : 0..MaxApplied, last : 0..ddbClock]
      <4>1. applied[t] \in [times : Nat, last : Nat]
        BY <3>1
      <4>2. applied[t].times <= MaxApplied /\ applied[t].last <= ddbClock
        BY DEF TableTyped
      <4>3. applied[t].times \in 0..MaxApplied /\ applied[t].last \in 0..ddbClock
        BY <2>0, <4>1, <4>2
      <4>4. applied[t] = [times |-> applied[t].times, last |-> applied[t].last]
        BY <4>1
      <4> QED
        BY <4>3, <4>4
    <3> QED
      BY <3>1, <3>2
  <2>5. rows \in [ItemKeys -> Items \cup {NoRow}]
    BY DEF TableInv, TableFits, StoredRow
  <2> QED
    BY <2>1, <2>2, <2>3, <2>4, <2>5 DEF DdbTypeOK, TableInv, TableFits, TableTyped, ChangeRecord
<1>3. TableInv /\ [DdbNext]_ddbVars => TableInv'
  BY TableStep
<1> QED
  BY <1>1, <1>2, <1>3, TableInit, TableTypedStep, PTL DEF DdbSpec

=============================================================================
