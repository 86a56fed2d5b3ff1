----------------------------- MODULE StoreProofs -----------------------------
(***************************************************************************)
(* What the operators of Store preserve, for all keys, values, batches,    *)
(* logs and numbers of kept versions.                                      *)
(***************************************************************************)
EXTENDS Store, TLAPS, FiniteSetTheorems, WellFoundedInduction

(***************************************************************************)
(* Least and greatest elements, needed for LastIndex and MaxRevision.      *)
(***************************************************************************)

\* A nonempty set of naturals has a least element.
LEMMA MinExists ==
  ASSUME NEW T \in SUBSET Nat, T # {}
  PROVE  \E m \in T : \A x \in T : m <= x
<1>1. IsWellFoundedOn(OpToRel(<, Nat), Nat)
  BY NatLessThanWellFounded
<1>2. PICK m \in T : \A y \in T : ~(<<y, m>> \in OpToRel(<, Nat))
  BY <1>1, WFMin, Zenon
<1>3. ASSUME NEW x \in T PROVE m <= x
  <2>1. x < m => <<x, m>> \in OpToRel(<, Nat)
    BY DEF OpToRel
  <2>2. ~(x < m)
    BY <2>1, <1>2, Zenon
  <2> QED BY <2>2
<1> QED BY <1>3

\* A nonempty bounded set of naturals has a greatest element.
LEMMA MaxExists ==
  ASSUME NEW S \in SUBSET Nat, S # {}, NEW n \in Nat, \A x \in S : x <= n
  PROVE  \E m \in S : \A x \in S : x <= m
<1> DEFINE T == {n - x : x \in S}
<1>1. \A x \in S : n - x \in Nat
  OBVIOUS
<1>2. T \in SUBSET Nat
  BY <1>1
<1>3. T # {}
  OBVIOUS
<1>4. PICK t \in T : \A x \in T : t <= x
  BY <1>2, <1>3, MinExists
<1>5. PICK m \in S : t = n - m
  OBVIOUS
<1>6. ASSUME NEW x \in S PROVE x <= m
  <2>1. n - x \in T
    OBVIOUS
  <2> QED BY <2>1, <1>4, <1>5
<1> QED BY <1>5, <1>6

(***************************************************************************)
(* The newest record of a key.                                             *)
(***************************************************************************)

\* LastIndex is the greatest position that holds the key.
LEMMA LastIndexIsLast ==
  ASSUME NEW l \in Seq(KVs), NEW k \in KeysOf(l)
  PROVE  /\ LastIndex(l, k) \in 1..Len(l)
         /\ l[LastIndex(l, k)].key = k
         /\ \A j \in 1..Len(l) : l[j].key = k => j <= LastIndex(l, k)
<1> DEFINE S == {i \in 1..Len(l) : l[i].key = k}
<1>1. DOMAIN l = 1..Len(l) /\ Len(l) \in Nat
  OBVIOUS
<1>2. S \in SUBSET Nat /\ S # {} /\ \A x \in S : x <= Len(l)
  BY <1>1 DEF KeysOf
<1>3. \E m \in S : \A x \in S : x <= m
  BY <1>1, <1>2, MaxExists
<1>4. \E i \in DOMAIN l :
        l[i].key = k /\ \A j \in DOMAIN l : l[j].key = k => j <= i
  BY <1>1, <1>3
<1> QED BY <1>1, <1>4 DEF LastIndex

\* A position with those properties is LastIndex.
LEMMA LastIndexUnique ==
  ASSUME NEW l \in Seq(KVs), NEW k, NEW i \in 1..Len(l), l[i].key = k,
         \A j \in 1..Len(l) : l[j].key = k => j <= i
  PROVE  k \in KeysOf(l) /\ LastIndex(l, k) = i
<1>1. k \in KeysOf(l)
  BY DEF KeysOf
<1>2. LastIndex(l, k) \in 1..Len(l) /\ l[LastIndex(l, k)].key = k
      /\ i <= LastIndex(l, k)
  BY <1>1, LastIndexIsLast
<1>3. LastIndex(l, k) <= i
  BY <1>2
<1> QED BY <1>1, <1>2, <1>3

\* Writing a batch moves the main index from the newest records of the old
\* log to those of the new one.
LEMMA LatestAppend ==
  ASSUME NEW l \in Seq(KVs), NEW m \in Seq(KVs)
  PROVE  Latest(l \o m) = MainAfter(Latest(l), m)
<1> DEFINE c == l \o m
<1>1. /\ c \in Seq(KVs) /\ Len(c) = Len(l) + Len(m)
      /\ Len(l) \in Nat /\ Len(m) \in Nat
      /\ \A i \in 1..Len(l) : c[i] = l[i]
      /\ \A i \in 1..Len(m) : c[Len(l) + i] = m[i]
  OBVIOUS
<1>2. \A i \in 1..Len(c) : i \in 1..Len(l) \/ i - Len(l) \in 1..Len(m)
  BY <1>1
<1>d. DOMAIN c = 1..Len(c) /\ DOMAIN l = 1..Len(l) /\ DOMAIN m = 1..Len(m)
  BY <1>1
<1>3. KeysOf(c) = KeysOf(l) \cup KeysOf(m)
  <2> HIDE DEF c
  <2>1. ASSUME NEW i \in 1..Len(c) PROVE c[i].key \in KeysOf(l) \cup KeysOf(m)
    <3>1. CASE i \in 1..Len(l)
      BY <3>1, <1>1, <1>d DEF KeysOf
    <3>2. CASE i - Len(l) \in 1..Len(m)
      <4>1. c[i] = m[i - Len(l)]
        BY <3>2, <1>1
      <4> QED BY <4>1, <3>2, <1>d DEF KeysOf
    <3> QED BY <3>1, <3>2, <1>2
  <2>2. ASSUME NEW i \in 1..Len(l) PROVE l[i].key \in KeysOf(c)
    BY <1>1, <1>d DEF KeysOf
  <2>3. ASSUME NEW i \in 1..Len(m) PROVE m[i].key \in KeysOf(c)
    <3>1. Len(l) + i \in 1..Len(c) /\ c[Len(l) + i] = m[i]
      BY <1>1
    <3> QED BY <3>1, <1>d DEF KeysOf
  <2> QED BY <2>1, <2>2, <2>3, <1>d DEF KeysOf
<1>4. ASSUME NEW k \in KeysOf(m) PROVE c[LastIndex(c, k)] = m[LastIndex(m, k)]
  <2> DEFINE i == LastIndex(m, k)
  <2>1. /\ i \in 1..Len(m) /\ m[i].key = k
        /\ \A j \in 1..Len(m) : m[j].key = k => j <= i
    BY LastIndexIsLast
  <2>2. Len(l) + i \in 1..Len(c) /\ c[Len(l) + i] = m[i]
    BY <2>1, <1>1
  <2>3. ASSUME NEW j \in 1..Len(c), c[j].key = k PROVE j <= Len(l) + i
    <3>1. CASE j \in 1..Len(l)
      BY <3>1, <2>1, <1>1
    <3>2. CASE j - Len(l) \in 1..Len(m)
      <4>1. c[j] = m[j - Len(l)]
        BY <3>2, <1>1
      <4> QED BY <4>1, <3>2, <2>1, <2>3, <1>1
    <3> QED BY <3>1, <3>2, <1>2
  <2> HIDE DEF c, i
  <2>4. LastIndex(c, k) = Len(l) + i
    BY <2>1, <2>2, <2>3, <1>1, LastIndexUnique
  <2> QED BY <2>2, <2>4 DEF i
<1>5. ASSUME NEW k \in KeysOf(l), k \notin KeysOf(m)
      PROVE  c[LastIndex(c, k)] = l[LastIndex(l, k)]
  <2> DEFINE i == LastIndex(l, k)
  <2>1. /\ i \in 1..Len(l) /\ l[i].key = k
        /\ \A j \in 1..Len(l) : l[j].key = k => j <= i
    BY LastIndexIsLast
  <2>2. i \in 1..Len(c) /\ c[i] = l[i]
    BY <2>1, <1>1
  <2>3. ASSUME NEW j \in 1..Len(c), c[j].key = k PROVE j <= i
    <3>1. CASE j \in 1..Len(l)
      BY <3>1, <2>1, <2>3, <1>1
    <3>2. CASE j - Len(l) \in 1..Len(m)
      <4>1. c[j] = m[j - Len(l)]
        BY <3>2, <1>1
      <4> QED BY <4>1, <3>2, <1>5, <2>3 DEF KeysOf
    <3> QED BY <3>1, <3>2, <1>2
  <2> HIDE DEF c, i
  <2>4. LastIndex(c, k) = i
    BY <2>1, <2>2, <2>3, <1>1, LastIndexUnique
  <2> QED BY <2>2, <2>4 DEF i
<1> HIDE DEF c
<1>6. DOMAIN Latest(l) = KeysOf(l)
  BY DEF Latest
<1> QED BY <1>3, <1>4, <1>5, <1>6 DEF Latest, MainAfter, c

(***************************************************************************)
(* Writes, compaction and snapshots keep a store an image of its log.      *)
(***************************************************************************)

\* In an image, history is told apart by revision alone: two records of it
\* with the same revision are the same record.
LEMMA HistByRevision ==
  ASSUME NEW s, NEW l \in Seq(KVs), DenseIn(s, l)
  PROVE  /\ \A h \in RecordsOf(l) : h.revision \in 1..Len(l) /\ h = l[h.revision]
         /\ \A h \in s.hist : h.revision \in 1..Len(l) /\ h = l[h.revision]
<1>1. DOMAIN l = 1..Len(l)
  OBVIOUS
<1> QED BY <1>1 DEF DenseIn, RecordsOf

\* A batch is well formed in a store: its records carry the next revisions.
NextRevisions(s, b) ==
  b \in Batches /\ \A i \in 1..Len(b.kvs) : b.kvs[i].revision = s.revision + i

\* A batch whose records carry the next revisions, in order, extends the log.
LEMMA WriteBatchImage ==
  ASSUME NEW s, NEW l \in Seq(KVs), Image(s, l), NEW b \in Batches,
         \A i \in 1..Len(b.kvs) : b.kvs[i].revision = s.revision + i
  PROVE  Image(WriteBatch(s, b), l \o b.kvs)
<1> DEFINE m   == b.kvs
           t   == WriteBatch(s, b)
           new == RecordsOf(m)
           c   == l \o m
<1>1. /\ m \in Seq(KVs) /\ Len(m) \in Nat /\ Len(l) \in Nat
      /\ c \in Seq(KVs) /\ Len(c) = Len(l) + Len(m)
      /\ DOMAIN c = 1..Len(c) /\ DOMAIN l = 1..Len(l) /\ DOMAIN m = 1..Len(m)
      /\ \A i \in 1..Len(l) : c[i] = l[i]
      /\ \A i \in 1..Len(m) : c[Len(l) + i] = m[i]
  BY DEF Batches
<1>2. /\ IsStore(s) /\ DenseIn(s, l) /\ NoHole(s, l) /\ NewestIn(s)
      /\ s.main = Latest(l) /\ s.revision = Len(l)
  BY DEF Image, DenseIn
<1>3. /\ t.main = MainAfter(s.main, m)
      /\ t.hist = {h \in s.hist : \A n \in new : ~SameVersionKey(h, n)} \cup new
      /\ t.cfg = IF b.cfg
                 THEN {x \in s.cfg : \A n \in new : ~SameConfigKey(x, n)} \cup new
                 ELSE s.cfg
      /\ t.revision = s.revision + Len(m)
      /\ t.compact_rev = s.compact_rev
      /\ t = [main |-> t.main, hist |-> t.hist, cfg |-> t.cfg,
              revision |-> t.revision, compact_rev |-> t.compact_rev]
  BY DEF WriteBatch
<1>4. new \subseteq KVs /\ \A n \in new : n.revision > Len(l)
  BY <1>1, <1>2 DEF RecordsOf
<1>5. t.hist = s.hist \cup new
  <2>1. \A h \in s.hist : \A n \in new : ~SameVersionKey(h, n)
    BY <1>1, <1>2, <1>4, HistByRevision DEF SameVersionKey
  <2> QED BY <2>1, <1>3
<1>6. t.main = Latest(c)
  BY <1>1, <1>2, <1>3, LatestAppend
<1> HIDE DEF c, t, m, new
<1>7. DOMAIN t.main = DOMAIN s.main \cup KeysOf(m)
  BY <1>3 DEF MainAfter
<1>8. ASSUME NEW k \in DOMAIN t.main
      PROVE  t.main[k] \in t.hist
  <2>1. CASE k \in KeysOf(m)
    <3>1. t.main[k] = m[LastIndex(m, k)]
      BY <2>1, <1>3, <1>7 DEF MainAfter
    <3>2. LastIndex(m, k) \in 1..Len(m)
      BY <2>1, <1>1, LastIndexIsLast
    <3>3. m[LastIndex(m, k)] \in new
      BY <3>2, <1>1 DEF RecordsOf, new
    <3> QED BY <3>1, <3>3, <1>5
  <2>2. CASE k \notin KeysOf(m)
    <3>1. k \in DOMAIN s.main /\ t.main[k] = s.main[k]
      BY <2>2, <1>3, <1>7 DEF MainAfter
    <3> QED BY <3>1, <1>2, <1>5 DEF NewestIn
  <2> QED BY <2>1, <2>2
<1>9. IsStore(t)
  <2>1. t.hist \subseteq KVs
    BY <1>2, <1>4, <1>5 DEF IsStore
  <2>2. t.cfg \subseteq KVs
    BY <1>2, <1>3, <1>4 DEF IsStore
  <2>3. t.revision \in Nat /\ t.compact_rev \in Nat
    BY <1>1, <1>2, <1>3 DEF IsStore
  <2>4. KeysOf(m) \subseteq Keys
    <3>1. \A i \in 1..Len(m) : m[i] \in KVs
      BY <1>1
    <3> QED BY <3>1, <1>1 DEF KeysOf, KVs
  <2>5. DOMAIN t.main \subseteq Keys
    BY <2>4, <1>2, <1>7 DEF IsStore
  <2>6. t.main = [k \in DOMAIN t.main |-> t.main[k]]
    BY <1>3 DEF MainAfter
  <2>7. t.main \in [DOMAIN t.main -> KVs]
    BY <2>1, <2>6, <1>8
  <2> QED BY <2>1, <2>2, <2>3, <2>5, <2>7, <1>3 DEF IsStore
<1>10. DenseIn(t, c)
  <2>1. ASSUME NEW i \in 1..Len(c) PROVE c[i].revision = i
    <3>1. CASE i \in 1..Len(l)
      BY <3>1, <1>1, <1>2 DEF DenseIn
    <3>2. CASE i \notin 1..Len(l)
      <4>1. i - Len(l) \in 1..Len(m) /\ c[i] = m[i - Len(l)]
        BY <3>2, <1>1
      <4> QED BY <4>1, <1>1, <1>2 DEF m
    <3> QED BY <3>1, <3>2
  <2>2. RecordsOf(l) \subseteq RecordsOf(c)
    BY <1>1 DEF RecordsOf
  <2>3. ASSUME NEW i \in 1..Len(m) PROVE m[i] \in RecordsOf(c)
    <3>1. Len(l) + i \in 1..Len(c) /\ c[Len(l) + i] = m[i]
      BY <1>1
    <3> QED BY <3>1, <1>1 DEF RecordsOf
  <2>4. new \subseteq RecordsOf(c)
    BY <2>3, <1>1 DEF RecordsOf, new
  <2> QED BY <2>1, <2>2, <2>4, <1>1, <1>2, <1>3, <1>5 DEF DenseIn
<1>11. NoHole(t, c)
  <2> SUFFICES ASSUME NEW i \in 1..Len(c), i > t.compact_rev
               PROVE  c[i] \in t.hist
    BY DEF NoHole
  <2>1. CASE i \in 1..Len(l)
    BY <2>1, <1>1, <1>2, <1>3, <1>5 DEF NoHole
  <2>2. CASE i \notin 1..Len(l)
    <3>1. i - Len(l) \in 1..Len(m) /\ c[i] = m[i - Len(l)]
      BY <2>2, <1>1
    <3> QED BY <3>1, <1>1, <1>5 DEF RecordsOf, new
  <2> QED BY <2>1, <2>2
<1> QED BY <1>6, <1>8, <1>9, <1>10, <1>11 DEF Image, NewestIn, c, t, m

\* A batch with the next revisions overwrites nothing in history.
LEMMA WriteBatchKeepsHist ==
  ASSUME NEW s, NEW l \in Seq(KVs), DenseIn(s, l), NEW b, NextRevisions(s, b)
  PROVE  s.hist \subseteq WriteBatch(s, b).hist
<1> DEFINE m == b.kvs
<1>1. m \in Seq(KVs) /\ DOMAIN m = 1..Len(m) /\ s.revision = Len(l) /\ Len(l) \in Nat
  BY DEF NextRevisions, Batches, DenseIn
<1>2. \A n \in RecordsOf(m) : n.revision > Len(l)
  BY <1>1 DEF NextRevisions, RecordsOf
<1>3. \A h \in s.hist : h.revision \in 1..Len(l)
  BY HistByRevision
<1>4. \A h \in s.hist : \A n \in RecordsOf(m) : ~SameVersionKey(h, n)
  BY <1>1, <1>2, <1>3 DEF SameVersionKey
<1> QED BY <1>4 DEF WriteBatch

\* MaxRevision bounds the revisions of a nonempty set of logged records.
LEMMA MaxRevisionIsMax ==
  ASSUME NEW l \in Seq(KVs), \A i \in 1..Len(l) : l[i].revision = i,
         NEW recs, recs \subseteq RecordsOf(l), recs # {}
  PROVE  /\ MaxRevision(recs) \in 1..Len(l)
         /\ \A h \in recs : h.revision <= MaxRevision(recs)
<1> DEFINE S == {h.revision : h \in recs}
<1>1. \A h \in recs : h.revision \in 1..Len(l)
  BY DEF RecordsOf
<1>2. S \in SUBSET Nat /\ S # {} /\ Len(l) \in Nat /\ \A x \in S : x <= Len(l)
  BY <1>1
<1>3. PICK m \in S : \A x \in S : x <= m
  BY <1>2, MaxExists
<1>4. \E h \in recs : \A x \in recs : x.revision <= h.revision
  BY <1>3
<1>5. /\ (CHOOSE h \in recs : \A x \in recs : x.revision <= h.revision) \in recs
      /\ \A x \in recs : x.revision <=
           (CHOOSE h \in recs : \A y \in recs : y.revision <= h.revision).revision
  BY <1>4
<1> QED BY <1>1, <1>5 DEF MaxRevision

\* Compaction never drops a record that no scanned record of its key is newer
\* than, whatever keep_versions is.
LEMMA ExcessSparesNewest ==
  ASSUME NEW seen, NEW keep \in Int, NEW h \in seen,
         \A x \in seen : x.key = h.key => ~(x.revision > h.revision)
  PROVE  h \notin Excess(seen, keep)
<1>1. {x \in seen : x.key = h.key /\ x.revision > h.revision} = {}
  OBVIOUS
<1>2. Cardinality({}) = 0
  BY FS_EmptySet
<1> QED BY <1>1, <1>2 DEF Excess

\* The batch of a compaction that scanned any part of the log keeps the store
\* an image of it, and compact_rev does not fall.
LEMMA CompactionImage ==
  ASSUME NEW s, NEW l \in Seq(KVs), Image(s, l), NEW keep \in Int,
         NEW seen, seen \subseteq RecordsOf(l)
  PROVE  /\ Image(CompactionWrite(s, Excess(seen, keep)), l)
         /\ CompactionWrite(s, Excess(seen, keep)).compact_rev >= s.compact_rev
         /\ CompactionWrite(s, Excess(seen, keep)).cfg \subseteq s.cfg
<1> DEFINE dropped == Excess(seen, keep)
           t == CompactionWrite(s, dropped)
<1>1. /\ IsStore(s) /\ DenseIn(s, l) /\ NoHole(s, l) /\ NewestIn(s)
      /\ s.main = Latest(l) /\ s.compact_rev \in Nat
  BY DEF Image, IsStore
<1>2. CASE dropped = {}
  BY <1>1, <1>2 DEF CompactionWrite
<1>3. CASE dropped # {}
  <2>1. dropped \subseteq RecordsOf(l)
    BY DEF Excess
  <2>2. /\ \A h \in RecordsOf(l) : h.revision \in 1..Len(l) /\ h = l[h.revision]
        /\ \A h \in s.hist : h.revision \in 1..Len(l) /\ h = l[h.revision]
    BY <1>1, HistByRevision
  <2>3. /\ MaxRevision(dropped) \in 1..Len(l)
        /\ \A h \in dropped : h.revision <= MaxRevision(dropped)
    BY <1>1, <1>3, <2>1, MaxRevisionIsMax DEF DenseIn
  <2>4. ASSUME NEW k \in DOMAIN s.main PROVE s.main[k] \notin dropped
    <3> DEFINE i == LastIndex(l, k)
    <3>1. k \in KeysOf(l) /\ s.main[k] = l[i]
      BY <1>1 DEF Latest
    <3>2. /\ i \in 1..Len(l) /\ l[i].key = k
          /\ \A j \in 1..Len(l) : l[j].key = k => j <= i
      BY <3>1, LastIndexIsLast
    <3>3. l[i].revision = i
      BY <3>2, <1>1 DEF DenseIn
    <3>4. ASSUME NEW x \in seen, x.key = k PROVE ~(x.revision > i)
      BY <3>4, <3>2, <2>2
    <3>5. CASE l[i] \in seen
      BY <3>1, <3>2, <3>3, <3>4, <3>5, ExcessSparesNewest
    <3>6. CASE l[i] \notin seen
      BY <3>1, <3>6 DEF Excess
    <3> QED BY <3>5, <3>6
  <2> HIDE DEF dropped
  <2>5. /\ t.main = s.main /\ t.revision = s.revision
        /\ t.hist = {h \in s.hist : \A d \in dropped : ~SameVersionKey(h, d)}
        /\ t.cfg = {c \in s.cfg : \A d \in dropped : ~SameConfigKey(c, d)}
        /\ t.compact_rev = IF s.compact_rev > MaxRevision(dropped)
                           THEN s.compact_rev ELSE MaxRevision(dropped)
        /\ t = [main |-> t.main, hist |-> t.hist, cfg |-> t.cfg,
                revision |-> t.revision, compact_rev |-> t.compact_rev]
    BY <1>3 DEF CompactionWrite
  <2> HIDE DEF t
  <2>6. t.hist = s.hist \ dropped
    BY <2>1, <2>2, <2>5 DEF SameVersionKey
  <2>7. t.compact_rev \in Nat /\ t.compact_rev >= s.compact_rev
        /\ t.compact_rev >= MaxRevision(dropped)
    BY <2>3, <2>5, <1>1
  <2>8. IsStore(t)
    <3>1. t.hist \subseteq KVs /\ t.cfg \subseteq KVs /\ t.revision \in Nat
      BY <1>1, <2>5 DEF IsStore
    <3>2. t.main \in [DOMAIN t.main -> KVs] /\ DOMAIN t.main \subseteq Keys
      BY <1>1, <2>5 DEF IsStore
    <3> QED BY <3>1, <3>2, <2>5, <2>7 DEF IsStore
  <2>9. DenseIn(t, l)
    BY <2>5, <2>6, <1>1 DEF DenseIn
  <2>10. NoHole(t, l)
    <3> SUFFICES ASSUME NEW i \in 1..Len(l), i > t.compact_rev
                 PROVE  l[i] \in t.hist
      BY DEF NoHole
    <3>1. i > s.compact_rev /\ i > MaxRevision(dropped)
      BY <2>3, <2>7, <1>1
    <3>2. l[i] \in s.hist
      BY <3>1, <1>1 DEF NoHole
    <3>3. l[i] \notin dropped
      BY <3>1, <2>3, <1>1 DEF DenseIn
    <3> QED BY <3>2, <3>3, <2>6
  <2>11. NewestIn(t)
    BY <2>4, <2>5, <2>6, <1>1 DEF NewestIn
  <2>12. t.cfg \subseteq s.cfg
    BY <2>5
  <2> QED BY <2>5, <2>7, <2>8, <2>9, <2>10, <2>11, <2>12, <1>1
          DEF Image, t, dropped
<1> QED BY <1>2, <1>3

\* Loading the snapshot of a log gives an image of that log.
LEMMA LoadSnapshotImage ==
  ASSUME NEW l \in Seq(KVs), \A i \in 1..Len(l) : l[i].revision = i,
         NEW d \in Snapshots, SnapshotOf(d, l)
  PROVE  Image(LoadSnapshot(d), l)
<1> DEFINE t == LoadSnapshot(d)
<1>1. /\ d.revision = Len(l) /\ Len(l) \in Nat
      /\ d.kvs = {Latest(l)[k] : k \in KeysOf(l)}
      /\ d.kvs \subseteq KVs /\ d.cfg_kvs \subseteq KVs
  BY DEF SnapshotOf, Snapshots
<1>2. ASSUME NEW k \in KeysOf(l)
      PROVE  /\ Latest(l)[k] = l[LastIndex(l, k)] /\ Latest(l)[k].key = k
             /\ LastIndex(l, k) \in 1..Len(l)
  BY LastIndexIsLast DEF Latest
<1>3. {kv.key : kv \in d.kvs} = KeysOf(l)
  BY <1>1, <1>2
<1>4. ASSUME NEW k \in KeysOf(l)
      PROVE  (CHOOSE kv \in d.kvs : kv.key = k) = Latest(l)[k]
  <2>1. Latest(l)[k] \in d.kvs /\ Latest(l)[k].key = k
    BY <1>1, <1>2
  <2>2. \A kv \in d.kvs : kv.key = k => kv = Latest(l)[k]
    BY <1>1, <1>2
  <2> QED BY <2>1, <2>2
<1>5. t.main = Latest(l)
  BY <1>3, <1>4 DEF LoadSnapshot, Latest
<1>6. /\ t.hist = d.kvs /\ t.cfg = d.cfg_kvs
      /\ t.revision = Len(l) /\ t.compact_rev = Len(l)
      /\ t = [main |-> t.main, hist |-> t.hist, cfg |-> t.cfg,
              revision |-> t.revision, compact_rev |-> t.compact_rev]
  BY <1>1 DEF LoadSnapshot
<1> HIDE DEF t
<1>7. DOMAIN t.main = KeysOf(l) /\ \A k \in KeysOf(l) : t.main[k] \in d.kvs
  BY <1>1, <1>5 DEF Latest
<1>8. t.main = [k \in DOMAIN t.main |-> t.main[k]]
  BY <1>5 DEF Latest
<1>9. KeysOf(l) \subseteq Keys
  <2>1. \A i \in 1..Len(l) : l[i] \in KVs
    OBVIOUS
  <2> QED BY <2>1 DEF KeysOf, KVs
<1>10. t.main \in [DOMAIN t.main -> KVs]
  BY <1>1, <1>7, <1>8
<1>11. IsStore(t)
  BY <1>1, <1>6, <1>7, <1>9, <1>10 DEF IsStore
<1>12. t.hist \subseteq RecordsOf(l)
  BY <1>1, <1>2, <1>6 DEF RecordsOf
<1> QED BY <1>1, <1>5, <1>6, <1>7, <1>11, <1>12
        DEF Image, DenseIn, NoHole, NewestIn, t

(***************************************************************************)
(* Commands.                                                               *)
(***************************************************************************)

\* The record that a write of any kind puts carries the next version of its
\* key and the revision it was given.
LEMMA NewKVType ==
  ASSUME NEW s, IsStore(s), NEW k \in Keys, NEW v \in Values,
         NEW r \in Nat \ {0}
  PROVE  NewKV(s, k, v, r) \in KVs /\ NewKV(s, k, v, r).revision = r
<1>1. NextVersion(s, k) \in Nat \ {0}
  <2>1. CASE k \in DOMAIN s.main
    <3>1. s.main[k] \in KVs
      BY <2>1 DEF IsStore
    <3>2. s.main[k].version \in Nat
      BY <3>1 DEF KVs
    <3> QED BY <2>1, <3>2 DEF NextVersion, Existed
  <2>2. CASE k \notin DOMAIN s.main
    BY <2>2 DEF NextVersion, Existed
  <2> QED BY <2>1, <2>2
<1> QED BY <1>1 DEF NewKV, KVs

\* The batch of a put holds one record, at the next revision.
LEMMA PutLockedType ==
  ASSUME NEW s, IsStore(s), NEW k \in Keys, NEW v \in Values
  PROVE  NextRevisions(s, PutLocked(s, k, v)) /\ NextRevisions(s, PublishLocked(s, k, v))
<1> DEFINE kv == NewKV(s, k, v, s.revision + 1)
<1>1. s.revision \in Nat
  BY DEF IsStore
<1>2. kv \in KVs /\ kv.revision = s.revision + 1
  BY <1>1, NewKVType
<1> HIDE DEF kv
<1>3. <<kv>> \in Seq(KVs) /\ Len(<<kv>>) = 1 /\ <<kv>>[1] = kv
  BY <1>2
<1>4. PutLocked(s, k, v) = [code |-> "OK", kvs |-> <<kv>>, cfg |-> FALSE]
  BY DEF PutLocked, kv
<1>5. PublishLocked(s, k, v) = [code |-> "OK", kvs |-> <<kv>>, cfg |-> TRUE]
  BY DEF PublishLocked, kv
<1> QED BY <1>2, <1>3, <1>4, <1>5 DEF NextRevisions, Batches

\* A refusal writes nothing.
LEMMA RefusedType ==
  ASSUME NEW s, NEW c \in {"CAS_FAILED", "VERSION_NOT_FOUND", "INTERNAL"}
  PROVE  NextRevisions(s, Refused(c)) /\ Refused(c).kvs = <<>> /\ ~Refused(c).cfg
BY DEF NextRevisions, Refused, Batches

\* Every command turns into a well-formed batch, and a CAS whose expectation
\* does not hold turns into an empty one.
LEMMA PrepareType ==
  ASSUME NEW s, IsStore(s), NEW cmd \in Commands
  PROVE  /\ NextRevisions(s, Prepare(s, cmd))
         /\ cmd.op = "Cas" /\ Prepare(s, cmd).kvs # <<>>
              => CasMatched(s, cmd.key, cmd.expect)
<1> DEFINE b == Prepare(s, cmd)
<1>0. s.revision \in Nat
  BY DEF IsStore
<1>1. CASE cmd \in [op: {"Put", "Publish"}, key: Keys, value: Values]
  <2>1. CASE cmd.op = "Put"
    BY <1>1, <2>1, PutLockedType DEF Prepare
  <2>2. CASE cmd.op = "Publish"
    BY <1>1, <2>2, PutLockedType DEF Prepare
  <2> QED BY <1>1, <2>1, <2>2
<1>2. CASE cmd \in [op: {"Delete"}, key: Keys]
  <2> DEFINE kv == NewKV(s, cmd.key, EmptyStr, s.revision + 1)
             dv == [kv EXCEPT !.deleted = TRUE]
  <2>1. kv \in KVs /\ kv.revision = s.revision + 1
    BY <1>0, <1>2, NewKVType, ValuesAssumption
  <2> HIDE DEF kv
  <2>2. dv \in KVs /\ dv.revision = s.revision + 1
    BY <2>1 DEF KVs
  <2>3. b = [code |-> "OK", cfg |-> FALSE, kvs |-> <<dv>>]
    BY <1>2 DEF Prepare, DeleteLocked, kv
  <2> HIDE DEF dv, b
  <2>4. <<dv>> \in Seq(KVs) /\ Len(<<dv>>) = 1 /\ <<dv>>[1] = dv
    BY <2>2
  <2>5. NextRevisions(s, b)
    BY <2>2, <2>3, <2>4 DEF NextRevisions, Batches
  <2> QED BY <2>5, <1>2 DEF b
<1>3. CASE cmd \in [op: {"Cas"}, key: Keys, expect: Values, value: Values]
  <2>1. b = IF CasMatched(s, cmd.key, cmd.expect)
            THEN PutLocked(s, cmd.key, cmd.value) ELSE Refused("CAS_FAILED")
    BY <1>3 DEF Prepare, CompareAndSwapLocked
  <2>2. NextRevisions(s, PutLocked(s, cmd.key, cmd.value))
    BY <1>3, PutLockedType
  <2> QED BY <2>1, <2>2, RefusedType
<1>4. CASE cmd \in [op: {"Rollback"}, key: Keys, target: Int]
  <2> DEFINE got == GetConfigLocked(s, cmd.key, cmd.target)
  <2>1. b = IF got.code # "OK" THEN Refused("VERSION_NOT_FOUND")
            ELSE PublishLocked(s, cmd.key, (CHOOSE c \in got.found : TRUE).value)
    BY <1>4 DEF Prepare, RollbackLocked
  <2>2. got.found \subseteq KVs /\ (got.code = "OK" => got.found # {})
    <3>1. CASE cmd.target <= 0
      <4>1. got = GetLocked(s, cmd.key)
        BY <3>1 DEF GetConfigLocked
      <4>2. CASE Absent(s, cmd.key)
        BY <4>1, <4>2 DEF GetLocked
      <4>3. CASE ~Absent(s, cmd.key)
        BY <4>1, <4>3 DEF GetLocked, Absent, Existed, IsStore
      <4> QED BY <4>2, <4>3
    <3>2. CASE ~(cmd.target <= 0)
      BY <3>2 DEF GetConfigLocked, IsStore
    <3> QED BY <3>1, <3>2
  <2> HIDE DEF got, b
  <2>3. got.code = "OK" => (CHOOSE c \in got.found : TRUE).value \in Values
    BY <2>2 DEF KVs
  <2>4. NextRevisions(s, b)
    BY <1>4, <2>1, <2>3, PutLockedType, RefusedType
  <2> QED BY <1>4, <2>4 DEF b
<1>5. CASE cmd \in [op: {"BatchPut"}, puts: Seq(Putting)]
  <2> DEFINE p == cmd.puts
             kvs == [i \in 1..Len(p) |->
                       NewKV(s, p[i].key, p[i].value, s.revision + i)]
  <2>1. b = [code |-> "OK", cfg |-> FALSE, kvs |-> kvs]
    BY <1>5 DEF Prepare, BatchPutLocked
  <2>2. p \in Seq(Putting) /\ Len(p) \in Nat
    BY <1>5
  <2>3. ASSUME NEW i \in 1..Len(p)
        PROVE  kvs[i] \in KVs /\ kvs[i].revision = s.revision + i
    <3> HIDE DEF p
    <3>0. p[i] \in Putting
      BY <2>2
    <3>1. p[i].key \in Keys /\ p[i].value \in Values
      BY <3>0 DEF Putting
    <3>2. s.revision + i \in Nat \ {0}
      BY <1>0, <2>2
    <3> QED BY <3>1, <3>2, NewKVType
  <2>4. kvs \in Seq(KVs) /\ Len(kvs) = Len(p)
    <3> DEFINE n == Len(p)
    <3>1. kvs \in [1..n -> KVs] /\ n \in Nat
      BY <2>2, <2>3
    <3> HIDE DEF kvs, n
    <3>2. kvs \in Seq(KVs) /\ Len(kvs) = n
      BY <3>1
    <3> QED BY <3>2 DEF n
  <2> HIDE DEF kvs, b
  <2>5. NextRevisions(s, b)
    BY <2>1, <2>3, <2>4 DEF NextRevisions, Batches
  <2> QED BY <1>5, <2>5 DEF b
<1>6. CASE cmd \in [op: {"Unknown"}]
  BY <1>6, RefusedType DEF Prepare
<1> QED BY <1>1, <1>2, <1>3, <1>4, <1>5, <1>6 DEF Commands

(***************************************************************************)
(* The empty store, and the snapshot of an image.                          *)
(***************************************************************************)

\* The empty store is an image of the empty log.
LEMMA EmptyImage ==
  /\ Image(EmptyStore, <<>>)
  /\ ExportSnapshot(EmptyStore) = [revision |-> 0, kvs |-> {}, cfg_kvs |-> {}]
  /\ SnapshotOf(ExportSnapshot(EmptyStore), <<>>)
<1>1. KeysOf(<<>>) = {} /\ RecordsOf(<<>>) = {}
  BY DEF KeysOf, RecordsOf
<1>2. EmptyStore.main = Latest(<<>>)
  BY <1>1 DEF EmptyStore, Latest
<1>3. EmptyStore.main \in [{} -> KVs] /\ DOMAIN EmptyStore.main = {}
  BY DEF EmptyStore
<1>4. IsStore(EmptyStore)
  BY <1>3 DEF IsStore, EmptyStore
<1>5. ExportSnapshot(EmptyStore) = [revision |-> 0, kvs |-> {}, cfg_kvs |-> {}]
  BY <1>3 DEF ExportSnapshot, EmptyStore
<1> QED BY <1>1, <1>2, <1>3, <1>4, <1>5
        DEF Image, DenseIn, NoHole, NewestIn, EmptyStore, SnapshotOf

\* The export of an image of a log is the snapshot of that log.
LEMMA ExportOfImage ==
  ASSUME NEW s, NEW l \in Seq(KVs), Image(s, l)
  PROVE  /\ ExportSnapshot(s) \in Snapshots
         /\ SnapshotOf(ExportSnapshot(s), l)
         /\ ExportSnapshot(s).cfg_kvs = s.cfg
<1>1. IsStore(s) /\ s.main = Latest(l) /\ s.revision = Len(l)
  BY DEF Image, DenseIn
<1>2. DOMAIN s.main = KeysOf(l)
  BY <1>1 DEF Latest
<1>3. {s.main[k] : k \in DOMAIN s.main} \subseteq KVs
  BY <1>1 DEF IsStore
<1> QED BY <1>1, <1>2, <1>3 DEF ExportSnapshot, Snapshots, SnapshotOf, IsStore

\* A log that grows keeps its records where they are.
LEMMA LogGrowth ==
  ASSUME NEW l \in Seq(KVs), NEW m \in Seq(KVs)
  PROVE  /\ l \o m \in Seq(KVs) /\ Len(l \o m) >= Len(l)
         /\ \A i \in 1..Len(l) : (l \o m)[i] = l[i]
         /\ RecordsOf(l) \subseteq RecordsOf(l \o m)
<1> DEFINE c == l \o m
<1>1. /\ c \in Seq(KVs) /\ Len(c) = Len(l) + Len(m) /\ Len(m) \in Nat
      /\ Len(l) \in Nat /\ \A i \in 1..Len(l) : c[i] = l[i]
      /\ DOMAIN c = 1..Len(c) /\ DOMAIN l = 1..Len(l)
  OBVIOUS
<1> HIDE DEF c
<1>2. Len(c) >= Len(l) /\ RecordsOf(l) \subseteq RecordsOf(c)
  BY <1>1 DEF RecordsOf
<1> QED BY <1>1, <1>2 DEF c

\* Compaction changes neither the main index nor the revision.
LEMMA CompactionKeepsMain ==
  ASSUME NEW s, NEW d
  PROVE  /\ CompactionWrite(s, d).main = s.main
         /\ CompactionWrite(s, d).revision = s.revision
BY DEF CompactionWrite

\* Writing an empty batch leaves the store as it is.
LEMMA EmptyBatch ==
  ASSUME NEW s, IsStore(s), NEW b \in Batches, b.kvs = <<>>
  PROVE  WriteBatch(s, b) = s
<1>1. RecordsOf(b.kvs) = {} /\ KeysOf(b.kvs) = {} /\ Len(b.kvs) = 0
  BY DEF RecordsOf, KeysOf
<1>2. MainAfter(s.main, b.kvs) = s.main
  <2>1. s.main = [k \in DOMAIN s.main |-> s.main[k]]
    BY DEF IsStore
  <2> QED BY <1>1, <2>1 DEF MainAfter
<1>3. s = [main |-> s.main, hist |-> s.hist, cfg |-> s.cfg,
           revision |-> s.revision, compact_rev |-> s.compact_rev]
      /\ s.revision \in Nat
  BY DEF IsStore
<1> QED BY <1>1, <1>2, <1>3 DEF WriteBatch

(***************************************************************************)
(* Compaction keeps enough.                                                *)
(***************************************************************************)

\* The records of a log are finitely many.
LEMMA RecordsFinite ==
  ASSUME NEW l \in Seq(KVs)
  PROVE  IsFiniteSet(RecordsOf(l))
<1>1. IsFiniteSet(1..Len(l)) /\ DOMAIN l = 1..Len(l)
  BY FS_Interval
<1>2. l \in Surjection(1..Len(l), RecordsOf(l))
  BY <1>1 DEF Surjection, RecordsOf
<1> QED BY <1>1, <1>2, FS_Surjection

\* Of the records newer than a dropped one, at least keep are not dropped.  If
\* fewer were kept, the newest of the others would have too few newer ones to
\* be dropped itself.
LEMMA ExcessKeeps ==
  ASSUME NEW l \in Seq(KVs), \A i \in 1..Len(l) : l[i].revision = i,
         NEW seen, seen \subseteq RecordsOf(l), NEW keep \in Int,
         NEW h \in Excess(seen, keep)
  PROVE  Cardinality({x \in seen \ Excess(seen, keep) :
                        x.key = h.key /\ x.revision > h.revision}) >= keep
<1> DEFINE Newer(a) == {x \in seen : x.key = a.key /\ x.revision > a.revision}
           K == IF keep < 1 THEN 1 ELSE keep
           T == {x \in seen \ Excess(seen, keep) :
                   x.key = h.key /\ x.revision > h.revision}
           D == Newer(h) \ T
<1>1. /\ K \in Nat /\ K >= keep
      /\ \A a \in seen : a \in Excess(seen, keep) <=> Cardinality(Newer(a)) >= K
  BY DEF Excess
<1>2. IsFiniteSet(seen)
  BY RecordsFinite, FS_Subset
<1>3. /\ \A a \in seen : IsFiniteSet(Newer(a)) /\ Cardinality(Newer(a)) \in Nat
      /\ IsFiniteSet(T) /\ Cardinality(T) \in Nat
  <2>1. T \subseteq seen /\ \A a \in seen : Newer(a) \subseteq seen
    OBVIOUS
  <2> HIDE DEF T, Newer
  <2> QED BY <1>2, <2>1, FS_Subset, FS_CardinalityType
<1>4. h \in seen /\ Cardinality(Newer(h)) >= K
  BY <1>1 DEF Excess
<1>5. \A x \in seen : x.revision \in 1..Len(l)
  BY DEF RecordsOf
<1>6. SUFFICES ASSUME ~(Cardinality(T) >= K) PROVE FALSE
  BY <1>1, <1>3
<1>7. D # {}
  <2>1. T \subseteq Newer(h)
    OBVIOUS
  <2>2. D = {} => T = Newer(h)
    BY <2>1
  <2> QED BY <2>2, <1>4, <1>6
<1>8. PICK m \in D : \A x \in D : x.revision <= m.revision
  <2> DEFINE S == {x.revision : x \in D}
  <2>1. S \in SUBSET Nat /\ S # {} /\ Len(l) \in Nat /\ \A x \in S : x <= Len(l)
    BY <1>5, <1>7
  <2>2. PICK n \in S : \A x \in S : x <= n
    BY <2>1, MaxExists
  <2> QED BY <2>2
<1>9. m \in seen /\ m.key = h.key /\ m.revision > h.revision /\ m \in Excess(seen, keep)
  BY <1>8
<1>10. Newer(m) \subseteq T
  <2> SUFFICES ASSUME NEW x \in Newer(m) PROVE x \in T
    OBVIOUS
  <2>1. x \in Newer(h) /\ x.revision > m.revision
    BY <1>4, <1>5, <1>9
  <2>2. x \notin D
    BY <2>1, <1>5, <1>8, <1>9
  <2> QED BY <2>1, <2>2
<1> HIDE DEF Newer, T, D, K
<1>11. Cardinality(Newer(m)) <= Cardinality(T)
  BY <1>3, <1>10, FS_Subset
<1> QED BY <1>1, <1>3, <1>6, <1>9, <1>11

(***************************************************************************)
(* Published versions.                                                     *)
(***************************************************************************)

\* The versions of a key never fall along a log.
VersionsGrow(l) ==
  \A i, j \in 1..Len(l) :
    i <= j /\ l[i].key = l[j].key => l[i].version <= l[j].version

\* The records of a batch carry the next versions of their keys, and one that
\* goes under cfg/ is a single record and no tombstone.
NextVersions(s, b) ==
  /\ \A i \in 1..Len(b.kvs) : b.kvs[i].version = NextVersion(s, b.kvs[i].key)
  /\ b.cfg => Len(b.kvs) = 1 /\ ~b.kvs[1].deleted

\* What cfg/ of a store has to do with the records pub that were published to it:
\* it holds those that are still in history and no other, and no other record,
\* published or not, has the key and version of a published one.
PublishedIn(s, l, pub) ==
  /\ pub \subseteq RecordsOf(l)
  /\ s.cfg \subseteq pub
  /\ \A p \in pub : ~p.deleted /\ (p \in s.hist => p \in s.cfg)
  /\ \A p \in pub, h \in RecordsOf(l) : SameConfigKey(p, h) => p = h

\* The records that are published when a batch is written.
PublishedAfter(pub, b) == IF b.cfg THEN pub \cup RecordsOf(b.kvs) ELSE pub

\* GetConfig finds a published version that is still in history, and only it.
LEMMA PublishedIsFound ==
  ASSUME NEW s, NEW l \in Seq(KVs), NEW pub, PublishedIn(s, l, pub),
         NEW p \in pub, p \in s.hist
  PROVE  GetConfigLocked(s, p.key, p.version).found = {p}
<1>1. p \in KVs
  BY DEF PublishedIn, RecordsOf
<1>2. ~(p.version <= 0)
  BY <1>1 DEF KVs
<1>3. p \in s.cfg /\ ~p.deleted
  BY DEF PublishedIn
<1>4. ASSUME NEW c \in s.cfg, c.key = p.key, c.version = p.version
      PROVE  c = p
  BY <1>4 DEF PublishedIn, SameConfigKey
<1>5. {c \in s.cfg : c.key = p.key /\ c.version = p.version /\ ~c.deleted} = {p}
  BY <1>3, <1>4
<1> QED BY <1>2, <1>5 DEF GetConfigLocked

\* The next version of a key is above all its versions so far.
LEMMA NextVersionIsNew ==
  ASSUME NEW s, NEW l \in Seq(KVs), Image(s, l), VersionsGrow(l),
         NEW i \in 1..Len(l)
  PROVE  l[i].version < NextVersion(s, l[i].key)
<1> DEFINE k == l[i].key
           n == LastIndex(l, k)
<1>1. k \in KeysOf(l) /\ \A j \in 1..Len(l) : l[j] \in KVs
  BY DEF KeysOf
<1>2. n \in 1..Len(l) /\ l[n].key = k /\ i <= n
  BY <1>1, LastIndexIsLast
<1>3. s.main = Latest(l)
  BY DEF Image
<1>4. k \in DOMAIN s.main /\ s.main[k] = l[n]
  BY <1>1, <1>3 DEF Latest
<1>5. l[i].version <= l[n].version /\ l[i].version \in Nat /\ l[n].version \in Nat
  BY <1>1, <1>2 DEF VersionsGrow, KVs
<1>6. NextVersion(s, k) = l[n].version + 1
  BY <1>4 DEF NextVersion, Existed
<1> HIDE DEF n, k
<1>7. l[i].version < NextVersion(s, k)
  BY <1>5, <1>6
<1> QED BY <1>7 DEF k

\* Writing a batch with the next revisions and versions: a published record gets a
\* version that nothing else has, and nothing that follows can take it.
LEMMA WriteBatchPublished ==
  ASSUME NEW s, NEW l \in Seq(KVs), NEW pub, Image(s, l), VersionsGrow(l),
         PublishedIn(s, l, pub), NEW b, NextRevisions(s, b), NextVersions(s, b)
  PROVE  /\ VersionsGrow(l \o b.kvs)
         /\ PublishedIn(WriteBatch(s, b), l \o b.kvs, PublishedAfter(pub, b))
<1> DEFINE m == b.kvs
           c == l \o m
           t == WriteBatch(s, b)
           new == RecordsOf(m)
           pubN == PublishedAfter(pub, b)
<1>1. /\ m \in Seq(KVs) /\ Len(m) \in Nat /\ Len(l) \in Nat
      /\ c \in Seq(KVs) /\ Len(c) = Len(l) + Len(m)
      /\ DOMAIN c = 1..Len(c) /\ DOMAIN l = 1..Len(l) /\ DOMAIN m = 1..Len(m)
      /\ \A i \in 1..Len(l) : c[i] = l[i]
      /\ \A i \in 1..Len(m) : c[Len(l) + i] = m[i]
  BY DEF NextRevisions, Batches
<1>2. /\ t.hist = {h \in s.hist : \A n \in new : ~SameVersionKey(h, n)} \cup new
      /\ t.cfg = IF b.cfg
                 THEN {x \in s.cfg : \A n \in new : ~SameConfigKey(x, n)} \cup new
                 ELSE s.cfg
  BY DEF WriteBatch
<1>3. \A i \in 1..Len(m) : m[i].version = NextVersion(s, m[i].key) /\ m[i].version \in Nat
  <2>1. \A i \in 1..Len(m) : m[i] \in KVs
    BY <1>1
  <2> QED BY <2>1 DEF NextVersions, KVs
<1>4. \A i \in 1..Len(l) : l[i].version < NextVersion(s, l[i].key) /\ l[i].version \in Nat
  <2>1. \A i \in 1..Len(l) : l[i] \in KVs
    BY <1>1
  <2> QED BY <2>1, NextVersionIsNew DEF KVs
<1>s. \A i \in 1..Len(c) :
        i \notin 1..Len(l) => i - Len(l) \in 1..Len(m) /\ c[i] = m[i - Len(l)]
  <2> HIDE DEF c, m
  <2> QED BY <1>1
<1>p. b.cfg => Len(m) = 1 /\ ~m[1].deleted
  BY DEF NextVersions
<1> HIDE DEF c, t, m
<1>5. VersionsGrow(c)
  <2> SUFFICES ASSUME NEW i \in 1..Len(c), NEW j \in 1..Len(c), i <= j,
                      c[i].key = c[j].key
               PROVE  c[i].version <= c[j].version
    BY DEF VersionsGrow
  <2>1. CASE j \in 1..Len(l)
    <3>1. i \in 1..Len(l)
      BY <2>1, <1>1
    <3> QED BY <2>1, <3>1, <1>1 DEF VersionsGrow
  <2>2. CASE j \notin 1..Len(l)
    <3>1. j - Len(l) \in 1..Len(m) /\ c[j] = m[j - Len(l)]
      BY <2>2, <1>s
    <3>2. CASE i \in 1..Len(l)
      <4>1. c[i] = l[i] /\ l[i].version < NextVersion(s, l[i].key) /\ l[i].version \in Nat
        BY <3>2, <1>1, <1>4
      <4>2. c[j].version = NextVersion(s, c[j].key) /\ c[j].version \in Nat
        BY <3>1, <1>3
      <4>3. NextVersion(s, l[i].key) = c[j].version
        BY <4>1, <4>2
      <4> QED BY <4>1, <4>2, <4>3
    <3>3. CASE i \notin 1..Len(l)
      <4>1. i - Len(l) \in 1..Len(m) /\ c[i] = m[i - Len(l)]
        BY <3>3, <1>s
      <4>2. c[j].version = NextVersion(s, c[j].key) /\ c[j].version \in Nat
        BY <3>1, <1>3
      <4>3. c[i].version = NextVersion(s, c[i].key)
        BY <4>1, <1>3
      <4>4. c[i].version = c[j].version
        BY <4>2, <4>3
      <4> QED BY <4>2, <4>4
    <3> QED BY <3>2, <3>3
  <2> QED BY <2>1, <2>2
<1>6. RecordsOf(c) = RecordsOf(l) \cup new
  <2>0. /\ RecordsOf(c) = {c[i] : i \in 1..Len(c)} /\ RecordsOf(l) = {l[i] : i \in 1..Len(l)}
        /\ RecordsOf(m) = {m[i] : i \in 1..Len(m)}
    BY <1>1 DEF RecordsOf
  <2>1. ASSUME NEW i \in 1..Len(l) PROVE l[i] \in RecordsOf(c)
    <3>1. i \in 1..Len(c) /\ c[i] = l[i]
      BY <1>1
    <3> QED BY <2>0, <3>1
  <2>2. ASSUME NEW i \in 1..Len(m) PROVE m[i] \in RecordsOf(c)
    <3>1. Len(l) + i \in 1..Len(c) /\ c[Len(l) + i] = m[i]
      BY <1>1
    <3> QED BY <3>1, <1>1 DEF RecordsOf
  <2>3. ASSUME NEW i \in 1..Len(c) PROVE c[i] \in RecordsOf(l) \cup RecordsOf(m)
    <3>1. CASE i \in 1..Len(l)
      BY <3>1, <1>1 DEF RecordsOf
    <3>2. CASE i \notin 1..Len(l)
      <4>1. i - Len(l) \in 1..Len(m) /\ c[i] = m[i - Len(l)]
        BY <3>2, <1>s
      <4> QED BY <4>1, <1>1 DEF RecordsOf
    <3> QED BY <3>1, <3>2
  <2>4. RecordsOf(c) \subseteq RecordsOf(l) \cup RecordsOf(m)
    BY <2>0, <2>3
  <2>5. RecordsOf(l) \subseteq RecordsOf(c) /\ RecordsOf(m) \subseteq RecordsOf(c)
    BY <2>0, <2>1, <2>2
  <2> QED BY <2>4, <2>5
<1>7. \A h \in RecordsOf(l) : \A n \in new : ~SameConfigKey(h, n)
  <2> SUFFICES ASSUME NEW i \in 1..Len(l), NEW j \in 1..Len(m), l[i].key = m[j].key
               PROVE  l[i].version # m[j].version
    BY <1>1 DEF RecordsOf, SameConfigKey
  <2>1. l[i].version < NextVersion(s, l[i].key) /\ l[i].version \in Nat
    BY <1>4
  <2>2. m[j].version = NextVersion(s, m[j].key) /\ m[j].version \in Nat
    BY <1>3
  <2>3. NextVersion(s, l[i].key) = m[j].version
    BY <2>2
  <2> QED BY <2>1, <2>2, <2>3
<1>8. b.cfg => \E n : new = {n} /\ ~n.deleted
  <2> SUFFICES ASSUME b.cfg PROVE new = {m[1]} /\ ~m[1].deleted
    OBVIOUS
  <2> QED BY <1>p, <1>1 DEF RecordsOf
<1> HIDE DEF new
<1>9. /\ pub \subseteq RecordsOf(l) /\ s.cfg \subseteq pub
      /\ \A p \in pub : ~p.deleted /\ (p \in s.hist => p \in s.cfg)
      /\ \A p \in pub, h \in RecordsOf(l) : SameConfigKey(p, h) => p = h
      /\ s.hist \subseteq RecordsOf(l)
  BY DEF PublishedIn, Image, DenseIn
<1>10. new \cap RecordsOf(l) = {}
  BY <1>7 DEF SameConfigKey
<1>11. CASE ~b.cfg
  <2>1. pubN = pub /\ t.cfg = s.cfg
    BY <1>2, <1>11 DEF PublishedAfter
  <2>2. ASSUME NEW p \in pub, p \in t.hist PROVE p \in s.cfg
    BY <2>2, <1>2, <1>9, <1>10
  <2>3. \A p \in pub, h \in RecordsOf(c) : SameConfigKey(p, h) => p = h
    BY <1>6, <1>7, <1>9
  <2> QED BY <2>1, <2>2, <2>3, <1>5, <1>6, <1>9 DEF PublishedIn, c, t, m
<1>12. CASE b.cfg
  <2>1. pubN = pub \cup new
    BY <1>12 DEF PublishedAfter, new, m
  <2>2. t.cfg = s.cfg \cup new
    BY <1>2, <1>7, <1>9, <1>12
  <2>3. PICK n : new = {n} /\ ~n.deleted
    BY <1>8, <1>12
  <2>4. ASSUME NEW p \in pub, p \in t.hist PROVE p \in t.cfg
    BY <2>2, <2>4, <1>2, <1>9, <1>10
  <2>5. ASSUME NEW p \in pub \cup new, NEW h \in RecordsOf(l) \cup new, SameConfigKey(p, h)
        PROVE  p = h
    <3>1. CASE p \in new /\ h \in RecordsOf(l)
      BY <3>1, <2>5, <1>7 DEF SameConfigKey
    <3>2. CASE p \in new /\ h \in new
      BY <3>2, <2>3
    <3>3. CASE p \in pub
      BY <3>3, <2>5, <1>7, <1>9
    <3> QED BY <3>1, <3>2, <3>3, <2>5
  <2> HIDE DEF pubN
  <2>6. /\ pubN \subseteq RecordsOf(c) /\ t.cfg \subseteq pubN
        /\ \A p \in pubN : ~p.deleted /\ (p \in t.hist => p \in t.cfg)
    BY <2>1, <2>2, <2>3, <2>4, <1>6, <1>9
  <2>7. \A p \in pubN, h \in RecordsOf(c) : SameConfigKey(p, h) => p = h
    BY <2>1, <2>5, <1>6
  <2> QED BY <2>6, <2>7, <1>5 DEF PublishedIn, c, t, m, pubN
<1> QED BY <1>11, <1>12

\* Compaction takes a version from cfg/ only with its own record.
LEMMA CompactionPublished ==
  ASSUME NEW s, NEW l \in Seq(KVs), NEW pub, DenseIn(s, l), PublishedIn(s, l, pub),
         NEW dropped, dropped \subseteq RecordsOf(l)
  PROVE  PublishedIn(CompactionWrite(s, dropped), l, pub)
<1> DEFINE t == CompactionWrite(s, dropped)
<1>1. CASE dropped = {}
  BY <1>1 DEF CompactionWrite
<1>2. CASE dropped # {}
  <2>1. /\ t.hist = {h \in s.hist : \A d \in dropped : ~SameVersionKey(h, d)}
        /\ t.cfg = {c \in s.cfg : \A d \in dropped : ~SameConfigKey(c, d)}
    BY <1>2 DEF CompactionWrite
  <2>2. ASSUME NEW p \in pub, p \in t.hist PROVE p \in t.cfg
    <3>1. p \in s.cfg
      BY <2>1, <2>2 DEF PublishedIn
    <3>2. ASSUME NEW d \in dropped, SameConfigKey(p, d) PROVE FALSE
      <4>1. p = d
        BY <3>2 DEF PublishedIn
      <4> QED BY <4>1, <2>1, <2>2 DEF SameVersionKey
    <3> QED BY <2>1, <3>1, <3>2
  <2> HIDE DEF t
  <2>3. PublishedIn(t, l, pub)
    BY <2>1, <2>2 DEF PublishedIn
  <2> QED BY <2>3 DEF t
<1> QED BY <1>1, <1>2

\* A store that is loaded from the snapshot of another has no more history.
LEMMA ReloadedPublished ==
  ASSUME NEW s, NEW l, NEW pub, NewestIn(s), PublishedIn(s, l, pub)
  PROVE  PublishedIn(LoadSnapshot(ExportSnapshot(s)), l, pub)
<1> DEFINE t == LoadSnapshot(ExportSnapshot(s))
<1>1. t.hist = {s.main[k] : k \in DOMAIN s.main} /\ t.cfg = s.cfg
  BY DEF LoadSnapshot, ExportSnapshot
<1>2. t.hist \subseteq s.hist
  BY <1>1 DEF NewestIn
<1> HIDE DEF t
<1>3. PublishedIn(t, l, pub)
  BY <1>1, <1>2 DEF PublishedIn
<1> QED BY <1>3 DEF t

\* A record of any kind carries the next version of its key.
LEMMA NewKVVersion ==
  ASSUME NEW s, NEW k, NEW v, NEW r
  PROVE  /\ NewKV(s, k, v, r).key = k
         /\ NewKV(s, k, v, r).version = NextVersion(s, k)
         /\ ~NewKV(s, k, v, r).deleted
BY DEF NewKV

\* Every command turns into a batch with the next versions.
LEMMA PrepareVersions ==
  ASSUME NEW s, NEW cmd \in Commands
  PROVE  NextVersions(s, Prepare(s, cmd))
<1>1. \A k, v : NextVersions(s, PutLocked(s, k, v)) /\ NextVersions(s, PublishLocked(s, k, v))
  <2> SUFFICES ASSUME NEW k, NEW v
               PROVE  NextVersions(s, PutLocked(s, k, v)) /\ NextVersions(s, PublishLocked(s, k, v))
    OBVIOUS
  <2> DEFINE kv == NewKV(s, k, v, s.revision + 1)
  <2>1. kv.version = NextVersion(s, kv.key) /\ ~kv.deleted
    BY NewKVVersion
  <2>2. PutLocked(s, k, v) = [code |-> "OK", kvs |-> <<kv>>, cfg |-> FALSE]
        /\ PublishLocked(s, k, v) = [code |-> "OK", kvs |-> <<kv>>, cfg |-> TRUE]
    BY DEF PutLocked, PublishLocked
  <2> HIDE DEF kv
  <2> QED BY <2>1, <2>2 DEF NextVersions
<1>2. \A code : NextVersions(s, Refused(code))
  BY DEF NextVersions, Refused
<1>3. \A k : NextVersions(s, DeleteLocked(s, k))
  <2> SUFFICES ASSUME NEW k PROVE NextVersions(s, DeleteLocked(s, k))
    OBVIOUS
  <2> DEFINE kv == NewKV(s, k, EmptyStr, s.revision + 1)
             dv == [kv EXCEPT !.deleted = TRUE]
  <2>1. dv.version = kv.version /\ dv.key = kv.key
    BY DEF NewKV
  <2>2. kv.version = NextVersion(s, kv.key)
    BY NewKVVersion
  <2>3. DeleteLocked(s, k) = [code |-> "OK", cfg |-> FALSE, kvs |-> <<dv>>]
    BY DEF DeleteLocked
  <2> HIDE DEF dv, kv
  <2> QED BY <2>1, <2>2, <2>3 DEF NextVersions
<1>4. CASE cmd.op = "BatchPut"
  <2> DEFINE p == cmd.puts
             kvs == [i \in 1..Len(p) |-> NewKV(s, p[i].key, p[i].value, s.revision + i)]
  <2>1. Prepare(s, cmd) = [code |-> "OK", cfg |-> FALSE, kvs |-> kvs]
    BY <1>4 DEF Prepare, BatchPutLocked
  <2>2. Len(p) \in Nat
    BY <1>4 DEF Commands
  <2>3. \A i \in 1..Len(p) : kvs[i].version = NextVersion(s, kvs[i].key)
    BY NewKVVersion
  <2>4. Len(kvs) = Len(p)
    BY <2>2
  <2> HIDE DEF kvs
  <2> QED BY <2>1, <2>3, <2>4 DEF NextVersions
<1>5. CASE cmd.op # "BatchPut"
  BY <1>1, <1>2, <1>3, <1>5 DEF Prepare, CompareAndSwapLocked, RollbackLocked
<1> QED BY <1>4, <1>5

(***************************************************************************)
(* Commands executed one after the other.                                  *)
(***************************************************************************)

\* A batch of records leaves a store a store.
LEMMA WriteBatchIsStore ==
  ASSUME NEW s, IsStore(s), NEW b \in Batches
  PROVE  IsStore(WriteBatch(s, b))
<1> DEFINE m   == b.kvs
           t   == WriteBatch(s, b)
           new == RecordsOf(m)
<1>1. /\ m \in Seq(KVs) /\ Len(m) \in Nat /\ DOMAIN m = 1..Len(m)
      /\ \A i \in 1..Len(m) : m[i] \in KVs
  BY DEF Batches
<1>2. /\ t.main = MainAfter(s.main, m)
      /\ t.hist = {h \in s.hist : \A n \in new : ~SameVersionKey(h, n)} \cup new
      /\ t.cfg = IF b.cfg
                 THEN {x \in s.cfg : \A n \in new : ~SameConfigKey(x, n)} \cup new
                 ELSE s.cfg
      /\ t.revision = s.revision + Len(m)
      /\ t.compact_rev = s.compact_rev
      /\ t = [main |-> t.main, hist |-> t.hist, cfg |-> t.cfg,
              revision |-> t.revision, compact_rev |-> t.compact_rev]
  BY DEF WriteBatch
<1>3. new \subseteq KVs /\ KeysOf(m) \subseteq Keys
  BY <1>1 DEF RecordsOf, KeysOf, KVs
<1> HIDE DEF t, m, new
<1>4. t.hist \subseteq KVs /\ t.cfg \subseteq KVs
  BY <1>2, <1>3 DEF IsStore
<1>5. t.revision \in Nat /\ t.compact_rev \in Nat
  BY <1>1, <1>2 DEF IsStore
<1>6. DOMAIN t.main = DOMAIN s.main \cup KeysOf(m)
      /\ t.main = [k \in DOMAIN t.main |-> t.main[k]]
  BY <1>2 DEF MainAfter
<1>7. ASSUME NEW k \in DOMAIN t.main PROVE t.main[k] \in KVs
  <2>1. CASE k \in KeysOf(m)
    <3>1. t.main[k] = m[LastIndex(m, k)]
      BY <2>1, <1>2, <1>6 DEF MainAfter
    <3>2. LastIndex(m, k) \in 1..Len(m)
      BY <2>1, <1>1, LastIndexIsLast
    <3> QED BY <3>1, <3>2, <1>1
  <2>2. CASE k \notin KeysOf(m)
    <3>1. k \in DOMAIN s.main /\ t.main[k] = s.main[k]
      BY <2>2, <1>2, <1>6 DEF MainAfter
    <3> QED BY <3>1 DEF IsStore
  <2> QED BY <2>1, <2>2
<1>8. DOMAIN t.main \subseteq Keys
  BY <1>3, <1>6 DEF IsStore
<1>9. t.main \in [DOMAIN t.main -> KVs]
  BY <1>6, <1>7
<1>10. IsStore(t)
  BY <1>2, <1>4, <1>5, <1>8, <1>9 DEF IsStore
<1> QED BY <1>10 DEF t

\* Whatever command is applied, with or without success, a store is left.
LEMMA ApplyIsStore ==
  ASSUME NEW s, IsStore(s), NEW cmd \in Commands, NEW ok
  PROVE  /\ IsStore(ApplyCmdToStore(s, cmd, ok).store)
         /\ ApplyCmdToStore(s, cmd, ok).code
              \in {"OK", "CAS_FAILED", "VERSION_NOT_FOUND", "INTERNAL"}
<1> DEFINE b == Prepare(s, cmd)
<1>1. b \in Batches
  BY PrepareType DEF NextRevisions
<1>2. IsStore(WriteBatch(s, b))
  BY <1>1, WriteBatchIsStore
<1>3. b.code \in {"OK", "CAS_FAILED", "VERSION_NOT_FOUND", "INTERNAL"}
  BY <1>1 DEF Batches
<1> HIDE DEF b
<1>4. \/ /\ ApplyCmdToStore(s, cmd, ok).store = s
         /\ ApplyCmdToStore(s, cmd, ok).code = "INTERNAL"
      \/ /\ ApplyCmdToStore(s, cmd, ok).store = WriteBatch(s, b)
         /\ ApplyCmdToStore(s, cmd, ok).code = b.code
  BY DEF ApplyCmdToStore, b
<1> QED BY <1>2, <1>3, <1>4

\* An unknown command is refused and leaves the store as it is.
LEMMA UnknownIsRefused ==
  ASSUME NEW s, IsStore(s)
  PROVE  ApplyCmdToStore(s, [op |-> "Unknown"], TRUE).store = s
<1> DEFINE u == [op |-> "Unknown"]
<1>0. u.op = "Unknown"
  OBVIOUS
<1> HIDE DEF u
<1>1. Prepare(s, u) = Refused("INTERNAL")
  BY <1>0 DEF Prepare
<1>2. Refused("INTERNAL") \in Batches /\ Refused("INTERNAL").kvs = <<>>
  BY RefusedType DEF NextRevisions
<1>3. WriteBatch(s, Refused("INTERNAL")) = s
  BY <1>2, EmptyBatch
<1>4. ApplyCmdToStore(s, u, TRUE).store = WriteBatch(s, Prepare(s, u))
  BY DEF ApplyCmdToStore
<1> QED BY <1>1, <1>3, <1>4 DEF u

\* f holds the outcomes of the first n commands.
Runs(f, cmds, n) ==
  /\ f[0] = Unwritten
  /\ \A i \in 1..n : f[i] = ApplyCmdToStore(f[i - 1].store, cmds[i], TRUE)

\* Runs over commands that agree, agree.
LEMMA RunsAgree ==
  ASSUME NEW f, NEW g, NEW cs, NEW ds, NEW n \in Nat, Runs(f, cs, n), Runs(g, ds, n),
         \A i \in 1..n : cs[i] = ds[i]
  PROVE  f[n] = g[n]
<1> DEFINE T == {i \in 0..n : f[i] # g[i]}
<1> SUFFICES ASSUME T # {} PROVE FALSE
  OBVIOUS
<1>1. PICK m \in T : \A x \in T : m <= x
  <2>1. T \in SUBSET Nat
    OBVIOUS
  <2> HIDE DEF T
  <2> QED BY <2>1, MinExists
<1>2. m # 0
  BY DEF Runs
<1>3. m - 1 \in 0..n /\ m \in 1..n /\ m - 1 \notin T
  BY <1>1, <1>2
<1>4. f[m - 1] = g[m - 1]
  BY <1>3
<1>5. /\ f[m] = ApplyCmdToStore(f[m - 1].store, cs[m], TRUE)
      /\ g[m] = ApplyCmdToStore(g[m - 1].store, ds[m], TRUE)
  BY <1>3 DEF Runs
<1> QED BY <1>1, <1>3, <1>4, <1>5

\* There is a run over any number of commands.
LEMMA RunsExist ==
  ASSUME NEW cs
  PROVE  \A n \in Nat : \E f : Runs(f, cs, n)
<1> DEFINE T == {n \in Nat : ~ \E f : Runs(f, cs, n)}
<1> SUFFICES ASSUME T # {} PROVE FALSE
  OBVIOUS
<1>1. PICK m \in T : \A x \in T : m <= x
  <2>1. T \in SUBSET Nat
    OBVIOUS
  <2> HIDE DEF T
  <2> QED BY <2>1, MinExists
<1>2. Runs([i \in {0} |-> Unwritten], cs, 0)
  BY DEF Runs
<1>3. m # 0
  BY <1>2
<1>4. PICK f : Runs(f, cs, m - 1)
  <2>1. m - 1 \in Nat /\ m - 1 \notin T
    BY <1>1, <1>3
  <2> QED BY <2>1
<1> DEFINE g == [i \in 0..m |-> IF i = m THEN ApplyCmdToStore(f[m - 1].store, cs[m], TRUE) ELSE f[i]]
<1>5. Runs(g, cs, m)
  <2>0. m \in Nat
    BY <1>1
  <2>1. ASSUME NEW i \in 0..(m - 1) PROVE g[i] = f[i]
    <3>1. i \in 0..m /\ i # m
      BY <2>0
    <3> HIDE DEF T
    <3> QED BY <3>1
  <2>2. m \in Nat /\ g[m] = ApplyCmdToStore(f[m - 1].store, cs[m], TRUE)
    BY <1>1
  <2> HIDE DEF g
  <2>3. g[0] = Unwritten
    BY <2>1, <1>4, <1>3, <2>2 DEF Runs
  <2>4. ASSUME NEW i \in 1..m PROVE g[i] = ApplyCmdToStore(g[i - 1].store, cs[i], TRUE)
    <3>1. g[i - 1] = f[i - 1]
      BY <2>1, <2>2
    <3>2. CASE i = m
      BY <3>1, <3>2, <2>2
    <3>3. CASE i # m
      <4>1. i \in 1..(m - 1) /\ g[i] = f[i]
        BY <3>3, <2>1, <2>2
      <4> QED BY <4>1, <3>1, <1>4 DEF Runs
    <3> QED BY <3>2, <3>3
  <2> QED BY <2>3, <2>4 DEF Runs
<1> QED BY <1>1, <1>5

\* Executed satisfies the equations it is defined by.
LEMMA ExecutedIsRun ==
  ASSUME NEW cs, NEW n \in Nat
  PROVE  Runs(Executed(cs), cs, n)
<1> DEFINE F == [i \in Nat |-> (CHOOSE h : Runs(h, cs, i))[i]]
           Rec(g) == [i \in Nat |-> IF i = 0 THEN Unwritten ELSE ApplyCmdToStore(g[i - 1].store, cs[i], TRUE)]
<1>1. \A i \in Nat : Runs(CHOOSE h : Runs(h, cs, i), cs, i)
  BY RunsExist
<1>2. F = Rec(F)
  <2>1. ASSUME NEW i \in Nat PROVE F[i] = Rec(F)[i]
    <3> DEFINE f == CHOOSE h : Runs(h, cs, i)
               e == CHOOSE h : Runs(h, cs, i - 1)
    <3>1. Runs(f, cs, i) /\ F[i] = f[i]
      BY <1>1
    <3>2. CASE i = 0
      BY <3>1, <3>2 DEF Runs
    <3>3. CASE i # 0
      <4>1. i - 1 \in Nat /\ i \in 1..i
        BY <3>3
      <4>2. Runs(e, cs, i - 1) /\ F[i - 1] = e[i - 1]
        BY <1>1, <4>1
      <4> HIDE DEF e, f, F
      <4>3. Runs(f, cs, i - 1)
        <5>1. \A j \in 1..(i - 1) : j \in 1..i
          BY <4>1
        <5> QED BY <3>1, <5>1 DEF Runs
      <4>4. f[i - 1] = e[i - 1]
        BY <4>1, <4>2, <4>3, RunsAgree
      <4>5. f[i] = ApplyCmdToStore(f[i - 1].store, cs[i], TRUE)
        BY <4>1, <3>1 DEF Runs
      <4> QED BY <3>1, <3>3, <4>2, <4>4, <4>5
    <3> QED BY <3>2, <3>3
  <2>2. F = [i \in Nat |-> F[i]]
    OBVIOUS
  <2> HIDE DEF F
  <2>3. Rec(F) = [i \in Nat |-> Rec(F)[i]]
    OBVIOUS
  <2> HIDE DEF Rec
  <2> QED BY <2>1, <2>2, <2>3
<1>3. Executed(cs) = Rec(Executed(cs))
  <2> HIDE DEF F
  <2> QED BY <1>2, Zenon DEF Executed
<1> HIDE DEF F
<1>4. Executed(cs)[0] = Unwritten
  BY <1>3
<1>5. ASSUME NEW i \in 1..n PROVE Executed(cs)[i] = ApplyCmdToStore(Executed(cs)[i - 1].store, cs[i], TRUE)
  <2>1. i \in Nat /\ i # 0
    OBVIOUS
  <2> DEFINE E == Executed(cs)
  <2>2. E = Rec(E)
    BY <1>3
  <2> HIDE DEF E
  <2>3. E[i] = Rec(E)[i]
    BY <2>2
  <2>4. E[i] = ApplyCmdToStore(E[i - 1].store, cs[i], TRUE)
    BY <2>1, <2>3
  <2> QED BY <2>4 DEF E
<1> QED BY <1>4, <1>5 DEF Runs

\* The outcome of a prefix depends on that prefix alone.
LEMMA ExecutedAgrees ==
  ASSUME NEW cs, NEW ds, NEW n \in Nat, \A i \in 1..n : cs[i] = ds[i]
  PROVE  Executed(cs)[n] = Executed(ds)[n]
<1> DEFINE f == Executed(cs)
           g == Executed(ds)
<1>1. Runs(f, cs, n) /\ Runs(g, ds, n)
  BY ExecutedIsRun
<1> HIDE DEF f, g
<1>2. f[n] = g[n]
  BY <1>1, RunsAgree
<1> QED BY <1>2 DEF f, g

\* The next command is executed on the store that the ones before it have left.
LEMMA ExecutedStep ==
  ASSUME NEW cs
  PROVE  /\ Executed(cs)[0].store = EmptyStore
         /\ \A n \in Nat : Executed(cs)[n + 1] =
                            ApplyCmdToStore(Executed(cs)[n].store, cs[n + 1], TRUE)
<1> DEFINE f == Executed(cs)
<1>1. \A n \in Nat : Runs(f, cs, n)
  BY ExecutedIsRun
<1> HIDE DEF f
<1>2. f[0].store = EmptyStore
  <2>1. f[0] = Unwritten
    BY <1>1 DEF Runs
  <2> QED BY <2>1 DEF Unwritten
<1>3. ASSUME NEW n \in Nat
      PROVE  f[n + 1] = ApplyCmdToStore(f[n].store, cs[n + 1], TRUE)
  <2>1. n + 1 \in Nat /\ n + 1 \in 1..(n + 1) /\ (n + 1) - 1 = n
    OBVIOUS
  <2>2. f[n + 1] = ApplyCmdToStore(f[(n + 1) - 1].store, cs[n + 1], TRUE)
    BY <2>1, <1>1 DEF Runs
  <2> QED BY <2>1, <2>2
<1> QED BY <1>2, <1>3, Zenon DEF f

\* Commands leave a store.
LEMMA ExecutedIsStore ==
  ASSUME NEW cs, NEW n \in Nat, \A i \in 1..n : cs[i] \in Commands
  PROVE  IsStore(Executed(cs)[n].store)
<1> DEFINE f == Executed(cs)
           T == {i \in 0..n : ~IsStore(f[i].store)}
<1> SUFFICES ASSUME T # {} PROVE FALSE
  OBVIOUS
<1>1. PICK m \in T : \A x \in T : m <= x
  <2>1. T \in SUBSET Nat
    OBVIOUS
  <2> HIDE DEF T
  <2> QED BY <2>1, MinExists
<1>2. m # 0
  <2>1. f[0].store = EmptyStore
    BY ExecutedStep
  <2>2. IsStore(EmptyStore)
    BY EmptyImage DEF Image
  <2> HIDE DEF f
  <2> QED BY <1>1, <2>1, <2>2
<1>3. m - 1 \in 0..n /\ m \in 1..n /\ m - 1 \notin T
  <2>1. m \in 0..n
    BY <1>1
  <2> HIDE DEF f, T
  <2>2. m - 1 \in 0..n /\ m \in 1..n /\ ~(m <= m - 1)
    BY <2>1, <1>2
  <2> QED BY <2>2, <1>1
<1>4. IsStore(f[m - 1].store)
  BY <1>3
<1>5. f[m] = ApplyCmdToStore(f[m - 1].store, cs[m], TRUE)
  <2>1. m - 1 \in Nat /\ (m - 1) + 1 = m
    BY <1>3
  <2> QED BY <2>1, ExecutedStep
<1> HIDE DEF f
<1>6. IsStore(f[m].store)
  BY <1>3, <1>4, <1>5, ApplyIsStore
<1> QED BY <1>1, <1>6

(***************************************************************************)
(* A set in the order of a rank.                                           *)
(***************************************************************************)

\* How many elements of S are below h.
Below(S, f, h) == {x \in S : f[x] < f[h]}

\* An element has fewer elements below it than one of a higher rank, and every
\* number below that of all elements is the number of some element: two of them
\* cannot share one.
LEMMA RankTaken ==
  ASSUME NEW S, IsFiniteSet(S), NEW f \in [S -> Nat],
         \A x, y \in S : f[x] = f[y] => x = y
  PROVE  /\ \A h \in S : Cardinality(Below(S, f, h)) \in 0..(Cardinality(S) - 1)
         /\ \A x, y \in S : f[x] < f[y]
              => Cardinality(Below(S, f, x)) < Cardinality(Below(S, f, y))
         /\ \A i \in 1..Cardinality(S) : \E h \in S : Cardinality(Below(S, f, h)) = i - 1
<1> DEFINE n == Cardinality(S)
           Rank(h) == Cardinality(Below(S, f, h))
<1>1. n \in Nat
  BY FS_CardinalityType
<1>2. ASSUME NEW h \in S
      PROVE  IsFiniteSet(Below(S, f, h)) /\ Rank(h) \in Nat /\ Rank(h) < n
  <2>1. Below(S, f, h) \subseteq S /\ h \in S /\ h \notin Below(S, f, h)
    BY DEF Below
  <2>2. IsFiniteSet(Below(S, f, h)) /\ Rank(h) <= n /\ (Rank(h) = n => Below(S, f, h) = S)
    BY <2>1, FS_Subset
  <2>3. Rank(h) \in Nat
    BY <2>2, FS_CardinalityType
  <2> QED BY <1>1, <2>1, <2>2, <2>3
<1>3. ASSUME NEW x \in S, NEW y \in S, f[x] < f[y]
      PROVE  Rank(x) < Rank(y)
  <2>1. Below(S, f, x) \subseteq Below(S, f, y) /\ x \in Below(S, f, y) /\ x \notin Below(S, f, x)
    BY <1>3 DEF Below
  <2>2. Rank(x) <= Rank(y) /\ (Rank(y) = Rank(x) => Below(S, f, x) = Below(S, f, y))
    BY <1>2, <2>1, FS_Subset
  <2> QED BY <1>2, <2>1, <2>2
<1>4. ASSUME NEW x \in S, NEW y \in S, Rank(x) = Rank(y) PROVE x = y
  <2> HIDE DEF Rank
  <2>1. ~(f[x] < f[y]) /\ ~(f[y] < f[x])
    BY <1>2, <1>3, <1>4
  <2> QED BY <2>1
<1>5. ASSUME NEW i \in 1..n PROVE \E h \in S : Rank(h) = i - 1
  <2> HIDE DEF Rank
  <2> SUFFICES ASSUME \A h \in S : Rank(h) # i - 1 PROVE FALSE
    OBVIOUS
  <2> DEFINE U == 0..(n - 1)
             T == U \ {i - 1}
             g == [h \in S |-> Rank(h)]
  <2>1. IsFiniteSet(U) /\ Cardinality(U) = n
    <3> HIDE DEF n
    <3>1. n - 1 \in Int /\ (0 > n - 1 => n = 0)
      BY <1>1
    <3> QED BY <1>1, <3>1, FS_Interval
  <2>2. i - 1 \in U
    BY <1>1
  <2>3. IsFiniteSet(T) /\ Cardinality(T) = n - 1
    <3> HIDE DEF U, n
    <3> QED BY <2>1, <2>2, FS_RemoveElement
  <2>4. g \in [S -> T]
    BY <1>1, <1>2
  <2> HIDE DEF T, g
  <2>5. PICK x \in S, y \in S : x # y /\ g[x] = g[y]
    <3>1. Cardinality(T) < Cardinality(S)
      BY <1>1, <2>3
    <3> QED BY <3>1, <2>3, <2>4, FS_PigeonHole
  <2> QED BY <1>4, <2>5 DEF g
<1> HIDE DEF n, Rank
<1>6. \A h \in S : Rank(h) \in 0..(n - 1)
  BY <1>1, <1>2
<1> QED BY <1>3, <1>5, <1>6 DEF n, Rank

\* A sequence whose i-th element has i - 1 elements below it is the set in its
\* order.
LEMMA RankSorts ==
  ASSUME NEW S, IsFiniteSet(S), NEW f \in [S -> Nat],
         \A x, y \in S : f[x] = f[y] => x = y,
         NEW q \in [1..Cardinality(S) -> S],
         \A i \in 1..Cardinality(S) : Cardinality(Below(S, f, q[i])) = i - 1
  PROVE  /\ q \in Seq(S) /\ Len(q) = Cardinality(S)
         /\ \A i, j \in 1..Len(q) : i < j => f[q[i]] < f[q[j]]
         /\ RecordsOf(q) = S
<1> DEFINE n == Cardinality(S)
           Rank(h) == Cardinality(Below(S, f, h))
<1>1. n \in Nat
  BY FS_CardinalityType
<1>2. /\ \A h \in S : Rank(h) \in 0..(n - 1)
      /\ \A x, y \in S : f[x] < f[y] => Rank(x) < Rank(y)
      /\ \A i \in 1..n : q[i] \in S /\ Rank(q[i]) = i - 1
      /\ q \in [1..n -> S]
  BY RankTaken
<1> HIDE DEF n, Rank
<1>3. q \in Seq(S) /\ Len(q) = n /\ DOMAIN q = 1..n
  BY <1>1, <1>2
<1>4. ASSUME NEW i \in 1..n, NEW j \in 1..n, i < j
      PROVE  f[q[i]] < f[q[j]]
  <2>1. /\ q[i] \in S /\ q[j] \in S /\ f[q[i]] \in Nat /\ f[q[j]] \in Nat
        /\ Rank(q[i]) = i - 1 /\ Rank(q[j]) = j - 1
    BY <1>2
  <2>2. f[q[j]] < f[q[i]] => Rank(q[j]) < Rank(q[i])
    BY <1>2, <2>1
  <2>3. i - 1 < j - 1 /\ i - 1 \in Int /\ j - 1 \in Int
    BY <1>1, <1>4
  <2>4. ~(f[q[j]] < f[q[i]]) /\ q[j] # q[i]
    BY <2>1, <2>2, <2>3
  <2>5. f[q[j]] # f[q[i]]
    BY <2>1, <2>4
  <2> QED BY <2>1, <2>4, <2>5
<1>5. RecordsOf(q) = S
  <2>1. ASSUME NEW h \in S PROVE \E i \in 1..n : q[i] = h
    <3> DEFINE g == q[Rank(h) + 1]
    <3>1. Rank(h) + 1 \in 1..n /\ Rank(h) \in Nat
      BY <1>1, <1>2
    <3>2. g \in S /\ Rank(g) = Rank(h)
      BY <1>2, <3>1
    <3>3. ~(f[g] < f[h]) /\ ~(f[h] < f[g]) /\ f[g] \in Nat /\ f[h] \in Nat
      BY <1>2, <3>1, <3>2
    <3>4. g = h
      BY <3>2, <3>3
    <3> QED BY <3>1, <3>4
  <2>2. RecordsOf(q) = {q[i] : i \in 1..n}
    BY <1>3 DEF RecordsOf
  <2>3. S \subseteq RecordsOf(q)
    BY <2>1, <2>2
  <2>4. RecordsOf(q) \subseteq S
    BY <1>2, <2>2
  <2> QED BY <2>3, <2>4
<1> QED BY <1>3, <1>4, <1>5 DEF n
=============================================================================
