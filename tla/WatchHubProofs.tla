---------------------------- MODULE WatchHubProofs ----------------------------
(***************************************************************************)
(* Proofs about WatchHub, for any number of watchers, keys, commands and   *)
(* any limit of a waiter's buffer.                                         *)
(***************************************************************************)
EXTENDS WatchHub, StoreProofs

(***************************************************************************)
(* Records in the order of their revisions.                                *)
(***************************************************************************)

\* The elements of a sequence have ever larger revisions.
Sorted(q) ==
  \A i, j \in 1..Len(q) : i < j => q[i].revision < q[j].revision

\* A set of records that revisions tell apart.
ByRevisions(S) ==
  /\ \A x \in S : x.revision \in Nat
  /\ \A x, y \in S : x.revision = y.revision => x = y

\* The first k elements of a sorted sequence are k elements.
LEMMA PrefixCardinality ==
  ASSUME NEW T, NEW q \in Seq(T), \A x \in T : x.revision \in Nat, Sorted(q),
         NEW k \in 0..Len(q)
  PROVE  /\ IsFiniteSet({q[j] : j \in 1..k})
         /\ Cardinality({q[j] : j \in 1..k}) = k
<1> DEFINE Pre(n) == {q[j] : j \in 1..n}
           Good(n) == IsFiniteSet(Pre(n)) /\ Cardinality(Pre(n)) = n
           B == {n \in 0..Len(q) : ~Good(n)}
<1>0. Len(q) \in Nat /\ \A i \in 1..Len(q) : q[i] \in T /\ q[i].revision \in Nat
  OBVIOUS
<1>1. B = {}
  <2> SUFFICES ASSUME B # {} PROVE FALSE
    OBVIOUS
  <2>1. PICK m \in B : \A x \in B : m <= x
    <3>1. B \in SUBSET Nat
      BY <1>0
    <3> HIDE DEF B
    <3> QED BY <3>1, MinExists
  <2>2. m # 0
    <3>1. Pre(0) = {}
      OBVIOUS
    <3>2. Good(0)
      BY <3>1, FS_EmptySet
    <3> QED BY <3>2, <2>1
  <2>3. m \in 1..Len(q) /\ m - 1 \in 0..Len(q)
    BY <1>0, <2>1, <2>2
  <2>4. Good(m - 1)
    <3>1. m - 1 \notin B
      <4> HIDE DEF B
      <4> QED BY <2>1, <2>3
    <3> HIDE DEF Good
    <3> QED BY <2>3, <3>1
  <2>5. Pre(m) = Pre(m - 1) \cup {q[m]}
    <3>1. 1..m = 1..(m - 1) \cup {m}
      BY <2>3
    <3> QED BY <3>1
  <2>6. q[m] \notin Pre(m - 1)
    BY <1>0, <2>3 DEF Sorted
  <2> HIDE DEF Pre
  <2>7. IsFiniteSet(Pre(m)) /\ Cardinality(Pre(m)) = (m - 1) + 1
    <3>1. IsFiniteSet(Pre(m - 1)) /\ Cardinality(Pre(m - 1)) = m - 1
      BY <2>4
    <3> HIDE DEF Good, B
    <3>2. /\ IsFiniteSet(Pre(m - 1) \cup {q[m]})
          /\ Cardinality(Pre(m - 1) \cup {q[m]}) = Cardinality(Pre(m - 1)) + 1
      BY <2>6, <3>1, FS_AddElement
    <3> QED BY <2>5, <3>1, <3>2
  <2>8. Good(m)
    BY <2>3, <2>7
  <2> HIDE DEF Good
  <2> QED BY <2>1, <2>8
<1> HIDE DEF Good
<1>2. Good(k)
  BY <1>1
<1> QED BY <1>2 DEF Good

\* A sorted sequence is the one that ByRevision makes of its elements.
LEMMA SortedIsByRevision ==
  ASSUME NEW T, NEW q \in Seq(T), \A x \in T : x.revision \in Nat, Sorted(q)
  PROVE  /\ IsFiniteSet(RecordsOf(q)) /\ Cardinality(RecordsOf(q)) = Len(q)
         /\ ByRevision(RecordsOf(q)) = q
<1> DEFINE S == RecordsOf(q)
           Rank(h) == Cardinality({x \in S : x.revision < h.revision})
<1>1. /\ Len(q) \in Nat /\ DOMAIN q = 1..Len(q)
      /\ \A i \in 1..Len(q) : q[i] \in T /\ q[i].revision \in Nat
  OBVIOUS
<1>2. S = {q[j] : j \in 1..Len(q)}
  BY <1>1 DEF RecordsOf
<1>3. IsFiniteSet(S) /\ Cardinality(S) = Len(q)
  <2>1. Len(q) \in 0..Len(q)
    BY <1>1
  <2> QED BY <1>2, <2>1, PrefixCardinality
<1>4. ASSUME NEW i \in 1..Len(q) PROVE Rank(q[i]) = i - 1
  <2>1. ASSUME NEW j \in 1..Len(q) PROVE q[j].revision < q[i].revision <=> j < i
    BY <1>1 DEF Sorted
  <2>2. {x \in S : x.revision < q[i].revision} = {q[j] : j \in 1..(i - 1)}
    <3>1. 1..(i - 1) = {j \in 1..Len(q) : j < i}
      BY <1>1
    <3> QED BY <1>2, <2>1, <3>1
  <2>3. i - 1 \in 0..Len(q)
    BY <1>1
  <2>4. Cardinality({q[j] : j \in 1..(i - 1)}) = i - 1
    BY <2>3, PrefixCardinality
  <2> QED BY <2>2, <2>4
<1> HIDE DEF Rank
<1>5. ASSUME NEW i \in 1..Len(q)
      PROVE  (CHOOSE h \in S : Rank(h) = i - 1) = q[i]
  <2>1. q[i] \in S /\ Rank(q[i]) = i - 1
    BY <1>2, <1>4
  <2>2. ASSUME NEW h \in S, Rank(h) = i - 1 PROVE h = q[i]
    <3>1. PICK j \in 1..Len(q) : h = q[j]
      BY <1>2
    <3>2. j - 1 = i - 1
      BY <1>4, <2>2, <3>1
    <3> QED BY <3>1, <3>2, <1>1
  <2> QED BY <2>1, <2>2
<1>6. ByRevision(S) = [i \in 1..Len(q) |-> CHOOSE h \in S : Rank(h) = i - 1]
  BY <1>3 DEF ByRevision, Rank
<1> HIDE DEF S
<1>7. q = [i \in 1..Len(q) |-> q[i]]
  BY <1>1
<1>8. ByRevision(S) = q
  BY <1>5, <1>6, <1>7
<1> QED BY <1>3, <1>8 DEF S

\* ByRevision sorts a finite set of records.
LEMMA ByRevisionSorts ==
  ASSUME NEW S, IsFiniteSet(S), ByRevisions(S)
  PROVE  /\ ByRevision(S) \in Seq(S) /\ Len(ByRevision(S)) = Cardinality(S)
         /\ Sorted(ByRevision(S))
         /\ RecordsOf(ByRevision(S)) = S
<1> DEFINE f == [h \in S |-> h.revision]
           q == ByRevision(S)
<1>1. f \in [S -> Nat] /\ \A x, y \in S : f[x] = f[y] => x = y
  BY DEF ByRevisions
<1>2. \A h \in S : Below(S, f, h) = {x \in S : x.revision < h.revision}
  BY DEF Below
<1>3. \A h \in S : f[h] = h.revision
  OBVIOUS
<1> HIDE DEF f
<1>4. q = [i \in 1..Cardinality(S) |->
             CHOOSE h \in S : Cardinality({x \in S : x.revision < h.revision}) = i - 1]
  BY DEF ByRevision
<1> HIDE DEF q
<1>5. ASSUME NEW i \in 1..Cardinality(S)
      PROVE  q[i] \in S /\ Cardinality(Below(S, f, q[i])) = i - 1
  <2>1. \E h \in S : Cardinality({x \in S : x.revision < h.revision}) = i - 1
    <3>1. PICK h \in S : Cardinality(Below(S, f, h)) = i - 1
      BY <1>1, RankTaken
    <3> QED BY <1>2, <3>1
  <2>2. q[i] \in S /\ Cardinality({x \in S : x.revision < q[i].revision}) = i - 1
    BY <1>4, <2>1
  <2> QED BY <1>2, <2>2
<1>6. q \in [1..Cardinality(S) -> S]
  BY <1>4, <1>5
<1>7. /\ q \in Seq(S) /\ Len(q) = Cardinality(S)
      /\ \A i, j \in 1..Len(q) : i < j => f[q[i]] < f[q[j]]
      /\ RecordsOf(q) = S
  <2>1. /\ f \in [S -> Nat] /\ (\A x, y \in S : f[x] = f[y] => x = y)
        /\ q \in [1..Cardinality(S) -> S]
    BY <1>1, <1>6
  <2>2. \A i \in 1..Cardinality(S) : Cardinality(Below(S, f, q[i])) = i - 1
    BY <1>5
  <2> QED BY <2>1, <2>2, RankSorts
<1>8. \A i \in 1..Len(q) : q[i] \in S
  BY <1>7
<1> QED BY <1>3, <1>7, <1>8 DEF Sorted, q

(***************************************************************************)
(* Streams of events.                                                      *)
(***************************************************************************)

\* A log: the record at place r has revision r.
IsLog(l) == l \in Seq(KVs) /\ \A r \in 1..Len(l) : l[r].revision = r

\* Some of the changes in the log l that match a filter, in their order.
IsStream(q, l, filter) ==
  /\ q \in Seq(Events)
  /\ Sorted(q)
  /\ \A i \in 1..Len(q) : /\ q[i].revision \in 1..Len(l)
                          /\ q[i] = MakeEvent(l[q[i].revision])
                          /\ Matches(filter, q[i])

\* None of the changes in (lo, hi] that match the filter is missing.
Covers(q, l, lo, hi, filter) ==
  \A r \in 1..Len(l) :
    lo < r /\ r <= hi /\ Matches(filter, l[r])
    => \E i \in 1..Len(q) : q[i].revision = r

\* The end of the last command in the log, whose events are ev.
IsTail(ev, l) ==
  /\ ev \in Seq(Events)
  /\ Len(ev) <= Len(l)
  /\ \A i \in 1..Len(ev) : ev[i] = MakeEvent(l[Len(l) - Len(ev) + i])

\* A record as an event: the same revision, and it matches the same filters.
LEMMA EventOfRecord ==
  ASSUME NEW h \in KVs, NEW filter
  PROVE  /\ MakeEvent(h) \in Events /\ MakeEvent(h).revision = h.revision
         /\ Matches(filter, MakeEvent(h)) <=> Matches(filter, h)
BY DEF KVs, MakeEvent, Events, Matches

\* The log's records by revision.
LEMMA LogRecords ==
  ASSUME NEW l, IsLog(l)
  PROVE  /\ \A h \in RecordsOf(l) : /\ h \in KVs /\ h.revision \in 1..Len(l)
                                    /\ h = l[h.revision]
         /\ \A r \in 1..Len(l) : l[r] \in RecordsOf(l)
         /\ IsFiniteSet(RecordsOf(l)) /\ Cardinality(RecordsOf(l)) = Len(l)
<1>1. /\ Len(l) \in Nat /\ DOMAIN l = 1..Len(l)
      /\ \A r \in 1..Len(l) : l[r] \in KVs /\ l[r].revision = r
  BY DEF IsLog
<1>2. Sorted(l)
  BY <1>1 DEF Sorted
<1>3. \A x \in KVs : x.revision \in Nat
  BY DEF KVs
<1>4. IsFiniteSet(RecordsOf(l)) /\ Cardinality(RecordsOf(l)) = Len(l)
  BY <1>2, <1>3, SortedIsByRevision DEF IsLog
<1> QED BY <1>1, <1>4 DEF RecordsOf

\* A stream that covers (lo, hi] and lies in it is the stream of that range.
LEMMA StreamIsExact ==
  ASSUME NEW l, IsLog(l), NEW q, NEW lo, NEW hi, NEW filter,
         IsStream(q, l, filter), Covers(q, l, lo, hi, filter),
         \A i \in 1..Len(q) : lo < q[i].revision /\ q[i].revision <= hi
  PROVE  q = FirstEvents(InRange(RecordsOf(l), lo, hi, filter), Len(l))
<1> DEFINE S == InRange(RecordsOf(l), lo, hi, filter)
           n == Len(q)
           k == [i \in 1..n |-> l[q[i].revision]]
<1>1. /\ l \in Seq(KVs) /\ Len(l) \in Nat
      /\ \A r \in 1..Len(l) : l[r] \in KVs /\ l[r].revision = r
  BY DEF IsLog
<1>2. /\ q \in Seq(Events) /\ n \in Nat /\ q = [i \in 1..n |-> q[i]]
      /\ \A i \in 1..n : /\ q[i].revision \in 1..Len(l)
                         /\ q[i] = MakeEvent(l[q[i].revision])
                         /\ Matches(filter, q[i])
  BY DEF IsStream
<1>3. k \in Seq(KVs) /\ Len(k) = n /\ DOMAIN k = 1..n
  BY <1>1, <1>2
<1>4. \A i \in 1..n : k[i] = l[q[i].revision] /\ k[i].revision = q[i].revision
  BY <1>1, <1>2
<1> HIDE DEF k
<1>5. Sorted(k)
  BY <1>3, <1>4 DEF Sorted, IsStream
<1>6. RecordsOf(k) = S
  <2>1. ASSUME NEW i \in 1..n PROVE k[i] \in S
    <3>1. Matches(filter, k[i]) /\ k[i] \in RecordsOf(l)
      <4>1. q[i] = MakeEvent(k[i]) /\ k[i] \in KVs /\ k[i] \in RecordsOf(l)
        BY <1>1, <1>2, <1>4, LogRecords
      <4> QED BY <1>2, <4>1, EventOfRecord
    <3>2. lo < k[i].revision /\ k[i].revision <= hi
      BY <1>4
    <3> QED BY <3>1, <3>2 DEF InRange, Matches
  <2>2. ASSUME NEW h \in S PROVE \E i \in 1..n : k[i] = h
    <3>1. /\ h \in RecordsOf(l) /\ lo < h.revision /\ h.revision <= hi
          /\ Matches(filter, h)
      BY DEF InRange, Matches
    <3>2. h.revision \in 1..Len(l) /\ h = l[h.revision]
      BY <3>1, LogRecords
    <3>3. PICK i \in 1..n : q[i].revision = h.revision
      BY <3>1, <3>2 DEF Covers
    <3> QED BY <3>2, <3>3, <1>4
  <2> HIDE DEF S, n
  <2> QED BY <1>3, <2>1, <2>2 DEF RecordsOf
<1> HIDE DEF S
<1>7. ByRevision(S) = k /\ IsFiniteSet(S) /\ Cardinality(S) = n
  <2>1. \A x \in KVs : x.revision \in Nat
    BY DEF KVs
  <2> QED BY <1>3, <1>5, <1>6, <2>1, SortedIsByRevision
<1>8. n <= Len(l)
  <2>1. S \subseteq RecordsOf(l)
    BY DEF S, InRange
  <2>2. Cardinality(S) <= Cardinality(RecordsOf(l))
    BY <2>1, LogRecords, FS_Subset
  <2> QED BY <2>2, <1>7, LogRecords
<1>9. FirstEvents(S, Len(l)) = [i \in 1..n |-> MakeEvent(k[i])]
  <2>1. (IF Len(k) < Len(l) THEN Len(k) ELSE Len(l)) = n
    BY <1>1, <1>2, <1>3, <1>8
  <2> QED BY <1>7, <2>1 DEF FirstEvents
<1>10. \A i \in 1..n : MakeEvent(k[i]) = q[i]
  BY <1>2, <1>4
<1> HIDE DEF n
<1>11. [i \in 1..n |-> MakeEvent(k[i])] = [i \in 1..n |-> q[i]]
  BY <1>10
<1> QED BY <1>2, <1>9, <1>11 DEF S

\* What a replay finds in an image of the log: the stream from from_revision to
\* the last event found, or that there is nothing up to cur.
LEMMA ReplayIsStream ==
  ASSUME NEW s, NEW l, IsLog(l), Image(s, l), NEW lo \in Nat, NEW hi \in Nat,
         NEW filter, NEW max \in Nat \ {0}, s.compact_rev <= lo
  PROVE  LET q == FirstEvents(InRange(s.hist, lo, hi, filter), max)
         IN  /\ IsStream(q, l, filter) /\ Len(q) <= max
             /\ \A i \in 1..Len(q) : lo < q[i].revision /\ q[i].revision <= hi
             /\ q # <<>> => Covers(q, l, lo, q[Len(q)].revision, filter)
             /\ q = <<>> => Covers(q, l, lo, hi, filter)
<1> DEFINE S == InRange(s.hist, lo, hi, filter)
           p == ByRevision(S)
           n == IF Len(p) < max THEN Len(p) ELSE max
           q == FirstEvents(S, max)
<1>1. /\ l \in Seq(KVs) /\ Len(l) \in Nat /\ s.hist \subseteq RecordsOf(l)
      /\ \A r \in 1..Len(l) : r > s.compact_rev => l[r] \in s.hist
      /\ s.compact_rev \in Nat
  BY DEF IsLog, Image, DenseIn, NoHole, IsStore
<1>2. /\ \A h \in S : /\ h \in KVs /\ h.revision \in 1..Len(l) /\ h = l[h.revision]
                      /\ lo < h.revision /\ h.revision <= hi /\ Matches(filter, h)
      /\ S \subseteq RecordsOf(l)
  BY <1>1, LogRecords DEF InRange, Matches
<1>3. \A r \in 1..Len(l) : lo < r /\ r <= hi /\ Matches(filter, l[r]) => l[r] \in S
  <2> TAKE r \in 1..Len(l)
  <2> HAVE lo < r /\ r <= hi /\ Matches(filter, l[r])
  <2>1. l[r] \in s.hist /\ l[r].revision = r
    BY <1>1 DEF IsLog
  <2> QED BY <2>1 DEF InRange, Matches
<1> HIDE DEF S
<1>4. IsFiniteSet(S) /\ ByRevisions(S)
  <2>1. IsFiniteSet(S)
    BY <1>2, LogRecords, FS_Subset
  <2>2. ByRevisions(S)
    BY <1>2 DEF ByRevisions
  <2> QED BY <2>1, <2>2
<1>5. /\ p \in Seq(S) /\ Sorted(p) /\ RecordsOf(p) = S /\ Len(p) \in Nat
      /\ DOMAIN p = 1..Len(p) /\ \A i \in 1..Len(p) : p[i] \in S
  BY <1>4, ByRevisionSorts
<1>6. q = [i \in 1..n |-> MakeEvent(p[i])]
  BY DEF FirstEvents
<1> HIDE DEF p
<1>7. n \in Nat /\ n <= Len(p) /\ n <= max /\ (n < Len(p) => n = max)
  <2>1. Len(p) \in Nat
    BY <1>5
  <2> QED BY <2>1
<1> HIDE DEF n, q
<1>8. \A i \in 1..n : /\ q[i] = MakeEvent(p[i]) /\ p[i] \in S
                      /\ q[i] \in Events /\ q[i].revision = p[i].revision
                      /\ Matches(filter, q[i])
  <2> TAKE i \in 1..n
  <2>1. q[i] = MakeEvent(p[i]) /\ p[i] \in S
    BY <1>5, <1>6, <1>7
  <2>2. p[i] \in KVs /\ Matches(filter, p[i])
    BY <2>1, <1>2
  <2> QED BY <2>1, <2>2, EventOfRecord
<1>9. q \in Seq(Events) /\ Len(q) = n
  BY <1>6, <1>7, <1>8
<1>10. Sorted(q)
  BY <1>5, <1>7, <1>8, <1>9 DEF Sorted
<1>11. IsStream(q, l, filter)
  BY <1>2, <1>8, <1>9, <1>10 DEF IsStream
<1>12. ASSUME NEW r \in 1..Len(l), lo < r, r <= hi, Matches(filter, l[r])
       PROVE  \E j \in 1..Len(p) : p[j].revision = r
  <2>1. l[r] \in RecordsOf(p) /\ l[r].revision = r
    BY <1>3, <1>5, <1>12 DEF IsLog
  <2> QED BY <1>5, <2>1 DEF RecordsOf
<1>13. q # <<>> => Covers(q, l, lo, q[Len(q)].revision, filter)
  <2> SUFFICES ASSUME q # <<>>, NEW r \in 1..Len(l), lo < r,
                      r <= q[Len(q)].revision, Matches(filter, l[r])
               PROVE  \E i \in 1..Len(q) : q[i].revision = r
    BY DEF Covers
  <2>1. n \in 1..Len(p) /\ q[n].revision = p[n].revision /\ p[n].revision \in Nat
    <3>1. n # 0
      BY <1>9
    <3> QED BY <1>2, <1>7, <1>8, <3>1
  <2>2. r <= hi
    BY <1>2, <1>8, <1>9, <2>1
  <2>3. PICK j \in 1..Len(p) : p[j].revision = r
    BY <1>12, <2>2
  <2>4. j <= n
    BY <1>5, <1>9, <2>1, <2>3 DEF Sorted
  <2> QED BY <2>3, <2>4, <1>5, <1>8, <1>9
<1>14. q = <<>> => Covers(q, l, lo, hi, filter)
  <2> SUFFICES ASSUME q = <<>>, NEW r \in 1..Len(l), lo < r, r <= hi,
                      Matches(filter, l[r])
               PROVE  FALSE
    BY DEF Covers
  <2>1. n = 0
    BY <1>9
  <2>2. Len(p) = 0
    BY <1>5, <1>7, <2>1
  <2> QED BY <1>12, <2>2
<1>15. \A i \in 1..Len(q) : lo < q[i].revision /\ q[i].revision <= hi
  <2> HIDE DEF n
  <2> QED BY <1>2, <1>8, <1>9
<1> QED BY <1>7, <1>9, <1>11, <1>13, <1>14, <1>15 DEF q, S

\* Streams and their coverage stay as they are when the log grows.
LEMMA StreamGrows ==
  ASSUME NEW l, IsLog(l), NEW m, Len(m) \in Nat, Len(l) <= Len(m),
         \A r \in 1..Len(l) : m[r] = l[r],
         NEW q, NEW lo, NEW hi \in Nat, NEW filter
  PROVE  /\ IsStream(q, l, filter) => IsStream(q, m, filter)
         /\ hi <= Len(l) /\ Covers(q, l, lo, hi, filter)
            => Covers(q, m, lo, hi, filter)
<1>1. Len(l) \in Nat
  BY DEF IsLog
<1>2. IsStream(q, l, filter) => IsStream(q, m, filter)
  BY <1>1 DEF IsStream
<1>3. hi <= Len(l) /\ Covers(q, l, lo, hi, filter) => Covers(q, m, lo, hi, filter)
  BY <1>1 DEF Covers
<1> QED BY <1>2, <1>3

\* The events of a tail of the log that match a filter are its stream.
LEMMA TailIsStream ==
  ASSUME NEW l, IsLog(l), NEW ev, IsTail(ev, l), NEW filter
  PROVE  LET more == Matching(ev, filter)
             n    == Len(l) - Len(ev)
         IN  /\ IsStream(more, l, filter)
             /\ \A i \in 1..Len(more) :
                  /\ n < more[i].revision
                  /\ \E j \in 1..Len(ev) : more[i] = ev[j]
             /\ Covers(more, l, n, Len(l), filter)
<1> DEFINE S    == {e \in RecordsOf(ev) : Matches(filter, e)}
           more == Matching(ev, filter)
           n    == Len(l) - Len(ev)
<1>1. /\ Len(l) \in Nat /\ Len(ev) \in Nat /\ n \in Nat /\ DOMAIN ev = 1..Len(ev)
      /\ \A r \in 1..Len(l) : l[r] \in KVs /\ l[r].revision = r
      /\ ev \in Seq(Events)
  BY DEF IsLog, IsTail
<1>2. ASSUME NEW j \in 1..Len(ev)
      PROVE  /\ n + j \in 1..Len(l) /\ ev[j] = MakeEvent(l[n + j])
             /\ ev[j] \in Events /\ ev[j].revision = n + j
             /\ Matches(filter, ev[j]) <=> Matches(filter, l[n + j])
  <2>1. n + j \in 1..Len(l) /\ ev[j] = MakeEvent(l[n + j])
    BY <1>1 DEF IsTail
  <2>2. l[n + j] \in KVs /\ l[n + j].revision = n + j
    BY <1>1, <2>1
  <2> QED BY <2>1, <2>2, EventOfRecord
<1>3. Sorted(ev)
  BY <1>1, <1>2 DEF Sorted
<1>4. IsFiniteSet(RecordsOf(ev))
  <2>1. \A e \in Events : e.revision \in Nat
    BY DEF Events
  <2> QED BY <1>1, <1>3, <2>1, SortedIsByRevision
<1>5. ASSUME NEW e \in S
      PROVE  /\ e \in Events /\ e.revision \in 1..Len(l) /\ n < e.revision
             /\ e = MakeEvent(l[e.revision]) /\ Matches(filter, e)
             /\ \E j \in 1..Len(ev) : e = ev[j]
  <2>1. PICK j \in 1..Len(ev) : e = ev[j]
    BY <1>1 DEF RecordsOf
  <2> QED BY <1>1, <1>2, <2>1
<1>6. IsFiniteSet(S) /\ ByRevisions(S)
  <2>1. S \subseteq RecordsOf(ev)
    OBVIOUS
  <2>2. IsFiniteSet(S)
    BY <1>4, <2>1, FS_Subset
  <2> HIDE DEF S
  <2>3. ByRevisions(S)
    BY <1>1, <1>5 DEF ByRevisions
  <2> QED BY <2>2, <2>3
<1>7. /\ more \in Seq(S) /\ Sorted(more) /\ RecordsOf(more) = S
  <2> HIDE DEF S
  <2> QED BY <1>6, ByRevisionSorts DEF Matching, S
<1>8. ASSUME NEW r \in 1..Len(l), n < r, Matches(filter, l[r])
      PROVE  \E e \in S : e.revision = r
  <2>1. r - n \in 1..Len(ev) /\ n + (r - n) = r
    BY <1>1, <1>8
  <2>2. ev[r - n].revision = r /\ Matches(filter, ev[r - n])
    BY <1>2, <1>8, <2>1
  <2> QED BY <1>1, <2>1, <2>2 DEF RecordsOf
<1> HIDE DEF S, more, n
<1>9. Len(more) \in Nat /\ DOMAIN more = 1..Len(more) /\ \A i \in 1..Len(more) : more[i] \in S
  BY <1>7
<1>10. more \in Seq(Events)
  <2>1. S \subseteq Events
    BY <1>5
  <2> QED BY <1>7, <2>1
<1>11. IsStream(more, l, filter)
  BY <1>5, <1>7, <1>9, <1>10 DEF IsStream
<1>12. Covers(more, l, n, Len(l), filter)
  <2> SUFFICES ASSUME NEW r \in 1..Len(l), n < r, Matches(filter, l[r])
               PROVE  \E i \in 1..Len(more) : more[i].revision = r
    BY DEF Covers
  <2>1. PICK e \in S : e.revision = r
    BY <1>8
  <2>2. PICK i \in 1..Len(more) : more[i] = e
    BY <1>7, <1>9, <2>1 DEF RecordsOf
  <2> QED BY <2>1, <2>2
<1> QED BY <1>5, <1>9, <1>11, <1>12 DEF more, n

\* One sequence after the other, without the operator that concatenates them.
IsAppended(c, q, p) ==
  /\ c \in Seq(Events) /\ Len(c) = Len(q) + Len(p)
  /\ \A i \in 1..Len(q) : c[i] = q[i]
  /\ \A i \in 1..Len(p) : c[Len(q) + i] = p[i]

EndsAt(q, n) == \A i \in 1..Len(q) : q[i].revision <= n

StartsAfter(q, n) == \A i \in 1..Len(q) : n < q[i].revision

\* A stream followed by a later one is a stream, and covers what both cover.
LEMMA StreamAppend ==
  ASSUME NEW l, IsLog(l), NEW q, NEW p, NEW filter, NEW n \in 0..Len(l),
         IsStream(q, l, filter), IsStream(p, l, filter),
         EndsAt(q, n), StartsAfter(p, n), Covers(p, l, n, Len(l), filter),
         NEW c, IsAppended(c, q, p)
  PROVE  /\ IsStream(c, l, filter)
         /\ \A lo \in Int : Covers(q, l, lo, n, filter)
                            => Covers(c, l, lo, Len(l), filter)
         /\ \A i \in 1..Len(c) : \/ \E j \in 1..Len(q) : c[i] = q[j]
                                 \/ \E j \in 1..Len(p) : c[i] = p[j]
         /\ q # <<>> => c # <<>> /\ c[1] = q[1]
<1>1. /\ q \in Seq(Events) /\ p \in Seq(Events) /\ Len(l) \in Nat
      /\ Len(q) \in Nat /\ Len(p) \in Nat
      /\ \A i \in 1..Len(q) : q[i].revision \in Nat
      /\ \A i \in 1..Len(p) : p[i].revision \in Nat
  <2>1. q \in Seq(Events) /\ p \in Seq(Events) /\ Len(l) \in Nat
    BY DEF IsStream, IsLog
  <2>2. \A e \in Events : e.revision \in Nat
    BY DEF Events
  <2>3. /\ Len(q) \in Nat /\ \A i \in 1..Len(q) : q[i] \in Events
        /\ Len(p) \in Nat /\ \A i \in 1..Len(p) : p[i] \in Events
    BY <2>1
  <2> QED BY <2>1, <2>2, <2>3
<1>2. /\ c \in Seq(Events) /\ Len(c) = Len(q) + Len(p)
      /\ \A i \in 1..Len(q) : c[i] = q[i]
      /\ \A i \in 1..Len(p) : c[Len(q) + i] = p[i]
  BY DEF IsAppended
<1>3. ASSUME NEW i \in 1..Len(c), ~(i <= Len(q))
      PROVE  i - Len(q) \in 1..Len(p) /\ c[i] = p[i - Len(q)]
  <2>1. i - Len(q) \in 1..Len(p) /\ Len(q) + (i - Len(q)) = i
    BY <1>1, <1>2, <1>3
  <2> QED BY <1>2, <2>1
<1>4. Sorted(c)
  <2> SUFFICES ASSUME NEW i \in 1..Len(c), NEW j \in 1..Len(c), i < j
               PROVE  c[i].revision < c[j].revision
    BY DEF Sorted
  <2>0. Sorted(q) /\ Sorted(p)
    BY DEF IsStream
  <2>1. CASE j <= Len(q)
    <3>1. i \in 1..Len(q) /\ j \in 1..Len(q) /\ c[i] = q[i] /\ c[j] = q[j]
      BY <1>1, <1>2, <2>1
    <3> QED BY <2>0, <3>1 DEF Sorted
  <2>2. CASE ~(j <= Len(q)) /\ i <= Len(q)
    <3>1. i \in 1..Len(q) /\ c[i] = q[i]
      BY <1>1, <1>2, <2>2
    <3>2. j - Len(q) \in 1..Len(p) /\ c[j] = p[j - Len(q)]
      BY <1>3, <2>2
    <3>3. c[i].revision <= n /\ c[i].revision \in Nat
      BY <1>1, <3>1 DEF EndsAt
    <3>4. n < c[j].revision /\ c[j].revision \in Nat
      BY <1>1, <3>2 DEF StartsAfter
    <3> QED BY <1>1, <3>3, <3>4
  <2>3. CASE ~(j <= Len(q)) /\ ~(i <= Len(q))
    <3>1. /\ i - Len(q) \in 1..Len(p) /\ c[i] = p[i - Len(q)]
          /\ j - Len(q) \in 1..Len(p) /\ c[j] = p[j - Len(q)]
          /\ i - Len(q) < j - Len(q)
      BY <1>1, <1>2, <1>3, <2>3
    <3> QED BY <2>0, <3>1 DEF Sorted
  <2> QED BY <2>1, <2>2, <2>3
<1>5. \A i \in 1..Len(c) : \/ \E j \in 1..Len(q) : c[i] = q[j]
                           \/ \E j \in 1..Len(p) : c[i] = p[j]
  <2> TAKE i \in 1..Len(c)
  <2>1. CASE i <= Len(q)
    <3>1. i \in 1..Len(q) /\ c[i] = q[i]
      BY <1>1, <1>2, <2>1
    <3> QED BY <3>1
  <2>2. CASE ~(i <= Len(q))
    BY <1>3, <2>2
  <2> QED BY <2>1, <2>2
<1>6. IsStream(c, l, filter)
  <2>1. ASSUME NEW i \in 1..Len(c)
        PROVE  /\ c[i].revision \in 1..Len(l)
               /\ c[i] = MakeEvent(l[c[i].revision])
               /\ Matches(filter, c[i])
    <3>1. CASE \E j \in 1..Len(q) : c[i] = q[j]
      BY <3>1 DEF IsStream
    <3>2. CASE \E j \in 1..Len(p) : c[i] = p[j]
      BY <3>2 DEF IsStream
    <3> QED BY <1>5, <3>1, <3>2
  <2> QED BY <1>2, <1>4, <2>1 DEF IsStream
<1>7. ASSUME NEW lo \in Int, Covers(q, l, lo, n, filter)
      PROVE  Covers(c, l, lo, Len(l), filter)
  <2> SUFFICES ASSUME NEW r \in 1..Len(l), lo < r, Matches(filter, l[r])
               PROVE  \E i \in 1..Len(c) : c[i].revision = r
    BY DEF Covers
  <2>1. CASE r <= n
    <3>1. PICK i \in 1..Len(q) : q[i].revision = r
      BY <1>7, <2>1 DEF Covers
    <3>2. i \in 1..Len(c) /\ c[i] = q[i]
      BY <1>1, <1>2
    <3> QED BY <3>1, <3>2
  <2>2. CASE n < r
    <3>1. PICK i \in 1..Len(p) : p[i].revision = r
      <4>1. r <= Len(l)
        BY <1>1
      <4> QED BY <2>2, <4>1 DEF Covers
    <3>2. Len(q) + i \in 1..Len(c)
      BY <1>1, <1>2
    <3> QED BY <1>2, <3>1, <3>2
  <2> QED BY <2>1, <2>2
<1>8. q # <<>> => c # <<>> /\ c[1] = q[1]
  <2> SUFFICES ASSUME q # <<>> PROVE c # <<>> /\ c[1] = q[1]
    OBVIOUS
  <2>1. Len(q) >= 1
    BY <1>1
  <2>2. Len(c) >= 1
    BY <1>1, <1>2, <2>1
  <2> QED BY <1>1, <1>2, <2>1, <2>2
<1> QED BY <1>2, <1>5, <1>6, <1>7, <1>8

\* A prefix of a stream is a stream, and covers what lies below its end.
LEMMA StreamPrefix ==
  ASSUME NEW l, IsLog(l), NEW q, NEW filter, IsStream(q, l, filter),
         NEW n \in 1..Len(q), NEW p \in Seq(Events), Len(p) = n,
         \A i \in 1..n : p[i] = q[i]
  PROVE  /\ IsStream(p, l, filter) /\ p[n] = q[n] /\ p[1] = q[1]
         /\ \A lo, hi \in Int :
              Covers(q, l, lo, hi, filter) /\ q[n].revision <= hi
              => Covers(p, l, lo, q[n].revision, filter)
<1>1. /\ q \in Seq(Events) /\ Len(q) \in Nat /\ Sorted(q) /\ Len(l) \in Nat
      /\ \A i \in 1..Len(q) : q[i].revision \in Nat
  <2>1. q \in Seq(Events) /\ Len(q) \in Nat /\ Sorted(q) /\ Len(l) \in Nat
    BY DEF IsStream, IsLog
  <2>2. \A i \in 1..Len(q) : q[i].revision \in 1..Len(l)
    BY DEF IsStream
  <2> QED BY <2>1, <2>2
<1>2. n \in 1..n /\ 1 \in 1..n
  BY <1>1
<1>3. IsStream(p, l, filter)
  <2>1. \A i \in 1..n : i \in 1..Len(q)
    BY <1>1
  <2>2. Sorted(p)
    BY <1>1, <1>2, <2>1 DEF Sorted
  <2> QED BY <1>2, <2>1, <2>2 DEF IsStream
<1>4. ASSUME NEW lo \in Int, NEW hi \in Int, Covers(q, l, lo, hi, filter),
             q[n].revision <= hi
      PROVE  Covers(p, l, lo, q[n].revision, filter)
  <2> SUFFICES ASSUME NEW r \in 1..Len(l), lo < r, r <= q[n].revision,
                      Matches(filter, l[r])
               PROVE  \E i \in 1..Len(p) : p[i].revision = r
    BY DEF Covers
  <2>1. r <= hi
    BY <1>1, <1>4
  <2>2. PICK i \in 1..Len(q) : q[i].revision = r
    BY <1>4, <2>1 DEF Covers
  <2>3. i <= n
    BY <1>1, <2>2 DEF Sorted
  <2> QED BY <1>1, <1>2, <2>2, <2>3
<1> QED BY <1>1, <1>2, <1>3, <1>4

(***************************************************************************)
(* The inductive invariant.  Its parts are predicates on a call c of w, a  *)
(* log l, an applier ap and the registered waiters reg, so that they can   *)
(* be stated of the states before and after a step alike.                  *)
(***************************************************************************)

Registered == {"current", "replay", "wait", "blocked", "unregister"}

Calls ==
  [pc: {"idle", "catchup", "register", "anchor"} \cup Registered \cup Unlocked,
   from: Nat, filter: Filters \cup {{}}, cur: Nat, buf: Seq(Events),
   overflow: BOOLEAN, raced: BOOLEAN, canceled: BOOLEAN, inflight: SUBSET Nat,
   installed: BOOLEAN, code: {"OK", "COMPACTED", "BEHIND", "OVERFLOW"},
   events: Seq(Events), current: Nat]

IsCall(c) ==
  c \in Calls /\ Len(c.buf) <= MaxWatchEvents /\ Len(c.events) <= MaxWatchEvents

\* The applier holds the events at the end of the log until all have them.
IsApplier(ap, l) ==
  /\ ap \in [pc: {"idle", "broadcast", "deliver"}, events: Seq(Events),
             todo: SUBSET Watchers]
  /\ IsTail(ap.events, l)
  /\ ap.pc = "idle" => ap.events = <<>>
  /\ ap.pc # "deliver" => ap.todo = {}

\* Where a call is, and what that says about its locals and its Waiter.
ControlOf(w, c, l, ap, reg) ==
  /\ w \in reg <=> c.pc \in Registered
  /\ w \in ap.todo => c.pc \in Registered \cup Unlocked \cup {"anchor"}
  /\ c.pc \in {"idle", "catchup", "register"} => c.buf = <<>> /\ ~c.overflow
  /\ c.pc \in {"register"} \cup Registered => c.from <= Len(l)
  /\ c.pc \in {"current", "replay"} => c.from > 0
  /\ c.pc = "replay" => c.cur <= Len(l)
  /\ c.pc = "take" /\ c.overflow => c.buf = <<>> /\ w \notin ap.todo
  /\ c.events # <<>> => c.pc \in {"idle", "unregister"}

\* The waiter of w has yet to be given the events that the applier holds.
Owed(w, ap, reg) == (ap.pc = "broadcast" /\ w \in reg) \/ w \in ap.todo

\* An event at or below from_revision was in flight when the call registered.
NewOrInFlight(c, e) == e.revision > c.from \/ e.revision \in c.inflight

RepeatsOf(w, c, ap, reg) ==
  /\ \A i \in 1..Len(c.buf) : NewOrInFlight(c, c.buf[i])
  /\ \A i \in 1..Len(c.events) : NewOrInFlight(c, c.events[i])
  /\ Owed(w, ap, reg) => \A i \in 1..Len(ap.events) : NewOrInFlight(c, ap.events[i])

\* The call is past its replay, and what it will return is its buffer.
Caught(c) ==
  \/ c.pc \in {"wait", "blocked"} \cup Unlocked
  \/ c.pc = "unregister" /\ c.code = "OK" /\ c.events = <<>>

\* The buffer of a call holds the stream up to the revision top, without a gap
\* after its first event, after cur while the replay is to come, and after
\* from_revision once it is done.
BufferUpTo(c, l, top) ==
  /\ IsStream(c.buf, l, c.filter)
  /\ \A i \in 1..Len(c.buf) : c.buf[i].revision <= top
  /\ c.buf # <<>> => Covers(c.buf, l, c.buf[1].revision - 1, top, c.filter)
  /\ c.pc = "replay" => Covers(c.buf, l, c.cur, top, c.filter)
  /\ Caught(c) /\ c.from > 0 => Covers(c.buf, l, c.from, top, c.filter)

\* The revision up to which the waiter of w has been given its events.
Given(w, l, ap, reg) ==
  IF Owed(w, ap, reg) THEN Len(l) - Len(ap.events) ELSE Len(l)

\* As long as a waiter is given events its buffer reaches as far as they do.
BufferOf(w, c, l, ap, reg) ==
  ~c.installed /\ ~c.overflow =>
    \E top \in 0..Len(l) :
      /\ BufferUpTo(c, l, top)
      /\ w \in reg \cup ap.todo => top = Given(w, l, ap, reg)

\* The revision after which the events of an answer start.
Low(c) == IF c.from > 0 /\ c.events[1].revision > c.from THEN c.from
          ELSE c.events[1].revision - 1

\* An answer with events is the stream from there to its anchor.
AnswerOf(c, l) ==
  c.events # <<>> /\ ~c.installed =>
    /\ IsStream(c.events, l, c.filter)
    /\ Covers(c.events, l, Low(c), c.events[Len(c.events)].revision, c.filter)
    /\ c.pc = "idle" => c.current = c.events[Len(c.events)].revision

CallInv(w, c, l, ap, reg) ==
  /\ ControlOf(w, c, l, ap, reg)
  /\ RepeatsOf(w, c, ap, reg)
  /\ BufferOf(w, c, l, ap, reg)
  /\ AnswerOf(c, l)

HubState(s, l, ap, reg, calls) ==
  /\ l \in Seq(KVs) /\ Image(s, l)
  /\ IsApplier(ap, l)
  /\ reg \subseteq Watchers
  /\ calls \in [Watchers -> Calls]
  /\ \A w \in Watchers : IsCall(calls[w]) /\ CallInv(w, calls[w], l, ap, reg)

HubInv == HubState(store, log, applier, waiters, watch)

\* The log of an image is a log.
LEMMA LogOfImage ==
  ASSUME NEW s, NEW l \in Seq(KVs), Image(s, l)
  PROVE  IsLog(l) /\ s.revision = Len(l) /\ Len(l) \in Nat
BY DEF Image, DenseIn, IsLog

\* A call that a step does not touch keeps its part of the invariant.
LEMMA OtherCall ==
  ASSUME NEW w, NEW c, NEW l, NEW ap, NEW reg, NEW ap2, NEW reg2,
         CallInv(w, c, l, ap, reg), ap2.pc = ap.pc, ap2.events = ap.events,
         w \in ap2.todo <=> w \in ap.todo, w \in reg2 <=> w \in reg
  PROVE  CallInv(w, c, l, ap2, reg2)
<1>1. Owed(w, ap2, reg2) <=> Owed(w, ap, reg)
  BY DEF Owed
<1>2. Given(w, l, ap2, reg2) = Given(w, l, ap, reg)
  BY <1>1 DEF Given
<1>3. w \in reg2 \cup ap2.todo <=> w \in reg \cup ap.todo
  OBVIOUS
<1>4. ControlOf(w, c, l, ap2, reg2)
  BY DEF CallInv, ControlOf
<1>5. RepeatsOf(w, c, ap2, reg2)
  BY <1>1 DEF CallInv, RepeatsOf
<1>6. BufferOf(w, c, l, ap2, reg2)
  BY <1>2, <1>3 DEF CallInv, BufferOf
<1> QED BY <1>4, <1>5, <1>6 DEF CallInv

\* A step of the call of w alone, which may take w off the lists.
LEMMA CallMoves ==
  ASSUME NEW s, NEW l, NEW ap, NEW reg, NEW calls, HubState(s, l, ap, reg, calls),
         NEW w \in Watchers, NEW d, IsCall(d), NEW ap2, NEW reg2,
         ap2 = ap \/ ap2 = [ap EXCEPT !.todo = @ \ {w}],
         reg2 \in {reg, reg \cup {w}, reg \ {w}},
         CallInv(w, d, l, ap2, reg2)
  PROVE  HubState(s, l, ap2, reg2, [calls EXCEPT ![w] = d])
<1>1. /\ ap2.pc = ap.pc /\ ap2.events = ap.events /\ ap2.todo \subseteq ap.todo
      /\ \A v \in Watchers : v # w => (v \in ap2.todo <=> v \in ap.todo)
      /\ ap2 \in [pc: {"idle", "broadcast", "deliver"}, events: Seq(Events),
                  todo: SUBSET Watchers]
  BY DEF HubState, IsApplier
<1>2. IsApplier(ap2, l)
  BY <1>1 DEF HubState, IsApplier
<1>3. [calls EXCEPT ![w] = d] \in [Watchers -> Calls]
  BY DEF HubState, IsCall
<1>4. ASSUME NEW v \in Watchers
      PROVE  /\ IsCall([calls EXCEPT ![w] = d][v])
             /\ CallInv(v, [calls EXCEPT ![w] = d][v], l, ap2, reg2)
  <2>1. CASE v = w
    BY <2>1 DEF HubState
  <2>2. CASE v # w
    <3>1. [calls EXCEPT ![w] = d][v] = calls[v]
      BY <2>2 DEF HubState
    <3>2. IsCall(calls[v]) /\ CallInv(v, calls[v], l, ap, reg)
      BY DEF HubState
    <3>3. v \in reg2 <=> v \in reg
      BY <2>2
    <3> QED BY <1>1, <2>2, <3>1, <3>2, <3>3, OtherCall
  <2> QED BY <2>1, <2>2
<1>5. reg2 \subseteq Watchers
  BY DEF HubState
<1> QED BY <1>2, <1>3, <1>4, <1>5 DEF HubState

\* A call whose buffer and bounds stay keeps its part of the stream.
LEMMA SameBuffer ==
  ASSUME NEW w, NEW c, NEW d, NEW l, NEW ap, NEW reg, BufferOf(w, c, l, ap, reg),
         d.buf = c.buf, d.filter = c.filter, d.from = c.from, d.cur = c.cur,
         d.installed = c.installed, d.overflow = c.overflow,
         d.pc = "replay" => c.pc = "replay", Caught(d) => Caught(c)
  PROVE  BufferOf(w, d, l, ap, reg)
BY DEF BufferOf, BufferUpTo

\* An empty buffer is the stream of nothing.
LEMMA EmptyBuffer ==
  ASSUME NEW c, NEW l, IsLog(l), NEW top, c.buf = <<>>, c.pc # "replay", ~Caught(c)
  PROVE  BufferUpTo(c, l, top)
<1>1. Len(c.buf) = 0 /\ c.buf \in Seq(Events)
  OBVIOUS
<1> QED BY <1>1 DEF BufferUpTo, IsStream, Sorted

\* The parts of the invariant stay as they are when the log grows.
LEMMA CallGrows ==
  ASSUME NEW c, IsCall(c), NEW l, IsLog(l), NEW m, Len(m) \in Nat, Len(l) <= Len(m),
         \A r \in 1..Len(l) : m[r] = l[r]
  PROVE  /\ \A top \in 0..Len(l) : BufferUpTo(c, l, top) => BufferUpTo(c, m, top)
         /\ AnswerOf(c, l) => AnswerOf(c, m)
<1>1. Len(l) \in Nat /\ Len(c.events) \in Nat
  BY DEF IsLog, IsCall, Calls
<1>2. ASSUME NEW top \in 0..Len(l), BufferUpTo(c, l, top)
      PROVE  BufferUpTo(c, m, top)
  <2>1. top \in Nat /\ top <= Len(l)
    BY <1>1
  <2> QED BY <1>2, <2>1, StreamGrows DEF BufferUpTo
<1>3. ASSUME AnswerOf(c, l) PROVE AnswerOf(c, m)
  <2> SUFFICES ASSUME c.events # <<>>, ~c.installed PROVE AnswerOf(c, m)
    BY DEF AnswerOf
  <2> DEFINE hi == c.events[Len(c.events)].revision
  <2>1. /\ IsStream(c.events, l, c.filter) /\ Covers(c.events, l, Low(c), hi, c.filter)
        /\ c.pc = "idle" => c.current = hi
    BY <1>3 DEF AnswerOf
  <2>2. hi \in Nat /\ hi <= Len(l)
    <3>1. Len(c.events) \in 1..Len(c.events)
      BY <1>1 DEF IsCall, Calls
    <3> QED BY <1>1, <2>1, <3>1 DEF IsStream
  <2> HIDE DEF hi
  <2>3. IsStream(c.events, m, c.filter) /\ Covers(c.events, m, Low(c), hi, c.filter)
    BY <2>1, <2>2, StreamGrows
  <2> QED BY <2>1, <2>3 DEF AnswerOf, hi
<1> QED BY <1>2, <1>3

(***************************************************************************)
(* The steps of a call.                                                    *)
(***************************************************************************)

\* What the invariant says of one call, and of the log it streams.
LEMMA CallFacts ==
  ASSUME HubInv, NEW w \in Watchers
  PROVE  /\ IsLog(log) /\ Len(log) \in Nat /\ store.revision = Len(log)
         /\ IsCall(watch[w]) /\ watch[w] \in Calls
         /\ CallInv(w, watch[w], log, applier, waiters)
         /\ IsApplier(applier, log) /\ Len(applier.events) \in Nat
BY LogOfImage DEF HubInv, HubState, IsCall, IsApplier

\* A call that has not registered: its buffer is empty and nothing is owed.
LEMMA FreshCall ==
  ASSUME NEW w, NEW c, NEW l, IsLog(l), NEW ap, IsApplier(ap, l), NEW reg,
         w \notin reg, w \notin ap.todo, c.buf = <<>>, c.events = <<>>, ~c.overflow,
         c.pc \in {"idle", "catchup", "register", "anchor"},
         c.pc = "register" => c.from <= Len(l)
  PROVE  CallInv(w, c, l, ap, reg)
<1>1. ControlOf(w, c, l, ap, reg)
  BY DEF ControlOf, Registered
<1>2. RepeatsOf(w, c, ap, reg)
  BY DEF RepeatsOf, Owed
<1>3. BufferOf(w, c, l, ap, reg)
  <2>1. c.pc # "replay" /\ ~Caught(c)
    BY DEF Caught, Unlocked
  <2>2. 0 \in 0..Len(l)
    BY DEF IsLog
  <2>3. BufferUpTo(c, l, 0)
    BY <2>1, EmptyBuffer
  <2> QED BY <2>2, <2>3 DEF BufferOf
<1> QED BY <1>1, <1>2, <1>3 DEF CallInv, AnswerOf

\* Between two calls and before it registers, a watcher is on no list.
LEMMA NotListed ==
  ASSUME HubInv, NEW w \in Watchers, watch[w].pc \in {"idle", "catchup", "register"}
  PROVE  /\ w \notin waiters /\ w \notin applier.todo
         /\ watch[w].buf = <<>> /\ ~watch[w].overflow
         /\ watch[w].pc # "idle" => watch[w].events = <<>>
<1>1. ControlOf(w, watch[w], log, applier, waiters)
  BY CallFacts DEF CallInv
<1> QED BY <1>1 DEF ControlOf, Registered, Unlocked

\* A new call is a call.
LEMMA NewCallType ==
  ASSUME NEW pc \in {"idle", "anchor", "catchup", "register"}, NEW from \in Nat,
         NEW f \in Filters \cup {{}}
  PROVE  /\ NewCall(pc, from, f) \in Calls
         /\ [NewCall(pc, from, f) EXCEPT !.code = "COMPACTED"] \in Calls
<1>1. <<>> \in Seq(Events) /\ {} \in SUBSET Nat
  OBVIOUS
<1>2. NewCall(pc, from, f) \in Calls
  BY <1>1 DEF NewCall, Calls
<1>3. [NewCall(pc, from, f) EXCEPT !.code = "COMPACTED"] \in Calls
  BY <1>2 DEF Calls
<1> QED BY <1>2, <1>3

\* Entry, and the fast check against compact_rev.
LEMMA WatchBeginStep ==
  ASSUME HubInv, NEW w \in Watchers, NEW from_revision \in Froms, NEW f \in Filters,
         WatchBegin(w, from_revision, f)
  PROVE  HubInv'
<1> DEFINE from == IF from_revision < 0 THEN 0 ELSE from_revision
           d == IF from > 0 /\ store.compact_rev > from
                THEN [NewCall("anchor", from, f) EXCEPT !.code = "COMPACTED"]
                ELSE NewCall(IF from > 0 THEN "catchup" ELSE "register", from, f)
<1>1. /\ watch[w].pc = "idle" /\ watch' = [watch EXCEPT ![w] = d]
      /\ UNCHANGED <<store, log, applier, waiters>>
  BY DEF WatchBegin, Step
<1>2. from \in Nat
  BY WatchAssumption
<1>3. /\ IsCall(d) /\ d.buf = <<>> /\ d.events = <<>> /\ ~d.overflow
      /\ d.pc \in {"anchor", "catchup", "register"}
      /\ d.pc = "register" => d.from = 0
  <2> HIDE DEF from
  <2>1. d \in Calls
    BY <1>2, NewCallType
  <2>2. /\ d.buf = <<>> /\ d.events = <<>> /\ ~d.overflow
        /\ d.pc \in {"anchor", "catchup", "register"}
        /\ d.pc = "register" => d.from = 0
    BY <1>2 DEF NewCall
  <2> QED BY <2>1, <2>2, WatchAssumption DEF IsCall
<1> HIDE DEF d, from
<1>4. CallInv(w, d, log, applier, waiters)
  BY <1>1, <1>3, CallFacts, NotListed, FreshCall
<1> QED BY <1>1, <1>3, <1>4, CallMoves DEF HubInv

\* The steps of a call that waits for the node to catch up.
LEMMA CatchUpSteps ==
  ASSUME HubInv, NEW w \in Watchers,
         CatchUp(w) \/ CatchUpCanceled(w) \/ CatchUpTimeout(w)
  PROVE  HubInv'
<1> DEFINE c == watch[w]
<1>0. c \in Calls /\ IsCall(c) /\ store.revision = Len(log) /\ Len(log) \in Nat
  BY CallFacts
<1>1. PICK d : /\ watch' = [watch EXCEPT ![w] = d] /\ d \in Calls
               /\ d.buf = c.buf /\ d.events = c.events /\ d.overflow = c.overflow
               /\ d.from = c.from /\ d.pc \in {"register", "idle", "anchor"}
               /\ d.pc = "register" => c.from <= Len(log)
  <2>1. CASE CatchUp(w)
    <3> DEFINE d == [c EXCEPT !.pc = "register"]
    <3>1. watch' = [watch EXCEPT ![w] = d] /\ c.from <= Len(log)
      BY <2>1, <1>0 DEF CatchUp, Step, Calls
    <3>2. /\ d \in Calls /\ d.buf = c.buf /\ d.events = c.events
          /\ d.overflow = c.overflow /\ d.from = c.from
          /\ d.pc = "register"
      BY <1>0 DEF Calls
    <3> HIDE DEF d
    <3> QED BY <3>1, <3>2
  <2>2. CASE CatchUpCanceled(w)
    <3> DEFINE d == [c EXCEPT !.pc = "idle", !.canceled = TRUE]
    <3>1. watch' = [watch EXCEPT ![w] = d]
      BY <2>2 DEF CatchUpCanceled, Step
    <3>2. /\ d \in Calls /\ d.buf = c.buf /\ d.events = c.events
          /\ d.overflow = c.overflow /\ d.from = c.from
          /\ d.pc = "idle"
      BY <1>0 DEF Calls
    <3> HIDE DEF d
    <3> QED BY <3>1, <3>2
  <2>3. CASE CatchUpTimeout(w)
    <3> DEFINE d == [c EXCEPT !.pc = "anchor", !.code = "BEHIND"]
    <3>1. watch' = [watch EXCEPT ![w] = d]
      BY <2>3 DEF CatchUpTimeout, Step
    <3>2. /\ d \in Calls /\ d.buf = c.buf /\ d.events = c.events
          /\ d.overflow = c.overflow /\ d.from = c.from
          /\ d.pc = "anchor"
      BY <1>0 DEF Calls
    <3> HIDE DEF d
    <3> QED BY <3>1, <3>2
  <2> QED BY <2>1, <2>2, <2>3
<1>2. c.pc = "catchup" /\ UNCHANGED <<store, log, applier, waiters>>
  BY DEF CatchUp, CatchUpCanceled, CatchUpTimeout, Step
<1>3. IsCall(d) /\ CallInv(w, d, log, applier, waiters)
  <2>1. IsCall(d)
    BY <1>0, <1>1 DEF IsCall
  <2>2. /\ w \notin waiters /\ w \notin applier.todo /\ c.buf = <<>>
        /\ c.events = <<>> /\ ~c.overflow
    BY <1>2, NotListed
  <2> HIDE DEF c
  <2> QED BY <1>1, <2>1, <2>2, CallFacts, FreshCall
<1> QED BY <1>1, <1>2, <1>3, CallMoves DEF HubInv

\* Register puts the call on the list before it replays.
LEMMA RegisterStep ==
  ASSUME HubInv, NEW w \in Watchers, Register(w)
  PROVE  HubInv'
<1> DEFINE c == watch[w]
           flying == IF applier.pc = "broadcast"
                     THEN {e.revision : e \in RecordsOf(applier.events)} ELSE {}
           d == [c EXCEPT !.pc = IF c.from > 0 THEN "current" ELSE "wait",
                          !.inflight = flying]
           reg == waiters \cup {w}
<1>1. /\ c.pc = "register" /\ watch' = [watch EXCEPT ![w] = d] /\ waiters' = reg
      /\ UNCHANGED <<store, log, applier>>
  BY DEF Register, Step
<1>2. /\ c \in Calls /\ IsCall(c) /\ IsLog(log) /\ IsApplier(applier, log)
      /\ Len(log) \in Nat /\ Len(applier.events) \in Nat
      /\ c.from <= Len(log) /\ w \notin applier.todo
      /\ c.buf = <<>> /\ c.events = <<>> /\ ~c.overflow
  <2>1. ControlOf(w, c, log, applier, waiters)
    BY CallFacts DEF CallInv
  <2> QED BY <1>1, <2>1, CallFacts, NotListed DEF ControlOf
<1>3. flying \in SUBSET Nat
  <2>1. applier.events \in Seq(Events)
    BY <1>2 DEF IsApplier
  <2>2. \A e \in RecordsOf(applier.events) : e \in Events
    BY <2>1 DEF RecordsOf
  <2>3. \A e \in Events : e.revision \in Nat
    BY DEF Events
  <2> QED BY <2>2, <2>3
<1> HIDE DEF flying
<1>4. /\ d \in Calls /\ d.pc = IF c.from > 0 THEN "current" ELSE "wait"
      /\ d.inflight = flying /\ d.from = c.from /\ d.buf = <<>>
      /\ d.events = <<>> /\ ~d.overflow /\ d.filter = c.filter
  BY <1>2, <1>3 DEF Calls, Registered
<1> HIDE DEF d
<1>5. IsCall(d)
  BY <1>4, WatchAssumption DEF IsCall
<1>6. ControlOf(w, d, log, applier, reg)
  BY <1>2, <1>4 DEF ControlOf, Registered
<1>7. RepeatsOf(w, d, applier, reg)
  <2>1. ASSUME Owed(w, applier, reg), NEW i \in 1..Len(applier.events)
        PROVE  NewOrInFlight(d, applier.events[i])
    BY <1>2, <1>4, <2>1 DEF Owed, flying, RecordsOf, NewOrInFlight, IsApplier
  <2> QED BY <1>4, <2>1 DEF RepeatsOf
<1>8. BufferOf(w, d, log, applier, reg)
  <2> DEFINE top == Given(w, log, applier, reg)
  <2>1. top \in 0..Len(log)
    BY <1>2 DEF Given, IsApplier, IsTail
  <2>2. BufferUpTo(d, log, top)
    <3>1. Len(d.buf) = 0 /\ d.buf \in Seq(Events)
      BY <1>4
    <3>2. d.from > 0 => ~Caught(d)
      BY <1>4 DEF Caught, Unlocked
    <3>3. d.pc # "replay"
      BY <1>4
    <3> QED BY <1>4, <3>1, <3>2, <3>3 DEF BufferUpTo, IsStream, Sorted
  <2> HIDE DEF top
  <2> QED BY <2>1, <2>2 DEF BufferOf, top
<1>9. CallInv(w, d, log, applier, reg)
  BY <1>4, <1>6, <1>7, <1>8 DEF CallInv, AnswerOf
<1> QED BY <1>1, <1>5, <1>9, CallMoves DEF HubInv

\* A step that only moves the call, on the same lists.
LEMMA PcMoves ==
  ASSUME NEW w, NEW c, NEW d, NEW l, NEW ap, NEW reg, CallInv(w, c, l, ap, reg),
         d.buf = c.buf, d.filter = c.filter, d.from = c.from, d.cur = c.cur,
         d.installed = c.installed, d.overflow = c.overflow,
         d.inflight = c.inflight, d.events = c.events, c.events = <<>>,
         c.pc \in {"wait", "blocked"}, d.pc \in {"wait", "blocked", "unregister"}
  PROVE  CallInv(w, d, l, ap, reg)
<1>1. ControlOf(w, d, l, ap, reg)
  BY DEF CallInv, ControlOf, Registered
<1>2. RepeatsOf(w, d, ap, reg)
  BY DEF CallInv, RepeatsOf, NewOrInFlight
<1>3. Caught(c)
  BY DEF Caught
<1>4. BufferOf(w, d, l, ap, reg)
  BY <1>3, SameBuffer DEF CallInv
<1> QED BY <1>1, <1>2, <1>4 DEF CallInv, AnswerOf

\* The steps of the waiting loop.
LEMMA WaitSteps ==
  ASSUME HubInv, NEW w \in Watchers,
         WaitCheck(w) \/ WaitCanceled(w) \/ Timeout(w) \/ SpuriousWake(w)
  PROVE  HubInv'
<1> DEFINE c == watch[w]
           IsNext(d) ==
             /\ d \in Calls /\ d.pc \in {"wait", "blocked", "unregister"}
             /\ d.buf = c.buf /\ d.filter = c.filter /\ d.from = c.from
             /\ d.cur = c.cur /\ d.installed = c.installed
             /\ d.overflow = c.overflow /\ d.inflight = c.inflight
             /\ d.events = c.events
<1>0. c \in Calls /\ IsCall(c) /\ CallInv(w, c, log, applier, waiters)
  BY CallFacts
<1>1. c.pc \in {"wait", "blocked"} /\ UNCHANGED <<store, log, applier, waiters>>
  BY DEF WaitCheck, WaitCanceled, Timeout, SpuriousWake, Step
<1>2. c.events = <<>>
  BY <1>0, <1>1 DEF CallInv, ControlOf
<1>3. ASSUME NEW pc \in {"wait", "blocked", "unregister"}
      PROVE  /\ IsNext([c EXCEPT !.pc = pc])
             /\ IsNext([c EXCEPT !.pc = pc, !.canceled = TRUE])
  BY <1>0 DEF Calls, Registered
<1>4. PICK d : watch' = [watch EXCEPT ![w] = d] /\ IsNext(d)
  <2> HIDE DEF IsNext
  <2>1. CASE WaitCheck(w)
    <3> DEFINE pc == IF c.buf # <<>> \/ c.overflow THEN "unregister" ELSE "blocked"
    <3>1. watch' = [watch EXCEPT ![w] = [c EXCEPT !.pc = pc]]
      BY <2>1 DEF WaitCheck, Step
    <3>2. pc \in {"wait", "blocked", "unregister"}
      OBVIOUS
    <3> HIDE DEF pc
    <3> QED BY <1>3, <3>1, <3>2
  <2>2. CASE WaitCanceled(w)
    <3>1. watch' = [watch EXCEPT ![w] = [c EXCEPT !.pc = "unregister",
                                                  !.canceled = TRUE]]
      BY <2>2 DEF WaitCanceled, Step
    <3> QED BY <1>3, <3>1
  <2>3. CASE Timeout(w)
    <3>1. watch' = [watch EXCEPT ![w] = [c EXCEPT !.pc = "unregister"]]
      BY <2>3 DEF Timeout, Step
    <3> QED BY <1>3, <3>1
  <2>4. CASE SpuriousWake(w)
    <3>1. watch' = [watch EXCEPT ![w] = [c EXCEPT !.pc = "wait"]]
      BY <2>4 DEF SpuriousWake, Step
    <3> QED BY <1>3, <3>1
  <2> QED BY <2>1, <2>2, <2>3, <2>4
<1>5. IsCall(d)
  BY <1>0, <1>4 DEF IsCall
<1> HIDE DEF c
<1>6. CallInv(w, d, log, applier, waiters)
  BY <1>0, <1>1, <1>2, <1>4, PcMoves
<1> QED BY <1>1, <1>4, <1>5, <1>6, CallMoves DEF HubInv

\* cur is the revision of the store: everything later is in the buffer already.
LEMMA ReadCurrentStep ==
  ASSUME HubInv, NEW w \in Watchers, ReadCurrent(w)
  PROVE  HubInv'
<1> DEFINE c == watch[w]
           d == [c EXCEPT !.pc = "replay", !.cur = store.revision]
<1>0. /\ c \in Calls /\ IsCall(c) /\ CallInv(w, c, log, applier, waiters)
      /\ store.revision = Len(log) /\ Len(log) \in Nat
  BY CallFacts
<1>1. /\ c.pc = "current" /\ watch' = [watch EXCEPT ![w] = d]
      /\ UNCHANGED <<store, log, applier, waiters>>
  BY DEF ReadCurrent, Step
<1>2. /\ d \in Calls /\ d.pc = "replay" /\ d.cur = Len(log)
      /\ d.buf = c.buf /\ d.filter = c.filter /\ d.from = c.from
      /\ d.installed = c.installed /\ d.overflow = c.overflow
      /\ d.inflight = c.inflight /\ d.events = c.events
  BY <1>0 DEF Calls, Registered
<1> HIDE DEF d, c
<1>3. IsCall(d)
  BY <1>0, <1>2 DEF IsCall
<1>4. c.events = <<>> /\ ControlOf(w, d, log, applier, waiters)
  BY <1>0, <1>1, <1>2 DEF CallInv, ControlOf, Registered
<1>5. RepeatsOf(w, d, applier, waiters)
  BY <1>0, <1>2 DEF CallInv, RepeatsOf, NewOrInFlight
<1>6. ~Caught(d)
  BY <1>2 DEF Caught, Unlocked
<1>7. \A top \in 0..Len(log) : Covers(d.buf, log, d.cur, top, d.filter)
  BY <1>0, <1>2 DEF Covers
<1>8. BufferOf(w, d, log, applier, waiters)
  BY <1>0, <1>2, <1>6, <1>7 DEF CallInv, BufferOf, BufferUpTo
<1>9. CallInv(w, d, log, applier, waiters)
  BY <1>2, <1>4, <1>5, <1>8 DEF CallInv, AnswerOf
<1> QED BY <1>1, <1>3, <1>9, CallMoves DEF HubInv

\* The replay returns the stream after from_revision, or finds nothing up to
\* cur, and then the buffer is the stream after from_revision.
LEMMA ReplayStep ==
  ASSUME HubInv, NEW w \in Watchers, Replay(w)
  PROVE  HubInv'
<1> DEFINE c   == watch[w]
           res == ReplayEventsLocked(store.hist, store.compact_rev, c.from, c.cur,
                                     c.filter, MaxWatchEvents)
           d   == [c EXCEPT !.code = res.code, !.events = res.events,
                     !.pc = IF res.code = "OK" /\ res.events = <<>> THEN "wait"
                            ELSE "unregister"]
           q   == FirstEvents(InRange(store.hist, c.from, c.cur, c.filter),
                              MaxWatchEvents)
<1>0. /\ c \in Calls /\ IsCall(c) /\ CallInv(w, c, log, applier, waiters)
      /\ IsLog(log) /\ Image(store, log) /\ Len(log) \in Nat
  BY CallFacts DEF HubInv, HubState
<1>1. /\ c.pc = "replay" /\ watch' = [watch EXCEPT ![w] = d]
      /\ UNCHANGED <<store, log, applier, waiters>>
  BY DEF Replay, Step
<1>2. c.from \in Nat /\ c.from > 0 /\ c.cur \in Nat /\ store.compact_rev \in Nat
  BY <1>0, <1>1 DEF CallInv, ControlOf, Calls, Image, IsStore
<1>3. \/ res.code = "COMPACTED" /\ res.events = <<>>
      \/ res.code = "OK" /\ res.events = q /\ store.compact_rev <= c.from
  BY <1>2, WatchAssumption DEF ReplayEventsLocked
<1>4. store.compact_rev <= c.from =>
        /\ IsStream(q, log, c.filter) /\ Len(q) <= MaxWatchEvents
        /\ \A i \in 1..Len(q) : c.from < q[i].revision /\ q[i].revision <= c.cur
        /\ q # <<>> => Covers(q, log, c.from, q[Len(q)].revision, c.filter)
        /\ q = <<>> => Covers(q, log, c.from, c.cur, c.filter)
  BY <1>0, <1>2, WatchAssumption, ReplayIsStream
<1> HIDE DEF q
<1>5. /\ IsStream(res.events, log, c.filter) /\ Len(res.events) <= MaxWatchEvents
      /\ \A i \in 1..Len(res.events) : c.from < res.events[i].revision
      /\ res.events # <<>> => Covers(res.events, log, c.from,
                                     res.events[Len(res.events)].revision, c.filter)
      /\ res.code = "OK" /\ res.events = <<>>
         => \A r \in 1..Len(log) :
              c.from < r /\ r <= c.cur => ~Matches(c.filter, log[r])
      /\ res.code \in {"OK", "COMPACTED"}
  <2>1. CASE res.code = "COMPACTED" /\ res.events = <<>>
    <3>1. IsStream(<<>>, log, c.filter) /\ Len(<<>>) = 0
      BY DEF IsStream, Sorted
    <3> QED BY <2>1, <3>1, WatchAssumption
  <2>2. CASE res.code = "OK" /\ res.events = q /\ store.compact_rev <= c.from
    <3>1. q = <<>> => \A r \in 1..Len(log) :
            c.from < r /\ r <= c.cur => ~Matches(c.filter, log[r])
      BY <1>4, <2>2 DEF Covers
    <3> QED BY <1>4, <2>2, <3>1
  <2> QED BY <1>3, <2>1, <2>2
<1>6. res.events \in Seq(Events)
  BY <1>5 DEF IsStream
<1> HIDE DEF res
<1>7. /\ d \in Calls /\ d.code = res.code /\ d.events = res.events
      /\ d.pc = IF res.code = "OK" /\ res.events = <<>> THEN "wait" ELSE "unregister"
      /\ d.buf = c.buf /\ d.filter = c.filter /\ d.from = c.from /\ d.cur = c.cur
      /\ d.installed = c.installed /\ d.overflow = c.overflow
      /\ d.inflight = c.inflight
  BY <1>0, <1>5, <1>6 DEF Calls, Registered
<1> HIDE DEF d, c
<1>8. IsCall(d)
  BY <1>0, <1>5, <1>7 DEF IsCall
<1>9. ControlOf(w, d, log, applier, waiters)
  BY <1>0, <1>1, <1>7 DEF CallInv, ControlOf, Registered
<1>10. RepeatsOf(w, d, applier, waiters)
  <2>1. \A i \in 1..Len(d.events) : NewOrInFlight(d, d.events[i])
    <3>1. \A i \in 1..Len(d.events) : d.events[i].revision \in Nat
      BY <1>5, <1>7 DEF IsStream
    <3> QED BY <1>2, <1>5, <1>7, <3>1 DEF NewOrInFlight
  <2> QED BY <1>0, <1>7, <2>1 DEF CallInv, RepeatsOf, NewOrInFlight
<1>11. BufferOf(w, d, log, applier, waiters)
  <2> SUFFICES ASSUME ~d.installed, ~d.overflow
               PROVE  \E top \in 0..Len(log) :
                        /\ BufferUpTo(d, log, top)
                        /\ w \in waiters \cup applier.todo
                           => top = Given(w, log, applier, waiters)
    BY DEF BufferOf
  <2>1. PICK top \in 0..Len(log) :
          /\ BufferUpTo(c, log, top)
          /\ w \in waiters \cup applier.todo => top = Given(w, log, applier, waiters)
    BY <1>0, <1>7 DEF CallInv, BufferOf
  <2>2. Covers(c.buf, log, c.cur, top, c.filter)
    BY <1>1, <2>1 DEF BufferUpTo
  <2>3. Caught(d) => Covers(c.buf, log, c.from, top, c.filter)
    <3> SUFFICES ASSUME Caught(d), NEW r \in 1..Len(log), c.from < r, r <= top,
                        Matches(c.filter, log[r])
                 PROVE  \E i \in 1..Len(c.buf) : c.buf[i].revision = r
      BY DEF Covers
    <3>1. res.code = "OK" /\ res.events = <<>>
      BY <1>7 DEF Caught, Unlocked
    <3>2. c.cur < r
      BY <1>0, <1>2, <1>5, <3>1
    <3> QED BY <2>2, <3>2 DEF Covers
  <2>4. BufferUpTo(d, log, top)
    <3>1. d.pc # "replay"
      BY <1>7
    <3> QED BY <1>7, <2>1, <2>3, <3>1 DEF BufferUpTo
  <2> QED BY <2>1, <2>4
<1>12. AnswerOf(d, log)
  <2> SUFFICES ASSUME d.events # <<>> PROVE AnswerOf(d, log)
    BY DEF AnswerOf
  <2>1. 1 \in 1..Len(d.events)
    BY <1>6, <1>7
  <2>2. Low(d) = d.from
    BY <1>2, <1>5, <1>7, <2>1 DEF Low, IsStream
  <2>3. d.pc # "idle"
    BY <1>7
  <2> QED BY <1>5, <1>7, <2>2, <2>3 DEF AnswerOf
<1>13. CallInv(w, d, log, applier, waiters)
  BY <1>9, <1>10, <1>11, <1>12 DEF CallInv
<1> QED BY <1>1, <1>8, <1>13, CallMoves DEF HubInv

\* A call that has returned, with an answer that is exact.
LEMMA ReturnedCall ==
  ASSUME NEW w, NEW d, NEW l, IsLog(l), NEW ap, NEW reg,
         w \notin reg, w \notin ap.todo, d.pc = "idle", d.buf = <<>>, ~d.overflow,
         AnswerOf(d, l), \A i \in 1..Len(d.events) : NewOrInFlight(d, d.events[i])
  PROVE  CallInv(w, d, l, ap, reg)
<1>1. ControlOf(w, d, l, ap, reg)
  BY DEF ControlOf, Registered
<1>2. RepeatsOf(w, d, ap, reg)
  BY DEF RepeatsOf, Owed
<1>3. BufferOf(w, d, l, ap, reg)
  <2>1. d.pc # "replay" /\ ~Caught(d)
    BY DEF Caught, Unlocked
  <2>2. 0 \in 0..Len(l)
    BY DEF IsLog
  <2>3. BufferUpTo(d, l, 0)
    BY <2>1, EmptyBuffer
  <2> QED BY <2>2, <2>3 DEF BufferOf
<1> QED BY <1>1, <1>2, <1>3 DEF CallInv

\* The call that Returned makes of the call c.
ReturnedAs(c, code, events, current) ==
  [c EXCEPT !.pc = "idle", !.buf = <<>>, !.overflow = FALSE, !.raced = FALSE,
            !.cur = 0, !.code = code, !.events = events, !.current = current]

\* d is the call c after it has returned events with the anchor current.
HasReturned(d, c, events, current) ==
  /\ d \in Calls /\ d.pc = "idle" /\ d.buf = <<>> /\ ~d.overflow
  /\ d.events = events /\ d.current = current /\ d.from = c.from
  /\ d.filter = c.filter /\ d.inflight = c.inflight
  /\ d.installed = c.installed

\* Returned makes such a call.
LEMMA ReturnedFields ==
  ASSUME NEW c \in Calls, NEW code \in {"OK", "COMPACTED", "BEHIND", "OVERFLOW"},
         NEW events \in Seq(Events), NEW current \in Nat
  PROVE  HasReturned(ReturnedAs(c, code, events, current), c, events, current)
<1>1. <<>> \in Seq(Events)
  OBVIOUS
<1> QED BY <1>1 DEF Calls, ReturnedAs, HasReturned

\* Unregister: the call returns its replayed events, or goes on off the list.
LEMMA UnregisterStep ==
  ASSUME HubInv, NEW w \in Watchers, Unregister(w)
  PROVE  HubInv'
<1> DEFINE c   == watch[w]
           reg == waiters \ {w}
<1>0. /\ c \in Calls /\ IsCall(c) /\ CallInv(w, c, log, applier, waiters)
      /\ IsLog(log) /\ Len(log) \in Nat /\ IsApplier(applier, log)
  BY CallFacts
<1>1. /\ c.pc = "unregister" /\ waiters' = reg /\ UNCHANGED <<store, log>>
  BY DEF Unregister, Returned, Step
<1>2. w \notin reg
  OBVIOUS
<1>3. CASE c.events # <<>>
  <2> DEFINE last == c.events[Len(c.events)].revision
             d == ReturnedAs(c, "OK", c.events, last)
             ap == [applier EXCEPT !.todo = @ \ {w}]
  <2>1. watch' = [watch EXCEPT ![w] = d] /\ applier' = ap
    BY <1>3 DEF Unregister, Returned, Step, ReturnedAs
  <2>2. c.events \in Seq(Events) /\ last \in Nat
    <3>1. c.events \in Seq(Events)
      BY <1>0 DEF Calls
    <3>2. c.events[Len(c.events)] \in Events
      BY <1>3, <3>1
    <3> QED BY <3>1, <3>2 DEF Events
  <2> HIDE DEF last
  <2>3. /\ d \in Calls /\ d.pc = "idle" /\ d.buf = <<>> /\ ~d.overflow
        /\ d.events = c.events /\ d.current = last /\ d.from = c.from
        /\ d.filter = c.filter /\ d.inflight = c.inflight
        /\ d.installed = c.installed
    <3> HIDE DEF c
    <3>1. HasReturned(d, c, c.events, last)
      BY <1>0, <2>2, ReturnedFields
    <3> HIDE DEF d
    <3> QED BY <3>1 DEF HasReturned
  <2>4. w \notin ap.todo
    BY <1>0 DEF IsApplier
  <2> HIDE DEF d, c, ap, reg
  <2>5. IsCall(d)
    BY <1>0, <2>3, WatchAssumption DEF IsCall
  <2>6. Low(d) = Low(c)
    BY <2>3 DEF Low
  <2>7. AnswerOf(d, log)
    BY <1>0, <2>3, <2>6 DEF CallInv, AnswerOf, last
  <2>8. \A i \in 1..Len(d.events) : NewOrInFlight(d, d.events[i])
    BY <1>0, <2>3 DEF CallInv, RepeatsOf, NewOrInFlight
  <2>9. CallInv(w, d, log, ap, reg)
    BY <1>0, <1>2, <2>3, <2>4, <2>7, <2>8, ReturnedCall
  <2> QED BY <1>1, <2>1, <2>5, <2>9, CallMoves DEF HubInv, ap, reg
<1>4. CASE c.events = <<>>
  <2> DEFINE d == [c EXCEPT !.pc = IF c.code = "OK" THEN "overflow" ELSE "anchor"]
  <2>1. watch' = [watch EXCEPT ![w] = d] /\ applier' = applier
    BY <1>4 DEF Unregister, Step
  <2>2. /\ d \in Calls /\ d.pc = IF c.code = "OK" THEN "overflow" ELSE "anchor"
        /\ d.buf = c.buf /\ d.filter = c.filter /\ d.from = c.from /\ d.cur = c.cur
        /\ d.installed = c.installed /\ d.overflow = c.overflow
        /\ d.inflight = c.inflight /\ d.events = c.events
    BY <1>0 DEF Calls, Unlocked
  <2> HIDE DEF d, c
  <2>3. IsCall(d)
    BY <1>0, <2>2 DEF IsCall
  <2>4. ControlOf(w, d, log, applier, reg)
    BY <1>0, <1>1, <1>4, <2>2 DEF CallInv, ControlOf, Registered, Unlocked
  <2>5. RepeatsOf(w, d, applier, reg)
    BY <1>0, <2>2 DEF CallInv, RepeatsOf, NewOrInFlight, Owed
  <2>6. Caught(d) => Caught(c)
    BY <1>1, <1>4, <2>2 DEF Caught, Unlocked
  <2>7. BufferOf(w, d, log, applier, waiters)
    BY <1>0, <1>1, <2>2, <2>6, SameBuffer DEF CallInv
  <2>8. w \in applier.todo => Given(w, log, applier, reg) = Given(w, log, applier, waiters)
    BY DEF Given, Owed
  <2>9. BufferOf(w, d, log, applier, reg)
    BY <1>2, <2>7, <2>8 DEF BufferOf
  <2>10. CallInv(w, d, log, applier, reg)
    BY <1>4, <2>2, <2>4, <2>5, <2>9 DEF CallInv, AnswerOf
  <2> HIDE DEF reg
  <2> QED BY <1>1, <2>1, <2>3, <2>10, CallMoves DEF HubInv, reg
<1> QED BY <1>3, <1>4

\* A call off the list that moves on with the same buffer.
LEMMA UnlockedMoves ==
  ASSUME NEW w, NEW c, NEW d, NEW l, NEW ap, NEW reg, CallInv(w, c, l, ap, reg),
         d.buf = c.buf, d.filter = c.filter, d.from = c.from, d.cur = c.cur,
         d.installed = c.installed, d.overflow = c.overflow,
         d.inflight = c.inflight, d.events = c.events,
         c.pc \in Unlocked, d.pc \in {"take", "anchor"},
         d.pc = "take" => ~c.overflow
  PROVE  CallInv(w, d, l, ap, reg)
<1>1. c.events = <<>>
  BY DEF CallInv, ControlOf, Unlocked
<1>2. ControlOf(w, d, l, ap, reg)
  BY <1>1 DEF CallInv, ControlOf, Registered, Unlocked
<1>3. RepeatsOf(w, d, ap, reg)
  BY DEF CallInv, RepeatsOf, NewOrInFlight
<1>4. Caught(c)
  BY DEF Caught
<1>5. BufferOf(w, d, l, ap, reg)
  BY <1>4, SameBuffer DEF CallInv
<1> QED BY <1>1, <1>2, <1>3, <1>5 DEF CallInv, AnswerOf

\* The unlocked read of overflow.
LEMMA ReadOverflowStep ==
  ASSUME HubInv, NEW w \in Watchers, ReadOverflow(w)
  PROVE  HubInv'
<1> DEFINE c == watch[w]
           d == IF c.overflow THEN [c EXCEPT !.pc = "anchor", !.code = "OVERFLOW"]
                ELSE [c EXCEPT !.pc = "take"]
<1>0. c \in Calls /\ IsCall(c) /\ CallInv(w, c, log, applier, waiters)
  BY CallFacts
<1>1. /\ c.pc = "overflow" /\ watch' = [watch EXCEPT ![w] = d]
      /\ UNCHANGED <<store, log, applier, waiters>>
  BY DEF ReadOverflow, Step
<1>2. /\ d \in Calls /\ d.pc \in {"take", "anchor"} /\ (d.pc = "take" => ~c.overflow)
      /\ d.buf = c.buf /\ d.filter = c.filter /\ d.from = c.from /\ d.cur = c.cur
      /\ d.installed = c.installed /\ d.overflow = c.overflow
      /\ d.inflight = c.inflight /\ d.events = c.events
  BY <1>0 DEF Calls, Unlocked
<1> HIDE DEF d, c
<1>3. IsCall(d)
  BY <1>0, <1>2 DEF IsCall
<1>4. CallInv(w, d, log, applier, waiters)
  BY <1>0, <1>1, <1>2, UnlockedMoves DEF Unlocked
<1> QED BY <1>1, <1>3, <1>4, CallMoves DEF HubInv

\* The buffer, or any prefix of it, is an exact answer.
LEMMA TakeEventsStep ==
  ASSUME HubInv, NEW w \in Watchers, NEW n \in 0..Len(watch[w].buf), TakeEvents(w, n)
  PROVE  HubInv'
<1> DEFINE c == watch[w]
           taken == SubSeq(c.buf, 1, n)
<1>0. /\ c \in Calls /\ IsCall(c) /\ CallInv(w, c, log, applier, waiters)
      /\ IsLog(log) /\ Len(log) \in Nat /\ IsApplier(applier, log)
      /\ c.buf \in Seq(Events) /\ Len(c.buf) \in Nat
  BY CallFacts DEF Calls
<1>1. c.pc = "take" /\ UNCHANGED <<store, log, waiters>>
  BY DEF TakeEvents, Returned, Step
<1>2. CASE taken # <<>>
  <2> DEFINE d == ReturnedAs(c, "OK", taken, taken[n].revision)
             ap == [applier EXCEPT !.todo = @ \ {w}]
  <2>1. watch' = [watch EXCEPT ![w] = d] /\ applier' = ap
    BY <1>2 DEF TakeEvents, Returned, Step, ReturnedAs
  <2>2. /\ n \in 1..Len(c.buf) /\ taken \in Seq(Events) /\ Len(taken) = n
        /\ \A i \in 1..n : taken[i] = c.buf[i] /\ taken[i] \in Events
        /\ taken[n].revision \in Nat
    <3>1. n # 0
      BY <1>0, <1>2
    <3>2. n \in 1..Len(c.buf)
      BY <1>0, <3>1
    <3>3. taken \in Seq(Events) /\ Len(taken) = n /\ \A i \in 1..n : taken[i] = c.buf[i]
      BY <1>0, <3>2
    <3> HIDE DEF taken
    <3>4. \A i \in 1..n : taken[i] \in Events
      BY <3>3
    <3> QED BY <3>2, <3>3, <3>4 DEF Events
  <2>3. /\ d \in Calls /\ d.pc = "idle" /\ d.buf = <<>> /\ ~d.overflow
        /\ d.events = taken /\ d.current = taken[n].revision /\ d.from = c.from
        /\ d.filter = c.filter /\ d.inflight = c.inflight
        /\ d.installed = c.installed
    <3> DEFINE last == taken[n].revision
    <3>1. last \in Nat /\ d = ReturnedAs(c, "OK", taken, last)
      BY <2>2
    <3>2. taken \in Seq(Events)
      BY <2>2
    <3> HIDE DEF c, taken, last
    <3>3. LET r == ReturnedAs(c, "OK", taken, last)
          IN  /\ r \in Calls /\ r.pc = "idle" /\ r.buf = <<>> /\ ~r.overflow
              /\ r.events = taken /\ r.current = last /\ r.from = c.from
              /\ r.filter = c.filter /\ r.inflight = c.inflight
              /\ r.installed = c.installed
      <4>1. HasReturned(ReturnedAs(c, "OK", taken, last), c, taken, last)
        BY <1>0, <3>1, <3>2, ReturnedFields
      <4> QED BY <4>1 DEF HasReturned
    <3> HIDE DEF d
    <3> QED BY <3>1, <3>3 DEF last
  <2>4. w \notin ap.todo
    BY <1>0 DEF IsApplier
  <2> HIDE DEF d, ap
  <2>5. IsCall(d)
    BY <1>0, <2>2, <2>3, WatchAssumption DEF IsCall
  <2>6. ~c.overflow /\ w \notin waiters
    BY <1>0, <1>1, <2>2 DEF CallInv, ControlOf, Registered
  <2>7. ASSUME ~c.installed
        PROVE  /\ IsStream(taken, log, c.filter)
               /\ Covers(taken, log, Low(d), taken[n].revision, c.filter)
    <3>1. PICK top \in 0..Len(log) : BufferUpTo(c, log, top)
      BY <1>0, <2>6, <2>7 DEF CallInv, BufferOf
    <3>2. /\ IsStream(c.buf, log, c.filter) /\ c.buf[n].revision <= top
          /\ Covers(c.buf, log, c.buf[1].revision - 1, top, c.filter)
          /\ c.from > 0 => Covers(c.buf, log, c.from, top, c.filter)
      BY <1>1, <2>2, <3>1 DEF BufferUpTo, Caught, Unlocked
    <3>3. /\ IsStream(taken, log, c.filter) /\ taken[n] = c.buf[n]
          /\ taken[1] = c.buf[1]
          /\ \A lo, hi \in Int :
               Covers(c.buf, log, lo, hi, c.filter) /\ c.buf[n].revision <= hi
               => Covers(taken, log, lo, c.buf[n].revision, c.filter)
      <4> HIDE DEF c, taken
      <4> QED BY <1>0, <2>2, <3>2, StreamPrefix
    <3> HIDE DEF taken, c
    <3>4. Low(d) = IF c.from > 0 /\ taken[1].revision > c.from THEN c.from
                   ELSE taken[1].revision - 1
      BY <2>3 DEF Low
    <3>5. c.from \in Int /\ top \in Int /\ taken[1].revision - 1 \in Int
      <4>1. taken[1] \in Events
        BY <2>2
      <4> QED BY <1>0, <4>1 DEF Calls, Events
    <3>6. Covers(c.buf, log, Low(d), top, c.filter) /\ Low(d) \in Int
      BY <3>2, <3>3, <3>4, <3>5
    <3> QED BY <3>2, <3>3, <3>5, <3>6
  <2>8. AnswerOf(d, log)
    BY <2>2, <2>3, <2>7 DEF AnswerOf
  <2>9. \A i \in 1..Len(d.events) : NewOrInFlight(d, d.events[i])
    <3>1. ASSUME NEW i \in 1..n PROVE NewOrInFlight(c, taken[i])
      <4>1. i \in 1..Len(c.buf) /\ taken[i] = c.buf[i]
        BY <1>0, <2>2
      <4> QED BY <1>0, <4>1 DEF CallInv, RepeatsOf
    <3> HIDE DEF taken
    <3> QED BY <2>2, <2>3, <3>1 DEF NewOrInFlight
  <2>10. CallInv(w, d, log, ap, waiters)
    BY <1>0, <2>3, <2>4, <2>6, <2>8, <2>9, ReturnedCall
  <2> QED BY <1>1, <2>1, <2>5, <2>10, CallMoves DEF HubInv, ap
<1>3. CASE taken = <<>>
  <2> DEFINE d == [c EXCEPT !.pc = "anchor"]
  <2>1. watch' = [watch EXCEPT ![w] = d] /\ applier' = applier
    BY <1>3 DEF TakeEvents, Step
  <2>2. /\ d \in Calls /\ d.pc = "anchor"
        /\ d.buf = c.buf /\ d.filter = c.filter /\ d.from = c.from /\ d.cur = c.cur
        /\ d.installed = c.installed /\ d.overflow = c.overflow
        /\ d.inflight = c.inflight /\ d.events = c.events
    BY <1>0 DEF Calls
  <2> HIDE DEF d, c
  <2>3. IsCall(d)
    BY <1>0, <2>2 DEF IsCall
  <2>4. CallInv(w, d, log, applier, waiters)
    BY <1>0, <1>1, <2>2, UnlockedMoves DEF Unlocked
  <2> QED BY <1>1, <2>1, <2>3, <2>4, CallMoves DEF HubInv
<1> QED BY <1>2, <1>3

\* An answer without events.
LEMMA AnchorStep ==
  ASSUME HubInv, NEW w \in Watchers, Anchor(w)
  PROVE  HubInv'
<1> DEFINE c == watch[w]
           d == ReturnedAs(c, c.code, <<>>, store.revision)
           ap == [applier EXCEPT !.todo = @ \ {w}]
<1>0. /\ c \in Calls /\ IsCall(c) /\ CallInv(w, c, log, applier, waiters)
      /\ IsLog(log) /\ store.revision \in Nat /\ IsApplier(applier, log)
  BY CallFacts
<1>1. /\ c.pc = "anchor" /\ watch' = [watch EXCEPT ![w] = d] /\ applier' = ap
      /\ UNCHANGED <<store, log, waiters>>
  BY DEF Anchor, Returned, Step, ReturnedAs
<1>2. /\ d \in Calls /\ d.pc = "idle" /\ d.buf = <<>> /\ ~d.overflow
      /\ d.events = <<>>
  <2>1. c.code \in {"OK", "COMPACTED", "BEHIND", "OVERFLOW"} /\ <<>> \in Seq(Events)
    BY <1>0 DEF Calls
  <2> HIDE DEF c
  <2> QED BY <1>0, <2>1 DEF Calls, ReturnedAs
<1>3. w \notin ap.todo /\ w \notin waiters
  BY <1>0, <1>1 DEF IsApplier, CallInv, ControlOf, Registered
<1> HIDE DEF d, c, ap
<1>4. IsCall(d)
  BY <1>2, WatchAssumption DEF IsCall
<1>5. CallInv(w, d, log, ap, waiters)
  BY <1>0, <1>2, <1>3, ReturnedCall DEF AnswerOf
<1> QED BY <1>1, <1>4, <1>5, CallMoves DEF HubInv, ap

(***************************************************************************)
(* The steps of the applying thread.                                       *)
(***************************************************************************)

\* The buffer of a waiter that is given the events of a command reaches the
\* end of the log.
LEMMA FilledBuffer ==
  ASSUME NEW c, IsCall(c), NEW d, NEW l, IsLog(l), NEW ev, IsTail(ev, l),
         BufferUpTo(c, l, Len(l) - Len(ev)),
         d.buf = c.buf \o Matching(ev, c.filter), d.filter = c.filter,
         d.from = c.from, d.cur = c.cur,
         d.pc = "replay" => c.pc = "replay", Caught(d) => Caught(c)
  PROVE  BufferUpTo(d, l, Len(l))
<1> DEFINE n    == Len(l) - Len(ev)
           more == Matching(ev, c.filter)
           buf  == c.buf \o more
<1>0. /\ Len(l) \in Nat /\ Len(ev) \in Nat /\ n \in 0..Len(l)
      /\ c.from \in Int /\ c.cur \in Int
  BY DEF IsLog, IsTail, IsCall, Calls
<1>1. /\ IsStream(more, l, c.filter)
      /\ \A i \in 1..Len(more) : n < more[i].revision
      /\ Covers(more, l, n, Len(l), c.filter)
  BY TailIsStream
<1>2. IsStream(c.buf, l, c.filter) /\ \A i \in 1..Len(c.buf) : c.buf[i].revision <= n
  BY DEF BufferUpTo
<1> HIDE DEF n, more
<1>3. /\ IsStream(buf, l, c.filter)
      /\ \A lo \in Int : Covers(c.buf, l, lo, n, c.filter)
                         => Covers(buf, l, lo, Len(l), c.filter)
      /\ \A i \in 1..Len(buf) : \/ \E j \in 1..Len(c.buf) : buf[i] = c.buf[j]
                                \/ \E j \in 1..Len(more) : buf[i] = more[j]
      /\ c.buf # <<>> => buf # <<>> /\ buf[1] = c.buf[1]
  <2>1. c.buf \in Seq(Events) /\ more \in Seq(Events)
    BY <1>1, <1>2 DEF IsStream
  <2>2. /\ buf \in Seq(Events) /\ Len(buf) = Len(c.buf) + Len(more)
        /\ \A i \in 1..Len(c.buf) : buf[i] = c.buf[i]
        /\ \A i \in 1..Len(more) : buf[Len(c.buf) + i] = more[i]
    BY <2>1
  <2> HIDE DEF buf
  <2>3. IsAppended(buf, c.buf, more) /\ EndsAt(c.buf, n) /\ StartsAfter(more, n)
    BY <1>1, <1>2, <2>2 DEF IsAppended, EndsAt, StartsAfter
  <2>4. /\ n \in 0..Len(l) /\ IsStream(c.buf, l, c.filter) /\ IsStream(more, l, c.filter)
        /\ Covers(more, l, n, Len(l), c.filter)
    BY <1>0, <1>1, <1>2
  <2> QED BY <2>3, <2>4, StreamAppend
<1>4. d.buf = buf
  BY DEF more
<1> HIDE DEF buf
<1>5. \A i \in 1..Len(buf) : buf[i].revision <= Len(l) /\ buf[i].revision \in Nat
  BY <1>0, <1>3 DEF IsStream
<1>6. ASSUME buf # <<>> PROVE Covers(buf, l, buf[1].revision - 1, Len(l), c.filter)
  <2>1. 1 \in 1..Len(buf) /\ buf[1].revision - 1 \in Int
    <3>1. buf \in Seq(Events)
      BY <1>3 DEF IsStream
    <3>2. 1 \in 1..Len(buf)
      BY <1>6, <3>1
    <3> QED BY <1>5, <3>2
  <2>2. Covers(c.buf, l, buf[1].revision - 1, n, c.filter)
    <3>1. CASE c.buf # <<>>
      BY <1>3, <3>1 DEF BufferUpTo, n
    <3>2. CASE c.buf = <<>>
      <4>1. \E j \in 1..Len(more) : buf[1] = more[j]
        <5>1. Len(c.buf) = 0
          BY <3>2
        <5> QED BY <1>3, <2>1, <5>1
      <4>2. n < buf[1].revision
        BY <1>1, <4>1
      <4>3. \A r \in 1..Len(l) : ~(buf[1].revision - 1 < r /\ r <= n)
        BY <1>0, <1>5, <2>1, <4>2
      <4> QED BY <4>3 DEF Covers
    <3> QED BY <3>1, <3>2
  <2> QED BY <1>3, <2>1, <2>2
<1>7. d.pc = "replay" => Covers(buf, l, d.cur, Len(l), d.filter)
  BY <1>0, <1>3 DEF BufferUpTo, n
<1>8. Caught(d) /\ d.from > 0 => Covers(buf, l, d.from, Len(l), d.filter)
  BY <1>0, <1>3 DEF BufferUpTo, n
<1> QED BY <1>3, <1>4, <1>5, <1>6, <1>7, <1>8 DEF BufferUpTo

\* A waiter is given the events of the last command, or overflows.
LEMMA DeliverStep ==
  ASSUME HubInv, NEW w \in Watchers, Deliver(w)
  PROVE  HubInv'
<1> DEFINE c    == watch[w]
           ev   == applier.events
           more == Matching(ev, c.filter)
           fits == Len(c.buf) + Len(more) <= MaxWatchEvents
           pc   == IF c.pc = "blocked" THEN "wait" ELSE c.pc
           f    == Filled(c, ev)
           d    == [f EXCEPT !.pc = IF f.pc = "blocked" THEN "wait" ELSE f.pc,
                             !.raced = @ \/ f.pc \in Unlocked]
           ap   == [applier EXCEPT !.todo = @ \ {w}]
<1>0. /\ c \in Calls /\ IsCall(c) /\ CallInv(w, c, log, applier, waiters)
      /\ IsLog(log) /\ Len(log) \in Nat /\ IsApplier(applier, log)
      /\ IsTail(ev, log) /\ c.buf \in Seq(Events)
  BY CallFacts DEF IsApplier, Calls
<1>1. /\ applier.pc = "deliver" /\ w \in applier.todo
      /\ watch' = [watch EXCEPT ![w] = d] /\ applier' = ap
      /\ UNCHANGED <<store, log, waiters>>
  BY DEF Deliver
<1>2. IsStream(more, log, c.filter) /\ more \in Seq(Events) /\ Len(more) \in Nat
  <2>1. IsStream(more, log, c.filter)
    BY <1>0, TailIsStream
  <2> HIDE DEF more
  <2> QED BY <2>1 DEF IsStream
<1>3. f = IF fits THEN [c EXCEPT !.buf = c.buf \o more]
          ELSE [c EXCEPT !.buf = <<>>, !.overflow = TRUE]
  BY DEF Filled
<1> HIDE DEF f, more
<1>4. /\ f \in Calls /\ f.buf = (IF fits THEN c.buf \o more ELSE <<>>)
      /\ f.overflow = (IF fits THEN c.overflow ELSE TRUE)
      /\ f.filter = c.filter /\ f.from = c.from /\ f.cur = c.cur
      /\ f.installed = c.installed /\ f.inflight = c.inflight
      /\ f.events = c.events /\ f.code = c.code /\ f.pc = c.pc
  <2>1. <<>> \in Seq(Events) /\ c.buf \o more \in Seq(Events)
    BY <1>0, <1>2
  <2> HIDE DEF c, fits
  <2>2. CASE fits
    BY <1>0, <1>3, <2>1, <2>2 DEF Calls
  <2>3. CASE ~fits
    BY <1>0, <1>3, <2>1, <2>3 DEF Calls
  <2> QED BY <2>2, <2>3
<1> HIDE DEF fits
<1>5. /\ d \in Calls /\ d.pc = pc /\ d.buf = f.buf /\ d.overflow = f.overflow
      /\ d.filter = c.filter /\ d.from = c.from /\ d.cur = c.cur
      /\ d.installed = c.installed /\ d.inflight = c.inflight
      /\ d.events = c.events /\ d.code = c.code
  <2> HIDE DEF c
  <2>2. /\ d.pc = pc /\ d.buf = f.buf /\ d.overflow = f.overflow
        /\ d.filter = c.filter /\ d.from = c.from /\ d.cur = c.cur
        /\ d.installed = c.installed /\ d.inflight = c.inflight
        /\ d.events = c.events /\ d.code = c.code
    BY <1>4 DEF Calls
  <2>3. d \in Calls
    <3>1. f \in Calls
      BY <1>4
    <3>2. CASE f.pc = "blocked"
      BY <3>1, <3>2 DEF Calls, Registered
    <3>3. CASE f.pc # "blocked"
      BY <3>1, <3>3 DEF Calls
    <3> QED BY <3>2, <3>3
  <2> QED BY <2>2, <2>3
<1>6. /\ ap.pc = "deliver" /\ w \notin ap.todo /\ ap.events = ev
  BY <1>0, <1>1 DEF IsApplier
<1> HIDE DEF d, c, ap, ev
<1>7. c.pc \in Registered \cup Unlocked \cup {"anchor"}
  BY <1>0, <1>1 DEF CallInv, ControlOf
<1>8. IsCall(d)
  <2>1. Len(d.buf) <= MaxWatchEvents
    <3>1. fits => Len(c.buf \o more) = Len(c.buf) + Len(more)
      BY <1>0, <1>2
    <3>2. CASE fits
      BY <1>4, <1>5, <3>1, <3>2 DEF fits
    <3>3. CASE ~fits
      BY <1>4, <1>5, <3>3, WatchAssumption
    <3> QED BY <3>2, <3>3
  <2> QED BY <1>0, <1>5, <2>1 DEF IsCall
<1>9. ControlOf(w, d, log, ap, waiters)
  <2>0. ControlOf(w, c, log, applier, waiters)
    BY <1>0 DEF CallInv
  <2>1. /\ w \in waiters <=> d.pc \in Registered
        /\ d.pc \in {"register"} \cup Registered => d.from <= Len(log)
        /\ d.pc \in {"current", "replay"} => d.from > 0
        /\ d.pc = "replay" => d.cur <= Len(log)
        /\ d.events # <<>> => d.pc \in {"idle", "unregister"}
        /\ d.pc \notin {"idle", "catchup", "register"}
    BY <1>5, <1>7, <2>0 DEF ControlOf, Registered, Unlocked
  <2>2. d.pc = "take" /\ d.overflow => d.buf = <<>>
    BY <1>1, <1>4, <1>5, <2>0 DEF ControlOf
  <2> QED BY <1>6, <2>1, <2>2 DEF ControlOf
<1>10. RepeatsOf(w, d, ap, waiters)
  <2>0. RepeatsOf(w, c, applier, waiters) /\ Owed(w, applier, waiters)
    BY <1>0, <1>1 DEF CallInv, Owed
  <2>1. ASSUME NEW i \in 1..Len(d.buf) PROVE NewOrInFlight(c, d.buf[i])
    <3>1. CASE fits
      <4>1. d.buf = c.buf \o more
        BY <1>4, <1>5, <3>1
      <4>2. \/ \E j \in 1..Len(c.buf) : d.buf[i] = c.buf[j]
            \/ \E j \in 1..Len(more) : d.buf[i] = more[j]
        <5>1. CASE i <= Len(c.buf)
          BY <1>0, <1>2, <4>1, <5>1
        <5>2. CASE ~(i <= Len(c.buf))
          <6>1. i - Len(c.buf) \in 1..Len(more) /\ d.buf[i] = more[i - Len(c.buf)]
            BY <1>0, <1>2, <4>1, <5>2
          <6> QED BY <6>1
        <5> QED BY <5>1, <5>2
      <4>3. \A j \in 1..Len(more) : \E k \in 1..Len(ev) : more[j] = ev[k]
        BY <1>0, TailIsStream DEF more
      <4> QED BY <2>0, <4>2, <4>3 DEF RepeatsOf, ev
    <3>2. CASE ~fits
      BY <1>4, <1>5, <3>2
    <3> QED BY <3>1, <3>2
  <2>2. ~Owed(w, ap, waiters)
    BY <1>6 DEF Owed
  <2> QED BY <1>5, <2>0, <2>1, <2>2 DEF RepeatsOf, NewOrInFlight
<1>11. BufferOf(w, d, log, ap, waiters)
  <2> SUFFICES ASSUME ~d.installed, ~d.overflow
               PROVE  BufferUpTo(d, log, Len(log)) /\ Given(w, log, ap, waiters) = Len(log)
    BY <1>0 DEF BufferOf
  <2>1. fits /\ ~c.installed /\ ~c.overflow
    BY <1>4, <1>5
  <2>2. PICK top \in 0..Len(log) :
          BufferUpTo(c, log, top) /\ top = Given(w, log, applier, waiters)
    BY <1>0, <1>1, <2>1 DEF CallInv, BufferOf
  <2>3. top = Len(log) - Len(ev)
    BY <1>1, <2>2 DEF Given, Owed, ev
  <2>4. d.buf = c.buf \o Matching(ev, c.filter)
    BY <1>4, <1>5, <2>1 DEF more
  <2>5. (d.pc = "replay" => c.pc = "replay") /\ (Caught(d) => Caught(c))
    BY <1>5 DEF Caught, Unlocked
  <2>6. BufferUpTo(d, log, Len(log))
    BY <1>0, <1>5, <2>2, <2>3, <2>4, <2>5, FilledBuffer
  <2>7. Given(w, log, ap, waiters) = Len(log)
    BY <1>6 DEF Given, Owed
  <2> QED BY <2>6, <2>7
<1>12. AnswerOf(d, log)
  <2>1. d.pc # "idle"
    BY <1>5, <1>7 DEF Registered, Unlocked
  <2>2. d.events # <<>> => Low(d) = Low(c)
    BY <1>5 DEF Low
  <2> QED BY <1>0, <1>5, <2>1, <2>2 DEF CallInv, AnswerOf
<1>13. CallInv(w, d, log, ap, waiters)
  BY <1>9, <1>10, <1>11, <1>12 DEF CallInv
<1> QED BY <1>1, <1>8, <1>13, CallMoves DEF HubInv, ap

\* The copy of the list: what was owed to a waiter is owed to it still.
LEMMA BroadcastSnapshotStep ==
  ASSUME HubInv, BroadcastSnapshot
  PROVE  HubInv'
<1> DEFINE ap == [applier EXCEPT !.pc = "deliver", !.todo = waiters]
<1>1. /\ applier.pc = "broadcast" /\ applier' = ap
      /\ UNCHANGED <<store, log, waiters, watch>>
  BY DEF BroadcastSnapshot
<1>2. IsApplier(applier, log) /\ waiters \subseteq Watchers /\ applier.todo = {}
  BY <1>1 DEF HubInv, HubState, IsApplier
<1>3. ap.pc = "deliver" /\ ap.events = applier.events /\ ap.todo = waiters
  BY <1>2 DEF IsApplier
<1>4. IsApplier(ap, log)
  BY <1>2, <1>3 DEF IsApplier
<1> HIDE DEF ap
<1>5. ASSUME NEW w \in Watchers PROVE CallInv(w, watch[w], log, ap, waiters)
  <2> DEFINE c == watch[w]
  <2>0. CallInv(w, c, log, applier, waiters)
    BY CallFacts
  <2> HIDE DEF c
  <2>1. Owed(w, ap, waiters) <=> Owed(w, applier, waiters)
    BY <1>1, <1>2, <1>3 DEF Owed
  <2>2. Given(w, log, ap, waiters) = Given(w, log, applier, waiters)
    BY <1>3, <2>1 DEF Given
  <2>3. ControlOf(w, c, log, ap, waiters)
    BY <1>3, <2>0 DEF CallInv, ControlOf, Registered
  <2>4. RepeatsOf(w, c, ap, waiters)
    BY <1>3, <2>0, <2>1 DEF CallInv, RepeatsOf
  <2>5. BufferOf(w, c, log, ap, waiters)
    BY <1>2, <1>3, <2>0, <2>2 DEF CallInv, BufferOf
  <2> QED BY <2>0, <2>3, <2>4, <2>5 DEF CallInv, c
<1> QED BY <1>1, <1>4, <1>5 DEF HubInv, HubState

\* The end of a broadcast: nothing is owed to anyone.
LEMMA EndBroadcastStep ==
  ASSUME HubInv, EndBroadcast
  PROVE  HubInv'
<1> DEFINE ap == IdleApplier
<1>1. /\ applier.pc = "deliver" /\ applier.todo = {} /\ applier' = ap
      /\ UNCHANGED <<store, log, waiters, watch>>
  BY DEF EndBroadcast
<1>2. ap.pc = "idle" /\ ap.events = <<>> /\ ap.todo = {}
  BY DEF IdleApplier
<1>3. IsApplier(ap, log)
  <2>1. log \in Seq(KVs)
    BY DEF HubInv, HubState
  <2>2. <<>> \in Seq(Events) /\ Len(<<>>) = 0 /\ Len(log) \in Nat
    BY <2>1
  <2>3. IsTail(<<>>, log)
    BY <2>2 DEF IsTail
  <2> QED BY <2>2, <2>3 DEF IsApplier, IdleApplier
<1> HIDE DEF ap
<1>4. ASSUME NEW w \in Watchers PROVE CallInv(w, watch[w], log, ap, waiters)
  <2> DEFINE c == watch[w]
  <2>0. CallInv(w, c, log, applier, waiters)
    BY CallFacts
  <2> HIDE DEF c
  <2>1. ~Owed(w, ap, waiters) /\ ~Owed(w, applier, waiters)
    BY <1>1, <1>2 DEF Owed
  <2>2. Given(w, log, ap, waiters) = Given(w, log, applier, waiters)
    BY <2>1 DEF Given
  <2>3. ControlOf(w, c, log, ap, waiters)
    BY <1>1, <1>2, <2>0 DEF CallInv, ControlOf
  <2>4. RepeatsOf(w, c, ap, waiters)
    BY <2>0, <2>1 DEF CallInv, RepeatsOf
  <2>5. BufferOf(w, c, log, ap, waiters)
    BY <1>1, <1>2, <2>0, <2>2 DEF CallInv, BufferOf
  <2> QED BY <2>0, <2>3, <2>4, <2>5 DEF CallInv, c
<1> QED BY <1>1, <1>3, <1>4 DEF HubInv, HubState

\* Compaction leaves an image of the same log.
LEMMA CompactStep ==
  ASSUME HubInv, Compact
  PROVE  HubInv'
<1>1. /\ store' = CompactionWrite(store, Excess(store.hist, KeepVersions))
      /\ UNCHANGED <<log, applier, waiters, watch>>
  BY DEF Compact
<1>2. log \in Seq(KVs) /\ Image(store, log)
  BY DEF HubInv, HubState
<1>3. store.hist \subseteq RecordsOf(log)
  BY <1>2 DEF Image, DenseIn
<1>4. Image(store', log)
  BY <1>1, <1>2, <1>3, WatchAssumption, CompactionImage
<1> QED BY <1>1, <1>4 DEF HubInv, HubState

\* When the log grows while the applier is idle, a call is owed what was added
\* (ap holds it) or was not registered.
LEMMA LogGrowsUnderCall ==
  ASSUME NEW w, NEW c, IsCall(c), NEW l, IsLog(l), NEW m, IsLog(m), Len(l) <= Len(m),
         \A r \in 1..Len(l) : m[r] = l[r], NEW reg,
         NEW old, old.pc = "idle", old.todo = {}, CallInv(w, c, l, old, reg),
         NEW ap, ap.todo = {}, IsTail(ap.events, m),
         w \in reg => ap.pc = "broadcast" /\ Len(ap.events) = Len(m) - Len(l)
  PROVE  CallInv(w, c, m, ap, reg)
<1>0. /\ Len(l) \in Nat /\ Len(m) \in Nat /\ c.from \in Nat /\ c.cur \in Nat
      /\ Len(ap.events) \in Nat
  BY DEF IsLog, IsCall, Calls, IsTail
<1>1. ControlOf(w, c, m, ap, reg)
  BY <1>0 DEF CallInv, ControlOf
<1>2. RepeatsOf(w, c, ap, reg)
  <2>1. ASSUME Owed(w, ap, reg), NEW i \in 1..Len(ap.events)
        PROVE  NewOrInFlight(c, ap.events[i])
    <3>1. w \in reg /\ Len(ap.events) = Len(m) - Len(l)
      BY <2>1 DEF Owed
    <3>2. Len(l) + i \in 1..Len(m) /\ Len(m) - Len(ap.events) + i = Len(l) + i
      BY <1>0, <3>1
    <3>3. ap.events[i] = MakeEvent(m[Len(l) + i])
      BY <3>2 DEF IsTail
    <3>4. m[Len(l) + i] \in KVs /\ m[Len(l) + i].revision = Len(l) + i
      BY <3>2 DEF IsLog
    <3>5. ap.events[i].revision = Len(l) + i
      BY <3>3, <3>4, EventOfRecord
    <3>6. c.from <= Len(l)
      BY <3>1 DEF CallInv, ControlOf
    <3> QED BY <1>0, <3>5, <3>6 DEF NewOrInFlight
  <2> QED BY <2>1 DEF CallInv, RepeatsOf
<1>3. BufferOf(w, c, m, ap, reg)
  <2> SUFFICES ASSUME ~c.installed, ~c.overflow
               PROVE  \E top \in 0..Len(m) :
                        /\ BufferUpTo(c, m, top)
                        /\ w \in reg \cup ap.todo => top = Given(w, m, ap, reg)
    BY DEF BufferOf
  <2>1. PICK top \in 0..Len(l) :
          /\ BufferUpTo(c, l, top)
          /\ w \in reg \cup old.todo => top = Given(w, l, old, reg)
    BY DEF CallInv, BufferOf
  <2>2. BufferUpTo(c, m, top) /\ top \in 0..Len(m)
    <3>1. BufferUpTo(c, m, top)
      BY <1>0, <2>1, CallGrows
    <3> QED BY <1>0, <3>1
  <2>3. w \in reg => top = Len(l)
    BY <2>1 DEF Given, Owed
  <2>4. w \in reg => Given(w, m, ap, reg) = Len(l)
    BY <1>0 DEF Given, Owed
  <2> QED BY <2>2, <2>3, <2>4
<1>4. AnswerOf(c, m)
  BY <1>0, CallGrows DEF CallInv
<1> QED BY <1>1, <1>2, <1>3, <1>4 DEF CallInv

\* A command is applied: its events are at the end of the log.
LEMMA ApplyStep ==
  ASSUME HubInv, NEW cmd \in Cmds, NEW ok \in BOOLEAN, Apply(cmd, ok)
  PROVE  HubInv'
<1> DEFINE b   == Prepare(store, cmd)
           kvs == b.kvs
           res == ApplyCmdToStore(store, cmd, ok)
           m   == log \o kvs
<1>0. /\ log \in Seq(KVs) /\ Image(store, log) /\ IsStore(store)
      /\ IsLog(log) /\ store.revision = Len(log) /\ Len(log) \in Nat
      /\ IsApplier(applier, log) /\ cmd \in Commands
  BY WatchAssumption, LogOfImage DEF HubInv, HubState, Image
<1>1. /\ applier.pc = "idle" /\ store' = res.store
      /\ log' = (IF res.events = <<>> THEN log ELSE m)
      /\ applier' = (IF res.events = <<>> THEN IdleApplier
                     ELSE [pc |-> "broadcast", events |-> res.events, todo |-> {}])
      /\ UNCHANGED <<waiters, watch>>
  BY DEF Apply
<1>2. NextRevisions(store, b) /\ b \in Batches /\ kvs \in Seq(KVs)
  <2>1. NextRevisions(store, b)
    BY <1>0, PrepareType
  <2> HIDE DEF b
  <2> QED BY <2>1 DEF NextRevisions, Batches
<1>3. applier.events = <<>> /\ applier.todo = {} /\ applier = IdleApplier
  BY <1>0, <1>1 DEF IsApplier, IdleApplier
<1>4. \/ res.store = store /\ res.events = <<>>
      \/ /\ res.store = WriteBatch(store, b)
         /\ res.events = [i \in DOMAIN kvs |-> MakeEvent(kvs[i])]
  BY DEF ApplyCmdToStore
<1> HIDE DEF b, res
<1>5. DOMAIN kvs = 1..Len(kvs) /\ Len(kvs) \in Nat
  BY <1>2
<1>6. CASE res.events = <<>>
  <2>1. res.store = store
    <3>1. CASE /\ res.store = WriteBatch(store, b)
               /\ res.events = [i \in DOMAIN kvs |-> MakeEvent(kvs[i])]
      <4>1. kvs = <<>>
        <5>1. DOMAIN kvs = {}
          BY <1>5, <1>6, <3>1
        <5>2. Len(kvs) = 0
          <6>1. Len(kvs) # 0 => 1 \in 1..Len(kvs)
            BY <1>5
          <6> QED BY <1>5, <5>1, <6>1
        <5> QED BY <1>2, <5>2
      <4> QED BY <1>0, <1>2, <3>1, <4>1, EmptyBatch
    <3> QED BY <1>4, <3>1
  <2>2. UNCHANGED <<store, log, applier, waiters, watch>>
    BY <1>1, <1>3, <1>6, <2>1
  <2> QED BY <2>2 DEF HubInv
<1>7. CASE res.events # <<>>
  <2> DEFINE ev == [i \in DOMAIN kvs |-> MakeEvent(kvs[i])]
             ap == [pc |-> "broadcast", events |-> ev, todo |-> {}]
  <2>1. /\ store' = WriteBatch(store, b) /\ log' = m /\ applier' = ap
    BY <1>1, <1>4, <1>7
  <2>2. /\ m \in Seq(KVs) /\ Len(m) = Len(log) + Len(kvs)
        /\ \A i \in 1..Len(log) : m[i] = log[i]
        /\ \A i \in 1..Len(kvs) : m[Len(log) + i] = kvs[i]
    BY <1>0, <1>2
  <2> HIDE DEF m
  <2>3. Image(store', m)
    BY <1>0, <1>2, <2>1, WriteBatchImage DEF NextRevisions, m
  <2>4. IsLog(m) /\ Len(m) \in Nat /\ Len(log) <= Len(m)
    BY <1>0, <1>5, <2>2, <2>3, LogOfImage
  <2>5. ev \in Seq(Events) /\ Len(ev) = Len(kvs)
    <3>1. \A i \in 1..Len(kvs) : MakeEvent(kvs[i]) \in Events
      BY <1>2, EventOfRecord
    <3> QED BY <1>5, <3>1
  <2>6. IsTail(ev, m)
    <3>1. ASSUME NEW i \in 1..Len(ev)
          PROVE  ev[i] = MakeEvent(m[Len(m) - Len(ev) + i])
      <4>1. Len(m) - Len(ev) + i = Len(log) + i
        BY <1>0, <1>5, <2>2, <2>5
      <4>2. m[Len(log) + i] = kvs[i] /\ ev[i] = MakeEvent(kvs[i])
        BY <1>5, <2>2, <2>5
      <4> QED BY <4>1, <4>2
    <3> HIDE DEF ev
    <3>2. Len(ev) <= Len(m)
      BY <1>0, <1>5, <2>2, <2>5
    <3> QED BY <2>5, <3>1, <3>2 DEF IsTail
  <2>7. /\ ap.pc = "broadcast" /\ ap.events = ev /\ ap.todo = {}
        /\ ap \in [pc: {"idle", "broadcast", "deliver"}, events: Seq(Events),
                   todo: SUBSET Watchers]
    <3> HIDE DEF ev
    <3> QED BY <2>5
  <2> HIDE DEF ap, ev
  <2>8. IsApplier(ap, m)
    BY <2>6, <2>7 DEF IsApplier
  <2>9. Len(ev) = Len(m) - Len(log)
    BY <1>0, <1>5, <2>2, <2>5
  <2>10. ASSUME NEW w \in Watchers PROVE CallInv(w, watch[w], m, ap, waiters)
    <3>1. IsCall(watch[w]) /\ CallInv(w, watch[w], log, applier, waiters)
      BY CallFacts
    <3> QED BY <1>0, <1>1, <1>3, <2>2, <2>4, <2>6, <2>7, <2>9, <3>1,
               LogGrowsUnderCall
  <2> QED BY <1>1, <2>1, <2>2, <2>3, <2>8, <2>10 DEF HubInv, HubState
<1> QED BY <1>6, <1>7

\* A snapshot is installed: the calls that are registered have missed events.
LEMMA InstallSnapshotStep ==
  ASSUME HubInv, NEW cmd \in Cmds, InstallSnapshot(cmd)
  PROVE  HubInv'
<1> DEFINE b     == Prepare(store, cmd)
           ahead == ApplyCmdToStore(store, cmd, TRUE).store
           data  == ExportSnapshot(ahead)
           m     == log \o b.kvs
<1>0. /\ log \in Seq(KVs) /\ Image(store, log) /\ IsStore(store)
      /\ IsLog(log) /\ Len(log) \in Nat
      /\ IsApplier(applier, log) /\ cmd \in Commands
  BY WatchAssumption, LogOfImage DEF HubInv, HubState, Image
<1>1. /\ applier.pc = "idle" /\ store' = LoadSnapshot(data) /\ log' = m
      /\ watch' = [w \in Watchers |->
                     IF w \in waiters THEN [watch[w] EXCEPT !.installed = TRUE]
                     ELSE watch[w]]
      /\ UNCHANGED <<applier, waiters>>
  BY DEF InstallSnapshot
<1>2. NextRevisions(store, b) /\ b \in Batches /\ b.kvs \in Seq(KVs)
  <2>1. NextRevisions(store, b)
    BY <1>0, PrepareType
  <2> HIDE DEF b
  <2>2. b \in Batches
    BY <2>1 DEF NextRevisions
  <2> QED BY <2>1, <2>2 DEF Batches
<1>3. ahead = WriteBatch(store, b)
  BY DEF ApplyCmdToStore
<1> HIDE DEF b, ahead
<1>4. Image(ahead, m)
  BY <1>0, <1>2, <1>3, WriteBatchImage DEF NextRevisions
<1>5. /\ m \in Seq(KVs) /\ Len(m) >= Len(log)
      /\ \A i \in 1..Len(log) : m[i] = log[i]
  BY <1>0, <1>2, LogGrowth
<1> HIDE DEF m
<1>6. IsLog(m) /\ Len(m) \in Nat
  BY <1>4, <1>5, LogOfImage
<1>7. data \in Snapshots /\ SnapshotOf(data, m)
  BY <1>4, <1>5, ExportOfImage
<1> HIDE DEF data
<1>8. Image(store', m)
  BY <1>1, <1>5, <1>6, <1>7, LoadSnapshotImage DEF IsLog
<1>9. /\ applier.events = <<>> /\ applier.todo = {} /\ Len(applier.events) = 0
      /\ IsTail(applier.events, m) /\ IsApplier(applier, m)
  <2>1. applier.events = <<>> /\ applier.todo = {} /\ applier.events \in Seq(Events)
    BY <1>0, <1>1 DEF IsApplier
  <2>2. IsTail(applier.events, m)
    BY <1>6, <2>1 DEF IsTail
  <2> QED BY <1>0, <1>1, <2>1, <2>2 DEF IsApplier
<1>10. ASSUME NEW w \in Watchers
       PROVE  IsCall(watch'[w]) /\ CallInv(w, watch'[w], m, applier, waiters)
  <2> DEFINE c == watch[w]
             d == [c EXCEPT !.installed = TRUE]
  <2>0. /\ c \in Calls /\ IsCall(c) /\ CallInv(w, c, log, applier, waiters)
    BY CallFacts
  <2>1. CASE w \in waiters
    <3>1. watch'[w] = d
      BY <1>1, <2>1
    <3>2. /\ d \in Calls /\ d.installed /\ d.pc = c.pc /\ d.buf = c.buf
          /\ d.from = c.from /\ d.cur = c.cur /\ d.overflow = c.overflow
          /\ d.inflight = c.inflight /\ d.events = c.events
      BY <2>0 DEF Calls
    <3> HIDE DEF d, c
    <3>3. IsCall(d)
      BY <2>0, <3>2 DEF IsCall
    <3>4. ControlOf(w, d, m, applier, waiters)
      <4>1. c.from \in Nat /\ c.cur \in Nat
        BY <2>0 DEF Calls
      <4> QED BY <1>0, <1>5, <1>6, <2>0, <3>2, <4>1 DEF CallInv, ControlOf
    <3>5. RepeatsOf(w, d, applier, waiters)
      BY <2>0, <3>2 DEF CallInv, RepeatsOf, NewOrInFlight
    <3>6. BufferOf(w, d, m, applier, waiters) /\ AnswerOf(d, m)
      BY <3>2 DEF BufferOf, AnswerOf
    <3> QED BY <3>1, <3>3, <3>4, <3>5, <3>6 DEF CallInv
  <2>2. CASE w \notin waiters
    <3>1. watch'[w] = c
      BY <1>1, <2>2
    <3> HIDE DEF c
    <3>2. CallInv(w, c, m, applier, waiters)
      BY <1>0, <1>1, <1>5, <1>6, <1>9, <2>0, <2>2, LogGrowsUnderCall
    <3> QED BY <2>0, <3>1, <3>2
  <2> QED BY <2>1, <2>2
<1>11. watch' \in [Watchers -> Calls]
  <2>1. \A w \in Watchers : watch'[w] \in Calls
    BY <1>10 DEF IsCall
  <2> QED BY <1>1, <2>1
<1> QED BY <1>1, <1>5, <1>8, <1>9, <1>10, <1>11 DEF HubInv, HubState

(***************************************************************************)
(* The theorems.                                                           *)
(***************************************************************************)

\* No call is running, nothing is written.
LEMMA InitHubInv == Init => HubInv
<1> SUFFICES ASSUME Init PROVE HubInv
  OBVIOUS
<1> DEFINE c == NewCall("idle", 0, {})
<1>1. /\ store = EmptyStore /\ log = <<>> /\ applier = IdleApplier /\ waiters = {}
      /\ watch = [w \in Watchers |-> c]
  BY DEF Init
<1>2. log \in Seq(KVs) /\ Image(store, log)
  BY <1>1, EmptyImage
<1>3. IsLog(log) /\ Len(log) = 0
  BY <1>1, <1>2, LogOfImage
<1>4. applier.pc = "idle" /\ applier.events = <<>> /\ applier.todo = {}
  BY <1>1 DEF IdleApplier
<1>5. IsApplier(applier, log)
  <2>1. <<>> \in Seq(Events) /\ Len(<<>>) = 0
    OBVIOUS
  <2>2. IsTail(<<>>, log)
    BY <1>3, <2>1 DEF IsTail
  <2> QED BY <1>1, <1>4, <2>1, <2>2 DEF IsApplier, IdleApplier
<1>6. /\ c \in Calls /\ c.buf = <<>> /\ c.events = <<>> /\ ~c.overflow /\ c.pc = "idle"
  <2>1. c \in Calls
    BY NewCallType
  <2> QED BY <2>1 DEF NewCall
<1> HIDE DEF c
<1>7. IsCall(c)
  BY <1>6, WatchAssumption DEF IsCall
<1>8. \A w \in Watchers : CallInv(w, c, log, applier, waiters)
  BY <1>1, <1>3, <1>4, <1>5, <1>6, FreshCall
<1> QED BY <1>1, <1>2, <1>5, <1>6, <1>7, <1>8 DEF HubInv, HubState

\* Every step of every thread keeps the invariant.
LEMMA NextHubInv == HubInv /\ [Next]_vars => HubInv'
<1> SUFFICES ASSUME HubInv, [Next]_vars PROVE HubInv'
  OBVIOUS
<1>1. ASSUME NEW cmd \in Cmds, NEW ok \in BOOLEAN, Apply(cmd, ok) PROVE HubInv'
  BY <1>1, ApplyStep
<1>2. CASE BroadcastStep
  BY <1>2, BroadcastSnapshotStep, DeliverStep, EndBroadcastStep DEF BroadcastStep
<1>3. CASE Compact
  BY <1>3, CompactStep
<1>4. ASSUME NEW cmd \in Cmds, InstallSnapshot(cmd) PROVE HubInv'
  BY <1>4, InstallSnapshotStep
<1>5. ASSUME NEW w \in Watchers, NEW from \in Froms, NEW f \in Filters,
             WatchBegin(w, from, f)
      PROVE  HubInv'
  BY <1>5, WatchBeginStep
<1>6. ASSUME NEW w \in Watchers, WatcherStep(w) PROVE HubInv'
  <2>1. CASE CatchUp(w) \/ CatchUpTimeout(w)
    BY <2>1, CatchUpSteps
  <2>2. CASE Register(w)
    BY <2>2, RegisterStep
  <2>3. CASE ReadCurrent(w)
    BY <2>3, ReadCurrentStep
  <2>4. CASE Replay(w)
    BY <2>4, ReplayStep
  <2>5. CASE WaitCheck(w)
    BY <2>5, WaitSteps
  <2>6. CASE Unregister(w)
    BY <2>6, UnregisterStep
  <2>7. CASE ReadOverflow(w)
    BY <2>7, ReadOverflowStep
  <2>8. CASE \E n \in 0..Len(watch[w].buf) : TakeEvents(w, n)
    BY <2>8, TakeEventsStep
  <2>9. CASE Anchor(w)
    BY <2>9, AnchorStep
  <2> QED BY <1>6, <2>1, <2>2, <2>3, <2>4, <2>5, <2>6, <2>7, <2>8, <2>9
          DEF WatcherStep
<1>7. ASSUME NEW w \in Watchers, CatchUpCanceled(w) PROVE HubInv'
  BY <1>7, CatchUpSteps
<1>8. ASSUME NEW w \in Watchers, WaitCanceled(w) \/ Timeout(w) \/ SpuriousWake(w)
      PROVE  HubInv'
  BY <1>8, WaitSteps
<1>9. CASE UNCHANGED vars
  BY <1>9 DEF vars, HubInv
<1> QED BY <1>1, <1>2, <1>3, <1>4, <1>5, <1>6, <1>7, <1>8, <1>9 DEF Next

\* The invariant holds in every reachable state.
LEMMA HubInvariance == Spec => []HubInv
BY InitHubInv, NextHubInv, PTL DEF Spec

\* Every variable has its type, and a waiter's buffer never exceeds
\* max_events_per_waiter_, whatever that is (WatchHub::Broadcast).
THEOREM HubTypeCorrect == Spec => []TypeOK
<1>1. HubInv => TypeOK
  <2> SUFFICES ASSUME HubInv PROVE TypeOK
    OBVIOUS
  <2>1. /\ IsStore(store) /\ log \in Seq(KVs) /\ waiters \subseteq Watchers
        /\ applier \in [pc: {"idle", "broadcast", "deliver"}, events: Seq(Events),
                        todo: SUBSET Watchers]
        /\ DOMAIN watch = Watchers
    BY DEF HubInv, HubState, Image, IsApplier
  <2>2. ASSUME NEW w \in Watchers
        PROVE  /\ watch[w].pc \in {"idle", "catchup", "register", "current", "replay",
                                   "wait", "blocked", "unregister", "anchor"} \cup Unlocked
               /\ watch[w].from \in Nat /\ watch[w].cur \in Nat
               /\ watch[w].current \in Nat
               /\ watch[w].buf \in Seq(Events) /\ Len(watch[w].buf) <= MaxWatchEvents
               /\ watch[w].events \in Seq(Events)
               /\ Len(watch[w].events) <= MaxWatchEvents
    <3>1. watch[w] \in Calls /\ IsCall(watch[w])
      BY CallFacts
    <3>2. watch[w].pc \in {"idle", "catchup", "register", "current", "replay", "wait",
                           "blocked", "unregister", "anchor"} \cup Unlocked
      BY <3>1 DEF Calls, Registered
    <3> QED BY <3>1, <3>2 DEF Calls, IsCall
  <2> QED BY <2>1, <2>2 DEF TypeOK
<1> QED BY <1>1, HubInvariance, PTL

\* Every way out of WatchHub::Watch removes the waiter from the hub's list.
THEOREM WaitersAreFreed == Spec => []NoLeakedWaiter
<1>1. HubInv => NoLeakedWaiter
  <2> SUFFICES ASSUME HubInv, NEW w \in Watchers, ~Active(w) PROVE w \notin waiters
    BY DEF NoLeakedWaiter
  <2> QED BY NotListed DEF Active
<1> QED BY <1>1, HubInvariance, PTL

\* Registering before the replay repeats no event but those in flight.
THEOREM RepeatsAreInFlight == Spec => []OnlyInFlightRepeated
<1>1. HubInv => OnlyInFlightRepeated
  <2> SUFFICES ASSUME HubInv, NEW w \in Watchers,
                      NEW e \in RecordsOf(watch[w].buf \o watch[w].events)
               PROVE  e.revision > watch[w].from \/ e.revision \in watch[w].inflight
    BY DEF OnlyInFlightRepeated
  <2> DEFINE p == watch[w].buf
             q == watch[w].events
  <2>1. p \in Seq(Events) /\ q \in Seq(Events)
    BY CallFacts DEF Calls
  <2>2. RepeatsOf(w, watch[w], applier, waiters)
    BY CallFacts DEF CallInv
  <2>3. \A i \in 1..Len(p) : NewOrInFlight(watch[w], p[i])
    BY <2>2 DEF RepeatsOf
  <2>4. \A i \in 1..Len(q) : NewOrInFlight(watch[w], q[i])
    BY <2>2 DEF RepeatsOf
  <2>5. PICK i \in DOMAIN (p \o q) : e = (p \o q)[i]
    BY DEF RecordsOf
  <2> HIDE DEF p, q
  <2>6. CASE i <= Len(p)
    <3>1. i \in 1..Len(p) /\ e = p[i]
      BY <2>1, <2>5, <2>6
    <3> QED BY <2>3, <3>1 DEF NewOrInFlight
  <2>7. CASE ~(i <= Len(p))
    <3>1. i - Len(p) \in 1..Len(q) /\ e = q[i - Len(p)]
      BY <2>1, <2>5, <2>7
    <3> QED BY <2>4, <3>1 DEF NewOrInFlight
  <2> QED BY <2>6, <2>7
<1> QED BY <1>1, HubInvariance, PTL

\* An answer with events is the exact stream up to its anchor: nothing is
\* lost, repeated or out of order between the replay and the buffer.
THEOREM AnswersAreExact == Spec => []ResponseExact
<1>1. HubInv => ResponseExact
  <2> SUFFICES ASSUME HubInv, NEW w \in Watchers, ~Active(w),
                      watch[w].events # <<>>, ~watch[w].installed
               PROVE  watch[w].events
                        = FirstEvents(Wanted(w, Low(watch[w]), watch[w].current),
                                      Len(log))
    BY DEF ResponseExact, Low
  <2> DEFINE c == watch[w]
             q == c.events
             n == Len(c.events)
  <2>1. /\ IsLog(log) /\ c.pc = "idle" /\ AnswerOf(c, log) /\ c.from \in Nat
        /\ q \in Seq(Events)
    BY CallFacts DEF CallInv, Active, Calls
  <2>2. /\ IsStream(q, log, c.filter) /\ c.current = q[n].revision
        /\ Covers(q, log, Low(c), c.current, c.filter)
    BY <2>1 DEF AnswerOf
  <2>3. n \in Nat /\ 1 \in 1..n /\ n \in 1..n
    BY <2>1
  <2>4. Low(c) = IF c.from > 0 /\ q[1].revision > c.from THEN c.from
                 ELSE q[1].revision - 1
    BY DEF Low
  <2>0. n = Len(q)
    OBVIOUS
  <2> HIDE DEF c, q, n
  <2>5. \A i \in 1..Len(q) : q[i].revision \in Nat
    BY <2>2 DEF IsStream
  <2>6. ASSUME NEW i \in 1..Len(q)
        PROVE  q[1].revision <= q[i].revision /\ q[i].revision <= q[n].revision
    <3>1. Sorted(q)
      BY <2>2 DEF IsStream
    <3> QED BY <2>0, <2>3, <2>5, <3>1 DEF Sorted
  <2>7. Low(c) \in Int /\ Low(c) < q[1].revision
    <3>1. q[1].revision \in Nat
      BY <2>0, <2>3, <2>5
    <3> QED BY <2>1, <2>4, <3>1
  <2>8. \A i \in 1..Len(q) : Low(c) < q[i].revision /\ q[i].revision <= c.current
    BY <2>0, <2>2, <2>3, <2>5, <2>6, <2>7
  <2>9. q = FirstEvents(InRange(RecordsOf(log), Low(c), c.current, c.filter), Len(log))
    BY <2>1, <2>2, <2>8, StreamIsExact
  <2> QED BY <2>9 DEF Wanted, c, q
<1> QED BY <1>1, HubInvariance, PTL
=============================================================================
