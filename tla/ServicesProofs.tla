---------------------------- MODULE ServicesProofs ----------------------------
(***************************************************************************)
(* Proofs about Services, for any clients, requests and number of retries. *)
(***************************************************************************)
EXTENDS Services, StoreProofs

-----------------------------------------------------------------------------
(* Routing *)

\* What the node is asked for.
IsNodeCall(n) ==
  \/ n.op = "Answer" /\ n.code \in {"OK", "INVALID_ARGUMENT", "INTERNAL"}
  \/ n.op = "Get"
  \/ n.op = "GetConfig" /\ n.version \in Int
  \/ n \in Commands

\* A request with a body or without one has the fields of its message.
LEMMA BodyType ==
  ASSUME NEW r, IsRequest(r)
  PROVE  Body(r) \in Bodies
<1>1. EmptyBody \in Bodies
  BY ValuesAssumption DEF EmptyBody, Bodies
<1> QED BY <1>1 DEF Body, IsRequest

\* A write of one key is refused without a key, and is a command with one.
LEMMA WithKeyType ==
  ASSUME NEW key \in Keys \cup EmptyKeys, NEW cmd, key \in Keys => cmd \in Commands
  PROVE  IsNodeCall(WithKey(key, cmd))
<1>1. IsNodeCall(Immediate("INVALID_ARGUMENT"))
  BY DEF Immediate, IsNodeCall
<1>2. CASE key \in EmptyKeys
  BY <1>1, <1>2 DEF WithKey, IsValidKey
<1>3. CASE key \notin EmptyKeys
  BY <1>3 DEF WithKey, IsValidKey, IsNodeCall
<1> QED BY <1>2, <1>3

\* The writes of one key.
LEMMA KeyCalls ==
  ASSUME NEW key \in Keys \cup EmptyKeys, NEW v \in Values, NEW e \in Values, NEW t \in Int
  PROVE  /\ IsNodeCall(DoPut(key, v)) /\ DoPut(key, v).op # "BatchPut"
         /\ IsNodeCall(DoDelete(key)) /\ DoDelete(key).op # "BatchPut"
         /\ IsNodeCall(DoCAS(key, e, v)) /\ DoCAS(key, e, v).op # "BatchPut"
         /\ IsNodeCall(DoPublish(key, v)) /\ DoPublish(key, v).op # "BatchPut"
         /\ IsNodeCall(DoRollback(key, t)) /\ DoRollback(key, t).op # "BatchPut"
<1>1. /\ key \in Keys => [op |-> "Put", key |-> key, value |-> v] \in Commands
      /\ key \in Keys => [op |-> "Publish", key |-> key, value |-> v] \in Commands
  BY DEF Commands
<1>2. key \in Keys => [op |-> "Delete", key |-> key] \in Commands
  BY DEF Commands
<1>3. key \in Keys => [op |-> "Cas", key |-> key, expect |-> e, value |-> v] \in Commands
  BY DEF Commands
<1>4. key \in Keys => [op |-> "Rollback", key |-> key, target |-> t] \in Commands
  BY DEF Commands
<1>5. /\ IsNodeCall(DoPut(key, v)) /\ IsNodeCall(DoPublish(key, v))
  BY <1>1, WithKeyType DEF DoPut, DoPublish
<1>6. IsNodeCall(DoDelete(key)) /\ IsNodeCall(DoCAS(key, e, v)) /\ IsNodeCall(DoRollback(key, t))
  BY <1>2, <1>3, <1>4, WithKeyType DEF DoDelete, DoCAS, DoRollback
<1>7. /\ DoPut(key, v).op # "BatchPut" /\ DoDelete(key).op # "BatchPut"
      /\ DoCAS(key, e, v).op # "BatchPut" /\ DoPublish(key, v).op # "BatchPut"
      /\ DoRollback(key, t).op # "BatchPut"
  BY DEF DoPut, DoDelete, DoCAS, DoPublish, DoRollback, WithKey, Immediate
<1> QED BY <1>5, <1>6, <1>7

\* A batch is refused, or asks for all its entries.
LEMMA BatchCall ==
  ASSUME NEW entries \in Seq([key: Keys \cup EmptyKeys, value: Values])
  PROVE  /\ IsNodeCall(DoBatchPut(entries))
         /\ DoBatchPut(entries).op = "BatchPut" => DoBatchPut(entries).puts = entries
<1>1. CASE \A i \in DOMAIN entries : IsValidKey(entries[i].key)
  <2>1. DoBatchPut(entries) = [op |-> "BatchPut", puts |-> entries]
    BY <1>1 DEF DoBatchPut
  <2>2. \A i \in 1..Len(entries) : entries[i] \in Putting
    <3> SUFFICES ASSUME NEW i \in 1..Len(entries) PROVE entries[i] \in Putting
      OBVIOUS
    <3> DEFINE E == [key: Keys \cup EmptyKeys, value: Values]
    <3>0. entries \in Seq(E)
      OBVIOUS
    <3> HIDE DEF E
    <3>1. entries[i] \in E /\ i \in DOMAIN entries
      BY <3>0
    <3> USE DEF E
    <3>2. entries[i].key \notin EmptyKeys
      BY <1>1, <3>1 DEF IsValidKey
    <3> QED BY <3>1, <3>2 DEF Putting
  <2>3. entries \in Seq(Putting)
    BY <2>2
  <2>4. [op |-> "BatchPut", puts |-> entries] \in Commands
    BY <2>3 DEF Commands
  <2> QED BY <2>1, <2>4 DEF IsNodeCall
<1>2. CASE ~ \A i \in DOMAIN entries : IsValidKey(entries[i].key)
  BY <1>2 DEF DoBatchPut, Immediate, IsNodeCall
<1> QED BY <1>1, <1>2

\* Rest and the methods of the stubs: every request becomes a call of the node,
\* and a batch one of all its entries.
LEMMA RoutedType ==
  ASSUME NEW r, IsRequest(r)
  PROVE  /\ IsNodeCall(Routed(r))
         /\ Routed(r).op = "BatchPut" => Routed(r).puts = Body(r).entries
<1> DEFINE b == Body(r)
           Fine(n) == IsNodeCall(n) /\ (n.op = "BatchPut" => n.puts = b.entries)
<1>1. /\ b.value \in Values /\ b.expect \in Values /\ b.target \in Int
      /\ b.entries \in Seq([key: Keys \cup EmptyKeys, value: Values])
  BY BodyType DEF Bodies
<1> HIDE DEF b
<1>2. ASSUME NEW key \in Keys \cup EmptyKeys
      PROVE  /\ Fine(DoPut(key, b.value)) /\ Fine(DoDelete(key))
             /\ Fine(DoCAS(key, b.expect, b.value))
             /\ Fine(DoPublish(key, b.value)) /\ Fine(DoRollback(key, b.target))
  BY <1>1, KeyCalls
<1>3. Fine(DoBatchPut(b.entries))
  BY <1>1, BatchCall
<1>4. Fine(Immediate("OK")) /\ Fine(Immediate("INTERNAL"))
  BY DEF Immediate, IsNodeCall
<1>5. ASSUME NEW key PROVE Fine(DoGet(key, r.serializable)) /\ Fine(DoGetConfig(key, r.version))
  BY DEF DoGet, DoGetConfig, IsNodeCall, IsRequest
<1>6. /\ r.path \in Keys \cup EmptyKeys /\ r.key \in Keys \cup EmptyKeys
      /\ ResolveKey(r) \in Keys \cup EmptyKeys
      /\ \A word : EndsWith(r.path, word) => Front(r.path) \in Keys \cup EmptyKeys
  BY DEF IsRequest, ResolveKey, EndsWith
<1> HIDE DEF Fine
<1>7. Fine(KVRest(r))
  BY <1>2, <1>3, <1>4, <1>5, <1>6 DEF KVRest, b
<1>8. Fine(ConfigRest(r))
  BY <1>2, <1>3, <1>4, <1>5, <1>6 DEF ConfigRest, b
<1>9. ASSUME r.method \in {"Put", "Get", "Delete", "BatchPut", "CompareAndSwap"} PROVE Fine(KVRpc(r))
  BY <1>2, <1>3, <1>5, <1>6, <1>9 DEF KVRpc, b
<1>10. ASSUME r.method \in {"Publish", "GetConfig", "Rollback"} PROVE Fine(ConfigRpc(r))
  BY <1>2, <1>5, <1>6, <1>10 DEF ConfigRpc, b
<1>11. Fine(Routed(r))
  BY <1>7, <1>8, <1>9, <1>10 DEF Routed, IsRequest
<1> QED BY <1>11 DEF Fine, b

-----------------------------------------------------------------------------
(* The store *)

\* A store that is the image of its records, whose versions were given out in
\* order and whose cfg/ holds what was published and is still in history.
IsPublished(s) ==
  \E l \in Seq(KVs) : \E pub : Image(s, l) /\ VersionsGrow(l) /\ PublishedIn(s, l, pub)

\* An empty store is one.
LEMMA EmptyIsPublished == IsPublished(EmptyStore)
<1>1. Image(EmptyStore, <<>>) /\ <<>> \in Seq(KVs)
  BY EmptyImage
<1>2. VersionsGrow(<<>>)
  BY DEF VersionsGrow
<1>3. PublishedIn(EmptyStore, <<>>, {})
  BY DEF PublishedIn, EmptyStore
<1> QED BY <1>1, <1>2, <1>3 DEF IsPublished

\* Executing a command: the records of cfg/ are never replaced, only added to.
LEMMA CommandPublished ==
  ASSUME NEW s, IsPublished(s), NEW cmd \in Commands, NEW b, b = Prepare(s, cmd)
  PROVE  /\ IsPublished(WriteBatch(s, b))
         /\ b.code \in {"OK", "CAS_FAILED", "VERSION_NOT_FOUND", "INTERNAL"}
         /\ b.kvs \in Seq(KVs)
         /\ s.cfg \subseteq WriteBatch(s, b).cfg
         /\ WriteBatch(s, b).cfg \subseteq s.cfg \cup RecordsOf(b.kvs)
<1>0. PICK l \in Seq(KVs) : \E pub : Image(s, l) /\ VersionsGrow(l) /\ PublishedIn(s, l, pub)
  BY DEF IsPublished
<1>1. PICK pub : Image(s, l) /\ VersionsGrow(l) /\ PublishedIn(s, l, pub)
  BY <1>0
<1>2. IsStore(s)
  BY <1>1 DEF Image
<1>3. NextRevisions(s, b) /\ NextVersions(s, b)
  BY <1>2, PrepareType, PrepareVersions
<1>4. /\ b \in Batches /\ b.kvs \in Seq(KVs)
      /\ b.code \in {"OK", "CAS_FAILED", "VERSION_NOT_FOUND", "INTERNAL"}
      /\ \A i \in 1..Len(b.kvs) : b.kvs[i].revision = s.revision + i
  BY <1>3 DEF NextRevisions, Batches
<1> DEFINE t == WriteBatch(s, b)
           m == l \o b.kvs
           pubN == PublishedAfter(pub, b)
<1>5. Image(t, m)
  BY <1>1, <1>4, WriteBatchImage
<1>6. VersionsGrow(m) /\ PublishedIn(t, m, pubN)
  BY <1>1, <1>3, WriteBatchPublished
<1>7. m \in Seq(KVs) /\ RecordsOf(b.kvs) \subseteq RecordsOf(m)
  <2>1. m \in Seq(KVs) /\ Len(m) = Len(l) + Len(b.kvs)
    BY <1>1, <1>4
  <2>2. ASSUME NEW i \in DOMAIN b.kvs PROVE \E j \in DOMAIN m : m[j] = b.kvs[i]
    <3>1. i \in 1..Len(b.kvs) /\ Len(l) + i \in 1..Len(m) /\ m[Len(l) + i] = b.kvs[i]
      BY <1>1, <1>4, <2>1
    <3>2. DOMAIN m = 1..Len(m)
      BY <2>1
    <3> QED BY <3>1, <3>2
  <2> HIDE DEF m
  <2> QED BY <2>1, <2>2 DEF RecordsOf
<1>8. t.cfg \subseteq s.cfg \cup RecordsOf(b.kvs)
  BY DEF WriteBatch
<1>9. s.cfg \subseteq t.cfg
  <2> SUFFICES ASSUME NEW c \in s.cfg PROVE c \in t.cfg
    OBVIOUS
  <2>1. c \in pubN
    BY <1>1 DEF PublishedIn, PublishedAfter
  <2>2. ASSUME NEW n \in RecordsOf(b.kvs), SameConfigKey(c, n) PROVE c = n
    <3> HIDE DEF pubN, m, t
    <3> QED BY <1>6, <1>7, <2>1, <2>2 DEF PublishedIn
  <2> QED BY <2>2 DEF WriteBatch
<1> HIDE DEF m, pubN
<1>10. IsPublished(t)
  BY <1>5, <1>6, <1>7 DEF IsPublished
<1> QED BY <1>4, <1>8, <1>9, <1>10

\* A refused command writes nothing.
LEMMA RefusedWritesNothing ==
  ASSUME NEW s, NEW cmd, Prepare(s, cmd).code # "OK"
  PROVE  Prepare(s, cmd).kvs = <<>>
BY DEF Prepare, PutLocked, DeleteLocked, BatchPutLocked, CompareAndSwapLocked, PublishLocked,
       RollbackLocked, Refused

\* A batch writes its entries, in their order.
LEMMA BatchWrites ==
  ASSUME NEW s, NEW cmd \in Commands, cmd.op = "BatchPut", NEW kvs, kvs = Prepare(s, cmd).kvs
  PROVE  cmd.puts = [j \in DOMAIN kvs |-> [key |-> kvs[j].key, value |-> kvs[j].value]]
<1>1. cmd.puts \in Seq(Putting)
  BY DEF Commands
<1>2. kvs = [i \in 1..Len(cmd.puts) |->
               NewKV(s, cmd.puts[i].key, cmd.puts[i].value, s.revision + i)]
  BY DEF Prepare, BatchPutLocked
<1> DEFINE p == cmd.puts
<1> HIDE DEF p
<1>3. p \in Seq(Putting) /\ DOMAIN p = 1..Len(p)
  BY <1>1 DEF p
<1>4. DOMAIN kvs = 1..Len(p)
  BY <1>2 DEF p
<1>5. \A i \in 1..Len(p) : kvs[i].key = p[i].key /\ kvs[i].value = p[i].value
  BY <1>2 DEF p, NewKV
<1>6. \A i \in 1..Len(p) : p[i] = [key |-> kvs[i].key, value |-> kvs[i].value]
  <2> SUFFICES ASSUME NEW i \in 1..Len(p)
               PROVE  p[i] = [key |-> kvs[i].key, value |-> kvs[i].value]
    OBVIOUS
  <2>1. p[i] \in Putting
    BY <1>3
  <2>2. p[i] = [key |-> p[i].key, value |-> p[i].value]
    BY <2>1 DEF Putting
  <2> QED BY <1>5, <2>2
<1>7. p = [i \in 1..Len(p) |-> p[i]]
  BY <1>3
<1>8. p = [j \in DOMAIN kvs |-> [key |-> kvs[j].key, value |-> kvs[j].value]]
  BY <1>4, <1>6, <1>7
<1> QED BY <1>8 DEF p

\* Compaction keeps all that, and only takes away from cfg/.
LEMMA CompactionIsPublished ==
  ASSUME NEW s, IsPublished(s), NEW t, t = Compacted(s)
  PROVE  IsPublished(t) /\ t.cfg \subseteq s.cfg
<1>0. PICK l \in Seq(KVs) : \E pub : Image(s, l) /\ VersionsGrow(l) /\ PublishedIn(s, l, pub)
  BY DEF IsPublished
<1>1. PICK pub : Image(s, l) /\ VersionsGrow(l) /\ PublishedIn(s, l, pub)
  BY <1>0
<1>2. s.hist \subseteq RecordsOf(l) /\ KeepVersions \in Int /\ DenseIn(s, l)
  BY <1>1, ServicesAssumption DEF Image, DenseIn
<1>3. Image(t, l)
  BY <1>1, <1>2, CompactionImage DEF Compacted
<1>4. Excess(s.hist, KeepVersions) \subseteq RecordsOf(l)
  BY <1>2 DEF Excess
<1>5. PublishedIn(t, l, pub)
  BY <1>1, <1>2, <1>4, CompactionPublished DEF Compacted
<1>6. t.cfg \subseteq s.cfg
  BY DEF Compacted, CompactionWrite
<1> QED BY <1>1, <1>3, <1>5, <1>6 DEF IsPublished

\* A snapshot brings cfg/ along, and the image of the same records.
LEMMA ReloadIsPublished ==
  ASSUME NEW s, IsPublished(s), NEW t, t = LoadSnapshot(ExportSnapshot(s))
  PROVE  IsPublished(t) /\ t.cfg = s.cfg
<1>0. PICK l \in Seq(KVs) : \E pub : Image(s, l) /\ VersionsGrow(l) /\ PublishedIn(s, l, pub)
  BY DEF IsPublished
<1>1. PICK pub : Image(s, l) /\ VersionsGrow(l) /\ PublishedIn(s, l, pub)
  BY <1>0
<1>2. /\ ExportSnapshot(s) \in Snapshots /\ SnapshotOf(ExportSnapshot(s), l)
      /\ \A i \in 1..Len(l) : l[i].revision = i
  BY <1>1, ExportOfImage DEF Image, DenseIn
<1>3. Image(t, l)
  BY <1>2, LoadSnapshotImage
<1>4. PublishedIn(t, l, pub)
  BY <1>1, ReloadedPublished DEF Image
<1>5. t.cfg = s.cfg
  BY DEF LoadSnapshot, ExportSnapshot
<1> QED BY <1>1, <1>3, <1>4, <1>5 DEF IsPublished

\* cfg/ is a finite set of records, told apart by key and version.
LEMMA ConfigRecords ==
  ASSUME NEW s, IsPublished(s)
  PROVE  /\ IsStore(s) /\ IsFiniteSet(s.cfg)
         /\ \A c \in s.cfg : c \in KVs
         /\ \A c, d \in s.cfg : c.key = d.key /\ c.version = d.version => c = d
<1>0. PICK l \in Seq(KVs) : \E pub : Image(s, l) /\ VersionsGrow(l) /\ PublishedIn(s, l, pub)
  BY DEF IsPublished
<1>1. PICK pub : Image(s, l) /\ VersionsGrow(l) /\ PublishedIn(s, l, pub)
  BY <1>0
<1>2. IsStore(s)
  BY <1>1 DEF Image
<1>3. s.cfg \subseteq RecordsOf(l) /\ s.cfg \subseteq pub /\ pub \subseteq RecordsOf(l)
  BY <1>1 DEF PublishedIn
<1>4. IsFiniteSet(s.cfg)
  BY <1>1, <1>3, RecordsFinite, FS_Subset
<1>5. \A c \in s.cfg : c \in KVs
  BY <1>2 DEF IsStore
<1>6. ASSUME NEW c \in s.cfg, NEW d \in s.cfg, c.key = d.key, c.version = d.version
      PROVE  c = d
  BY <1>1, <1>3, <1>6 DEF PublishedIn, SameConfigKey
<1> QED BY <1>2, <1>4, <1>5, <1>6

\* ConfigResult: a single record as a sequence.
LEMMA SingleAsSeq ==
  /\ \A x : AsSeq({x}) = <<x>>
  /\ AsSeq({}) = <<>>
  /\ \A x \in KVs : AsSeq({x}) \in Seq(KVs)
  /\ AsSeq({}) \in Seq(KVs)
<1>1. ASSUME NEW x PROVE AsSeq({x}) = <<x>>
  <2> DEFINE F == [1..1 -> {x}]
  <2>1. Cardinality({x}) = 1
    BY FS_Singleton
  <2>2. AsSeq({x}) = CHOOSE f \in F : IsInjective(f)
    BY <2>1 DEF AsSeq, SetToSeq
  <2>3. <<x>> \in F /\ IsInjective(<<x>>)
    BY DEF IsInjective
  <2>4. \A f \in F : f = <<x>>
    OBVIOUS
  <2> HIDE DEF F
  <2> QED BY <2>2, <2>3, <2>4
<1>2. AsSeq({}) = <<>>
  <2> DEFINE F == [1..0 -> {}]
  <2>1. Cardinality({}) = 0
    BY FS_EmptySet
  <2>2. AsSeq({}) = CHOOSE f \in F : IsInjective(f)
    BY <2>1 DEF AsSeq, SetToSeq
  <2>3. <<>> \in F /\ IsInjective(<<>>)
    BY DEF IsInjective
  <2>4. \A f \in F : f = <<>>
    OBVIOUS
  <2> HIDE DEF F
  <2> QED BY <2>2, <2>3, <2>4
<1>3. ASSUME NEW x \in KVs PROVE <<x>> \in Seq(KVs)
  OBVIOUS
<1>4. <<>> \in Seq(KVs)
  OBVIOUS
<1> QED BY <1>1, <1>2, <1>3, <1>4

\* GetLocked of any key.
LEMMA GetFinds ==
  ASSUME NEW s, IsStore(s), NEW key, NEW got, got = GetLocked(s, key)
  PROVE  got.code \in {"OK", "KEY_NOT_FOUND"} /\ AsSeq(got.found) \in Seq(KVs)
<1>1. CASE Absent(s, key)
  <2>1. got.code = "KEY_NOT_FOUND" /\ got.found = {}
    BY <1>1 DEF GetLocked
  <2> QED BY <2>1, SingleAsSeq
<1>2. CASE ~Absent(s, key)
  <2>1. got.code = "OK" /\ got.found = {s.main[key]}
    BY <1>2 DEF GetLocked
  <2>2. s.main[key] \in KVs
    BY <1>2 DEF Absent, Existed, IsStore
  <2> QED BY <2>1, <2>2, SingleAsSeq
<1> QED BY <1>1, <1>2

\* GetConfigLocked of any key and version: a version that is found is in cfg/.
LEMMA GetConfigFinds ==
  ASSUME NEW s, IsPublished(s), NEW key, NEW version \in Int,
         NEW got, got = GetConfigLocked(s, key, version)
  PROVE  /\ got.code \in {"OK", "KEY_NOT_FOUND", "VERSION_NOT_FOUND"}
         /\ AsSeq(got.found) \in Seq(KVs)
         /\ \A kv : got.code = "OK" /\ version > 0 /\ kv = AsSeq(got.found)[1]
                    => kv \in s.cfg /\ kv.key = key /\ ~kv.deleted
<1> DEFINE F == {c \in s.cfg : c.key = key /\ c.version = version /\ ~c.deleted}
<1>1. CASE version <= 0
  <2>1. got = GetLocked(s, key) /\ IsStore(s) /\ ~(version > 0)
    BY <1>1, ConfigRecords DEF GetConfigLocked
  <2> QED BY <2>1, GetFinds
<1>2. CASE ~(version <= 0) /\ F = {}
  <2>1. got.code = "VERSION_NOT_FOUND" /\ got.found = {}
    BY <1>2 DEF GetConfigLocked
  <2> QED BY <2>1, SingleAsSeq
<1>3. CASE ~(version <= 0) /\ F # {}
  <2>1. got.code = "OK" /\ got.found = F
    BY <1>3 DEF GetConfigLocked
  <2>2. PICK kv : kv \in F
    BY <1>3
  <2>3. \A c \in F : c = kv
    BY <2>2, ConfigRecords
  <2>4. F = {kv} /\ kv \in KVs /\ kv \in s.cfg /\ kv.key = key /\ ~kv.deleted
    BY <2>2, <2>3, ConfigRecords
  <2> HIDE DEF F
  <2>5. AsSeq(got.found) = <<kv>> /\ AsSeq(got.found) \in Seq(KVs)
    BY <2>1, <2>4, SingleAsSeq
  <2>6. AsSeq(got.found)[1] = kv
    BY <2>5
  <2> QED BY <2>1, <2>4, <2>5, <2>6
<1> QED BY <1>1, <1>2, <1>3

\* GetHistoryLocked: the versions of the key that are in cfg/, in their order.
LEMMA HistoryFinds ==
  ASSUME NEW s, IsPublished(s), NEW key, NEW hist, hist = GetHistoryLocked(s, key)
  PROVE  /\ hist \in Seq(KVs)
         /\ \A j \in 1..Len(hist) : hist[j] \in s.cfg /\ hist[j].key = key
         /\ \A j \in 1..Len(hist) : j > 1 => hist[j - 1].version < hist[j].version
         /\ \A kv \in s.cfg : kv.key = key /\ ~kv.deleted => kv \in RecordsOf(hist)
<1> DEFINE S == {x \in s.cfg : IsPrefix(key, x.key) /\ x.key = key /\ ~x.deleted}
           f == [h \in S |-> h.version]
           q == ByVersion(S)
<1>1. /\ IsFiniteSet(S) /\ \A x \in S : x \in KVs /\ x \in s.cfg /\ x.key = key
      /\ \A x, y \in S : x.version = y.version => x = y
  <2>1. S \subseteq s.cfg
    OBVIOUS
  <2>2. IsFiniteSet(S)
    BY <2>1, ConfigRecords, FS_Subset
  <2> QED BY <2>1, <2>2, ConfigRecords
<1>2. ASSUME NEW kv \in s.cfg, kv.key = key, ~kv.deleted PROVE kv \in S
  <2>1. kv \in KVs
    BY ConfigRecords
  <2>2. key \in Seq(STRING)
    BY <1>2, <2>1, RequestsAssumption DEF KVs
  <2>3. IsPrefix(key, key)
    BY <2>2 DEF IsPrefix
  <2> QED BY <1>2, <2>3
<1>3. hist = q
  BY DEF GetHistoryLocked
<1> HIDE DEF S
<1>4. f \in [S -> Nat] /\ (\A x, y \in S : f[x] = f[y] => x = y) /\ \A x \in S : f[x] = x.version
  BY <1>1 DEF KVs
<1>5. \A h \in S : Below(S, f, h) = {x \in S : x.version < h.version}
  BY <1>4 DEF Below
<1> HIDE DEF f
<1>6. q = [i \in 1..Cardinality(S) |->
                CHOOSE h \in S : Cardinality({x \in S : x.version < h.version}) = i - 1]
  BY DEF ByVersion
<1> HIDE DEF q
<1>7. ASSUME NEW i \in 1..Cardinality(S)
      PROVE  q[i] \in S /\ Cardinality(Below(S, f, q[i])) = i - 1
  <2>1. \E h \in S : Cardinality({x \in S : x.version < h.version}) = i - 1
    <3>1. PICK h \in S : Cardinality(Below(S, f, h)) = i - 1
      BY <1>1, <1>4, RankTaken
    <3> QED BY <1>5, <3>1
  <2>2. q[i] \in S /\ Cardinality({x \in S : x.version < q[i].version}) = i - 1
    BY <1>6, <2>1
  <2> QED BY <1>5, <2>2
<1>8. q \in [1..Cardinality(S) -> S]
  BY <1>6, <1>7
<1>9. /\ q \in Seq(S) /\ Len(q) = Cardinality(S)
      /\ \A i, j \in 1..Len(q) : i < j => f[q[i]] < f[q[j]]
      /\ RecordsOf(q) = S
  <2>1. IsFiniteSet(S)
    BY <1>1
  <2>2. f \in [S -> Nat]
    BY <1>4
  <2>3. \A x, y \in S : f[x] = f[y] => x = y
    BY <1>4
  <2>4. \A i \in 1..Cardinality(S) : Cardinality(Below(S, f, q[i])) = i - 1
    BY <1>7
  <2> QED BY <1>8, <2>1, <2>2, <2>3, <2>4, RankSorts
<1>10. \A j \in 1..Len(q) : q[j] \in S
  BY <1>9
<1>11. q \in Seq(KVs)
  <2>1. \A j \in 1..Len(q) : q[j] \in KVs
    BY <1>1, <1>10
  <2> QED BY <1>9, <2>1
<1>12. ASSUME NEW j \in 1..Len(q), j > 1 PROVE q[j - 1].version < q[j].version
  <2>1. j - 1 \in 1..Len(q) /\ j - 1 < j
    BY <1>12, <1>9
  <2> QED BY <1>4, <1>9, <1>10, <2>1
<1> QED BY <1>1, <1>2, <1>3, <1>9, <1>10, <1>11, <1>12

-----------------------------------------------------------------------------
(* The inductive invariant *)

\* An answer is the history of a key: its versions alone, in order, each of them
\* written by some handler.
IsHistory(hist, key, written) ==
  \A j \in DOMAIN hist :
    /\ hist[j].key = key
    /\ hist[j] \in written
    /\ j > 1 => hist[j - 1].version < hist[j].version

\* A handler of the call n that is in state h and has written w, while cfg/ of the
\* store is cfg and all handlers together have written written:
\*  - before its answer, and while an entry is left behind, it has written nothing;
\*  - its answer is what it has written, if it does not leave that open;
\*  - between the two reads of GetConfig, the version that was found is in cfg/;
\*  - then it is in the history, too.
HandlerInv(n, h, w, cfg, written) ==
  /\ h.pc # "answered" => w = <<>> /\ ~h.late
  /\ h.late => w = <<>> /\ IsWrite(n) /\ h.answer.code = "INTERNAL"
  /\ h.pc = "answered" /\ n.op \notin {"Get", "GetConfig"}
       /\ ~(IsWrite(n) /\ h.answer.code = "INTERNAL")
     => h.answer.kvs = w /\ (h.answer.code # "OK" => w = <<>>)
  /\ w # <<>> /\ n.op = "BatchPut" =>
       n.puts = [j \in DOMAIN w |-> [key |-> w[j].key, value |-> w[j].value]]
  /\ h.pc = "history" =>
       /\ n.op = "GetConfig" /\ h.answer.code = "OK"
       /\ n.version > 0 /\ ~h.cut =>
            /\ h.answer.kvs[1] \in cfg
            /\ h.answer.kvs[1].key = n.key /\ ~h.answer.kvs[1].deleted
  /\ h.pc = "answered" /\ n.op = "GetConfig" /\ h.answer.code = "OK" =>
       /\ IsHistory(h.answer.history, n.key, written)
       /\ n.version > 0 /\ ~h.cut => h.answer.kvs[1] \in RecordsOf(h.answer.history)

Answers == [code: Codes, kvs: Seq(KVs), history: Seq(KVs)]

Handlers == [pc: {"none", "sent", "history", "answered"}, answer: Answers,
             late: BOOLEAN, cut: BOOLEAN]

Calls == [pc: {"idle", "waiting", "done"}, of: SUBSET UNION {Requests[c] : c \in Clients},
          tries: 0..(MaxRetry + 1), answer: Answers]

\* The call q of client c, and its handlers hs: a request is known once the call
\* was made, it has been sent tries times, and the answer is that of the last one.
CallInv(c, q, hs) ==
  /\ IF q.pc = "idle" THEN q.of = {} /\ q.tries = 0
     ELSE q.tries > 0 /\ \E r \in Requests[c] : q.of = {r}
  /\ \A i \in Tries : i > q.tries => hs[i].pc = "none"
  /\ q.pc = "done" /\ q.answer.code # "FAILED" =>
       hs[q.tries].pc = "answered" /\ hs[q.tries].answer = q.answer

\* All that the handlers have written.
Written(wr) == {x \in KVs : \E c \in Clients, i \in Tries : x \in RecordsOf(wr[c][i])}

\* The call of the node for the requests of.
CallOf(of) == Routed(CHOOSE r \in of : TRUE)

ServicesState(s, cl, hd, wr) ==
  /\ IsPublished(s) /\ s.cfg \subseteq Written(wr)
  /\ cl \in [Clients -> Calls]
  /\ hd \in [Clients -> [Tries -> Handlers]]
  /\ wr \in [Clients -> [Tries -> Seq(KVs)]]
  /\ \A c \in Clients : CallInv(c, cl[c], hd[c])
  /\ \A c \in Clients, i \in Tries :
       HandlerInv(CallOf(cl[c].of), hd[c][i], wr[c][i], s.cfg, Written(wr))

ServicesInv == ServicesState(store, call, handler, wrote)

-----------------------------------------------------------------------------
(* Steps *)

\* More in cfg/, and more that was written, does not disturb a handler.
LEMMA HandlerKept ==
  ASSUME NEW n, NEW h, NEW w, NEW cfg, NEW wn, HandlerInv(n, h, w, cfg, wn),
         NEW cfg2, cfg \subseteq cfg2, NEW wn2, wn \subseteq wn2
  PROVE  HandlerInv(n, h, w, cfg2, wn2)
<1>1. IsHistory(h.answer.history, n.key, wn) => IsHistory(h.answer.history, n.key, wn2)
  BY DEF IsHistory
<1> QED BY <1>1 DEF HandlerInv

\* A handler that has not begun.
LEMMA FreshHandler ==
  ASSUME NEW n, NEW h, h.pc \in {"none", "sent"}, ~h.late, NEW cfg, NEW wn
  PROVE  HandlerInv(n, h, <<>>, cfg, wn)
BY DEF HandlerInv

\* A handler knows its request.
LEMMA KnownCall ==
  ASSUME NEW s, NEW cl, NEW hd, NEW wr, ServicesState(s, cl, hd, wr),
         NEW c \in Clients, NEW i \in Tries, hd[c][i].pc # "none"
  PROVE  IsNodeCall(CallOf(cl[c].of))
<1>1. CallInv(c, cl[c], hd[c]) /\ cl[c] \in Calls
  BY DEF ServicesState
<1>2. ~(i > cl[c].tries) /\ i > 0
  BY <1>1, ServicesAssumption DEF CallInv, Tries
<1>3. cl[c].tries # 0
  BY <1>2, ServicesAssumption DEF Tries
<1>4. PICK r \in Requests[c] : cl[c].of = {r}
  BY <1>1, <1>3 DEF CallInv
<1>5. CallOf(cl[c].of) = Routed(r)
  BY <1>4 DEF CallOf
<1> QED BY <1>5, RequestsAssumption, RoutedType

\* A handler that was sent a request takes a step: it never takes back an answer
\* or what it has written, and cfg/ only gets what it writes.
LEMMA HandlerMoves ==
  ASSUME NEW s, NEW cl, NEW hd, NEW wr, ServicesState(s, cl, hd, wr),
         NEW c \in Clients, NEW i \in Tries, hd[c][i].pc # "none",
         NEW h \in Handlers, h.pc # "none",
         hd[c][i].pc = "answered" => h.pc = "answered" /\ h.answer = hd[c][i].answer,
         NEW w \in Seq(KVs), wr[c][i] = <<>> \/ w = wr[c][i],
         NEW t, IsPublished(t), s.cfg \subseteq t.cfg, t.cfg \subseteq s.cfg \cup RecordsOf(w),
         NEW hd2, hd2 = [hd EXCEPT ![c][i] = h], NEW wr2, wr2 = [wr EXCEPT ![c][i] = w],
         HandlerInv(CallOf(cl[c].of), h, w, t.cfg, Written(wr2))
  PROVE  ServicesState(t, cl, hd2, wr2)
<1>1. /\ cl \in [Clients -> Calls]
      /\ hd \in [Clients -> [Tries -> Handlers]]
      /\ wr \in [Clients -> [Tries -> Seq(KVs)]]
      /\ s.cfg \subseteq Written(wr)
  BY DEF ServicesState
<1>2. /\ hd2 \in [Clients -> [Tries -> Handlers]] /\ hd2[c][i] = h
      /\ \A d \in Clients, j \in Tries : d # c \/ j # i => hd2[d][j] = hd[d][j]
  BY <1>1
<1>3. /\ wr2 \in [Clients -> [Tries -> Seq(KVs)]] /\ wr2[c][i] = w
      /\ \A d \in Clients, j \in Tries : d # c \/ j # i => wr2[d][j] = wr[d][j]
  BY <1>1
<1>4. Written(wr) \subseteq Written(wr2)
  <2> SUFFICES ASSUME NEW x \in KVs, NEW d \in Clients, NEW j \in Tries, x \in RecordsOf(wr[d][j])
               PROVE  x \in RecordsOf(wr2[d][j])
    BY DEF Written
  <2>1. RecordsOf(<<>>) = {}
    BY DEF RecordsOf
  <2> QED BY <1>3, <2>1
<1>5. t.cfg \subseteq Written(wr2)
  <2>1. RecordsOf(w) \subseteq Written(wr2)
    <3>1. \A x \in RecordsOf(w) : x \in KVs
      BY DEF RecordsOf
    <3> QED BY <1>3, <3>1 DEF Written
  <2> QED BY <1>1, <1>4, <2>1
<1>6. ASSUME NEW d \in Clients, NEW j \in Tries
      PROVE  HandlerInv(CallOf(cl[d].of), hd2[d][j], wr2[d][j], t.cfg, Written(wr2))
  <2>1. CASE d = c /\ j = i
    BY <1>2, <1>3, <2>1
  <2>2. CASE d # c \/ j # i
    <3>1. HandlerInv(CallOf(cl[d].of), hd[d][j], wr[d][j], s.cfg, Written(wr))
      BY DEF ServicesState
    <3>2. HandlerInv(CallOf(cl[d].of), hd[d][j], wr[d][j], t.cfg, Written(wr2))
      BY <1>4, <3>1, HandlerKept
    <3> QED BY <1>2, <1>3, <2>2, <3>2
  <2> QED BY <2>1, <2>2
<1>7. ASSUME NEW d \in Clients PROVE CallInv(d, cl[d], hd2[d])
  <2>1. CallInv(d, cl[d], hd[d]) /\ cl[d] \in Calls /\ cl[d].tries \in 0..(MaxRetry + 1)
    BY <1>1 DEF ServicesState, Calls
  <2>2. ASSUME NEW j \in Tries, j > cl[d].tries PROVE hd2[d][j].pc = "none"
    BY <1>2, <2>1, <2>2 DEF CallInv
  <2>3. ASSUME cl[d].pc = "done", cl[d].answer.code # "FAILED"
        PROVE  hd2[d][cl[d].tries].pc = "answered" /\ hd2[d][cl[d].tries].answer = cl[d].answer
    <3>1. /\ hd[d][cl[d].tries].pc = "answered" /\ hd[d][cl[d].tries].answer = cl[d].answer
          /\ cl[d].tries > 0
      BY <2>1, <2>3 DEF CallInv
    <3>2. cl[d].tries \in Tries
      BY <2>1, <3>1, ServicesAssumption DEF Tries
    <3> QED BY <1>2, <3>1, <3>2
  <2> QED BY <2>1, <2>2, <2>3 DEF CallInv
<1> QED BY <1>1, <1>2, <1>3, <1>5, <1>6, <1>7 DEF ServicesState

\* One that writes nothing.
LEMMA HandlerAnswers ==
  ASSUME NEW s, NEW cl, NEW hd, NEW wr, ServicesState(s, cl, hd, wr),
         NEW c \in Clients, NEW i \in Tries, hd[c][i].pc \in {"sent", "history"},
         NEW h \in Handlers, h.pc # "none",
         NEW hd2, hd2 = [hd EXCEPT ![c][i] = h],
         HandlerInv(CallOf(cl[c].of), h, <<>>, s.cfg, Written(wr))
  PROVE  ServicesState(s, cl, hd2, wr)
<1>1. wr \in [Clients -> [Tries -> Seq(KVs)]] /\ IsPublished(s)
  BY DEF ServicesState
<1>2. wr[c][i] = <<>>
  BY DEF ServicesState, HandlerInv
<1>3. PICK w \in Seq(KVs) : w = <<>>
  <2>1. <<>> \in Seq(KVs)
    OBVIOUS
  <2> QED BY <2>1
<1>4. PICK wr2 : wr2 = [wr EXCEPT ![c][i] = w]
  OBVIOUS
<1>5. wr2 = wr
  BY <1>1, <1>2, <1>3, <1>4
<1>6. HandlerInv(CallOf(cl[c].of), h, w, s.cfg, Written(wr2))
  BY <1>3, <1>5
<1>7. wr[c][i] = <<>> /\ hd[c][i].pc # "none" /\ hd[c][i].pc # "answered"
  BY <1>2
<1>8. s.cfg \subseteq s.cfg \cup RecordsOf(w)
  OBVIOUS
<1>9. ServicesState(s, cl, hd2, wr2)
  BY <1>1, <1>4, <1>6, <1>7, <1>8, HandlerMoves
<1> QED BY <1>5, <1>9

\* An answer that says nothing.
LEMMA NoAnswerType == NoAnswer \in Answers
BY DEF NoAnswer, Answers, Codes

\* The services answer without writing anything.
LEMMA AnswersOnly ==
  ASSUME ServicesInv, NEW c \in Clients, NEW i \in Tries,
         HandleImmediate(c, i) \/ HandleRefused(c, i) \/ HandleStepDown(c, i) \/ HandleGet(c, i)
  PROVE  ServicesInv'
<1> DEFINE n == CallOf(call[c].of)
           g == handler[c][i]
<1>1. NodeCall(c) = n /\ g.pc = "sent" /\ UNCHANGED <<store, call, wrote>>
  BY DEF HandleImmediate, HandleRefused, HandleStepDown, HandleGet, NodeCall, CallOf
<1>2. /\ g \in Handlers /\ IsStore(store) /\ ~g.late
      /\ ServicesState(store, call, handler, wrote)
  <2>1. g \in Handlers /\ IsPublished(store)
    BY DEF ServicesInv, ServicesState
  <2>2. ~g.late
    BY <1>1 DEF ServicesInv, ServicesState, HandlerInv
  <2> QED BY <2>1, <2>2, ConfigRecords DEF ServicesInv
<1>3. IsNodeCall(n)
  BY <1>1, <1>2, KnownCall
<1>4. NoAnswer \in Answers
  BY NoAnswerType
<1>5. ASSUME NEW h \in Handlers, handler' = [handler EXCEPT ![c][i] = h], h.pc = "answered",
             HandlerInv(n, h, <<>>, store.cfg, Written(wrote))
      PROVE  ServicesInv'
  <2>1. ServicesState(store, call, handler', wrote)
    <3>1. handler[c][i].pc \in {"sent", "history"} /\ h.pc # "none"
      BY <1>1, <1>5
    <3> QED BY <1>2, <1>5, <3>1, HandlerAnswers
  <2> QED BY <1>1, <2>1 DEF ServicesInv
<1>6. CASE HandleImmediate(c, i)
  <2> DEFINE h == [g EXCEPT !.pc = "answered", !.answer = [NoAnswer EXCEPT !.code = n.code]]
  <2>1. n.op = "Answer" /\ handler' = [handler EXCEPT ![c][i] = h]
    BY <1>1, <1>6 DEF HandleImmediate, Answered
  <2>2. n.code \in {"OK", "INVALID_ARGUMENT", "INTERNAL"}
    BY <1>3, <2>1 DEF IsNodeCall, Commands
  <2>3. [NoAnswer EXCEPT !.code = n.code] \in Answers
    BY <1>4, <2>2 DEF Answers, Codes
  <2>4. /\ h \in Handlers /\ h.pc = "answered" /\ h.late = g.late /\ h.answer.kvs = <<>>
    BY <1>2, <2>3 DEF Handlers, NoAnswer
  <2> HIDE DEF h, n
  <2>5. HandlerInv(n, h, <<>>, store.cfg, Written(wrote))
    BY <1>2, <2>1, <2>4 DEF HandlerInv
  <2> QED BY <1>5, <2>1, <2>4, <2>5
<1>7. CASE HandleRefused(c, i)
  <2>1. PICK code \in {"NOT_LEADER", "INTERNAL"} :
          /\ IsWrite(n) \/ n.op = "Get"
          /\ handler' = [handler EXCEPT ![c][i] =
               [g EXCEPT !.pc = "answered", !.answer = [NoAnswer EXCEPT !.code = code]]]
    BY <1>1, <1>7 DEF HandleRefused, Answered
  <2> DEFINE h == [g EXCEPT !.pc = "answered", !.answer = [NoAnswer EXCEPT !.code = code]]
  <2>2. [NoAnswer EXCEPT !.code = code] \in Answers
    BY <1>4 DEF Answers, Codes
  <2>3. /\ h \in Handlers /\ h.pc = "answered" /\ h.late = g.late /\ h.answer.kvs = <<>>
        /\ h.answer.code # "OK"
    BY <1>2, <2>2 DEF Handlers, NoAnswer
  <2> HIDE DEF h, n
  <2>4. n.op # "GetConfig"
    BY <2>1 DEF IsWrite
  <2>5. HandlerInv(n, h, <<>>, store.cfg, Written(wrote))
    BY <1>2, <2>3, <2>4 DEF HandlerInv
  <2> QED BY <1>5, <2>1, <2>3, <2>5 DEF h
<1>8. CASE HandleStepDown(c, i)
  <2> DEFINE h == [g EXCEPT !.pc = "answered", !.answer.code = "INTERNAL", !.late = TRUE]
  <2>1. IsWrite(n) /\ handler' = [handler EXCEPT ![c][i] = h]
    BY <1>1, <1>8 DEF HandleStepDown
  <2>2. [g.answer EXCEPT !.code = "INTERNAL"] \in Answers
    BY <1>2 DEF Handlers, Answers, Codes
  <2>3. /\ h \in Handlers /\ h.pc = "answered" /\ h.answer.code = "INTERNAL"
    BY <1>2, <2>2 DEF Handlers, Answers
  <2> HIDE DEF h, n
  <2>4. n.op # "GetConfig" /\ n.op # "Get"
    BY <2>1 DEF IsWrite
  <2>5. HandlerInv(n, h, <<>>, store.cfg, Written(wrote))
    BY <2>1, <2>3, <2>4 DEF HandlerInv
  <2> QED BY <1>5, <2>1, <2>3, <2>5
<1>9. CASE HandleGet(c, i)
  <2> DEFINE got == GetLocked(store, n.key)
             a == [NoAnswer EXCEPT !.code = got.code, !.kvs = AsSeq(got.found)]
             h == [g EXCEPT !.pc = "answered", !.answer = a]
  <2>1. n.op = "Get" /\ handler' = [handler EXCEPT ![c][i] = h]
    BY <1>1, <1>9 DEF HandleGet, Answered
  <2>2. got.code \in {"OK", "KEY_NOT_FOUND"} /\ AsSeq(got.found) \in Seq(KVs)
    BY <1>2, GetFinds
  <2> HIDE DEF got
  <2>3. a \in Answers
    BY <1>4, <2>2 DEF Answers, Codes
  <2> HIDE DEF a
  <2>4. h \in Handlers /\ h.pc = "answered" /\ h.late = g.late
    BY <1>2, <2>3 DEF Handlers
  <2> HIDE DEF h, n
  <2>5. HandlerInv(n, h, <<>>, store.cfg, Written(wrote))
    BY <1>2, <2>1, <2>4 DEF HandlerInv
  <2> QED BY <1>5, <2>1, <2>4, <2>5
<1> QED BY <1>6, <1>7, <1>8, <1>9

\* GetConfig of the node, its two reads.
LEMMA ReadsConfig ==
  ASSUME ServicesInv, NEW c \in Clients, NEW i \in Tries,
         HandleGetConfig(c, i) \/ HandleGetHistory(c, i)
  PROVE  ServicesInv'
<1> DEFINE n == CallOf(call[c].of)
           g == handler[c][i]
<1>1. NodeCall(c) = n /\ g.pc \in {"sent", "history"} /\ UNCHANGED <<store, call, wrote>>
  BY DEF HandleGetConfig, HandleGetHistory, NodeCall, CallOf
<1>2. /\ g \in Handlers /\ IsPublished(store) /\ store.cfg \subseteq Written(wrote)
      /\ ServicesState(store, call, handler, wrote)
      /\ HandlerInv(n, g, wrote[c][i], store.cfg, Written(wrote))
  BY DEF ServicesInv, ServicesState
<1>3. ~g.late
  BY <1>1, <1>2 DEF HandlerInv
<1>4. IsNodeCall(n)
  BY <1>1, <1>2, KnownCall
<1>5. ASSUME NEW h \in Handlers, handler' = [handler EXCEPT ![c][i] = h], h.pc # "none",
             HandlerInv(n, h, <<>>, store.cfg, Written(wrote))
      PROVE  ServicesInv'
  <2>1. ServicesState(store, call, handler', wrote)
    BY <1>1, <1>2, <1>5, HandlerAnswers
  <2> QED BY <1>1, <2>1 DEF ServicesInv
<1>6. CASE HandleGetConfig(c, i)
  <2> DEFINE got == GetConfigLocked(store, n.key, n.version)
             a == [NoAnswer EXCEPT !.code = got.code, !.kvs = AsSeq(got.found)]
             pc == IF got.code = "OK" THEN "history" ELSE "answered"
             h == [g EXCEPT !.pc = pc, !.answer = a]
  <2>1. n.op = "GetConfig" /\ handler' = [handler EXCEPT ![c][i] = h]
    BY <1>1, <1>6 DEF HandleGetConfig
  <2>2. n.version \in Int
    BY <1>4, <2>1 DEF IsNodeCall, Commands
  <2>3. /\ got.code \in {"OK", "KEY_NOT_FOUND", "VERSION_NOT_FOUND"}
        /\ AsSeq(got.found) \in Seq(KVs)
        /\ \A kv : got.code = "OK" /\ n.version > 0 /\ kv = AsSeq(got.found)[1]
                   => kv \in store.cfg /\ kv.key = n.key /\ ~kv.deleted
    BY <1>2, <2>2, GetConfigFinds
  <2> HIDE DEF got
  <2>4. a \in Answers /\ a.code = got.code /\ a.kvs = AsSeq(got.found)
    BY <2>3, NoAnswerType DEF Answers, Codes
  <2> HIDE DEF a
  <2>5. /\ h \in Handlers /\ h.pc = pc /\ h.late = g.late /\ h.answer = a
    BY <1>2, <2>4 DEF Handlers
  <2> HIDE DEF h, n
  <2>6. CASE got.code = "OK"
    <3>1. HandlerInv(n, h, <<>>, store.cfg, Written(wrote))
      BY <1>3, <2>1, <2>3, <2>4, <2>5, <2>6 DEF HandlerInv
    <3> QED BY <1>5, <2>1, <2>5, <2>6, <3>1
  <2>7. CASE got.code # "OK"
    <3>1. HandlerInv(n, h, <<>>, store.cfg, Written(wrote))
      BY <1>3, <2>1, <2>4, <2>5, <2>7 DEF HandlerInv
    <3> QED BY <1>5, <2>1, <2>5, <2>7, <3>1
  <2> QED BY <2>6, <2>7
<1>7. CASE HandleGetHistory(c, i)
  <2> DEFINE hist == GetHistoryLocked(store, n.key)
             a == [g.answer EXCEPT !.history = hist]
             h == [g EXCEPT !.pc = "answered", !.answer = a]
  <2>1. g.pc = "history" /\ handler' = [handler EXCEPT ![c][i] = h]
    BY <1>1, <1>7 DEF HandleGetHistory, Answered
  <2>2. /\ hist \in Seq(KVs)
        /\ \A j \in 1..Len(hist) : hist[j] \in store.cfg /\ hist[j].key = n.key
        /\ \A j \in 1..Len(hist) : j > 1 => hist[j - 1].version < hist[j].version
        /\ \A kv \in store.cfg : kv.key = n.key /\ ~kv.deleted => kv \in RecordsOf(hist)
    BY <1>2, HistoryFinds
  <2> HIDE DEF hist
  <2>3. a \in Answers /\ a.code = g.answer.code /\ a.kvs = g.answer.kvs /\ a.history = hist
    BY <1>2, <2>2 DEF Handlers, Answers
  <2> HIDE DEF a
  <2>4. h \in Handlers /\ h.pc = "answered" /\ h.late = g.late /\ h.cut = g.cut /\ h.answer = a
    BY <1>2, <2>3 DEF Handlers
  <2> HIDE DEF h, n
  <2>5. IsHistory(hist, n.key, Written(wrote))
    BY <1>2, <2>2 DEF IsHistory
  <2>6. /\ n.op = "GetConfig"
        /\ n.version > 0 /\ ~g.cut => g.answer.kvs[1] \in RecordsOf(hist)
    BY <1>2, <2>1, <2>2 DEF HandlerInv
  <2>7. HandlerInv(n, h, <<>>, store.cfg, Written(wrote))
    BY <1>3, <2>3, <2>4, <2>5, <2>6 DEF HandlerInv
  <2> QED BY <1>5, <2>1, <2>4, <2>7
<1> QED BY <1>6, <1>7

\* A command is executed, at once or by a later leader.
LEMMA Executes ==
  ASSUME ServicesInv, NEW c \in Clients, NEW i \in Tries,
         HandleWrite(c, i) \/ LateCommit(c, i)
  PROVE  ServicesInv'
<1> DEFINE n == CallOf(call[c].of)
           g == handler[c][i]
           b == Prepare(store, n)
           w == b.kvs
           t == WriteBatch(store, b)
<1>1. NodeCall(c) = n /\ (g.pc = "sent" \/ g.late)
  BY DEF HandleWrite, LateCommit, NodeCall, CallOf
<1>2. /\ store' = t /\ wrote' = [wrote EXCEPT ![c][i] = w] /\ call' = call
  BY <1>1 DEF HandleWrite, LateCommit, Execute
<1>3. /\ g \in Handlers /\ IsPublished(store)
      /\ ServicesState(store, call, handler, wrote)
      /\ HandlerInv(n, g, wrote[c][i], store.cfg, Written(wrote))
  BY DEF ServicesInv, ServicesState
<1>4. IsWrite(n) /\ wrote[c][i] = <<>> /\ g.pc # "none"
  BY <1>1, <1>3 DEF HandleWrite, LateCommit, HandlerInv
<1>5. n \in Commands
  <2>1. IsNodeCall(n)
    BY <1>3, <1>4, KnownCall
  <2> QED BY <1>4, <2>1 DEF IsNodeCall, IsWrite
<1>6. /\ IsPublished(t)
      /\ b.code \in {"OK", "CAS_FAILED", "VERSION_NOT_FOUND", "INTERNAL"}
      /\ w \in Seq(KVs) /\ store.cfg \subseteq t.cfg /\ t.cfg \subseteq store.cfg \cup RecordsOf(w)
  BY <1>3, <1>5, CommandPublished
<1>7. /\ b.code # "OK" => w = <<>>
      /\ n.op = "BatchPut" =>
           n.puts = [j \in DOMAIN w |-> [key |-> w[j].key, value |-> w[j].value]]
  BY <1>5, RefusedWritesNothing, BatchWrites
<1>8. ASSUME NEW h \in Handlers, handler' = [handler EXCEPT ![c][i] = h], h.pc = "answered",
             g.pc = "answered" => h.answer = g.answer,
             HandlerInv(n, h, w, t.cfg, Written(wrote'))
      PROVE  ServicesInv'
  <2>1. ServicesState(t, call, handler', wrote')
    <3> HIDE DEF t, w, b
    <3>1. h.pc # "none" /\ (g.pc = "answered" => h.pc = "answered" /\ h.answer = g.answer)
      BY <1>8
    <3> QED BY <1>2, <1>3, <1>4, <1>6, <1>8, <3>1, HandlerMoves
  <2> QED BY <1>2, <2>1 DEF ServicesInv
<1>9. CASE HandleWrite(c, i)
  <2> DEFINE a == [NoAnswer EXCEPT !.code = b.code, !.kvs = w]
             h == [g EXCEPT !.pc = "answered", !.answer = a]
  <2>1. g.pc = "sent" /\ handler' = [handler EXCEPT ![c][i] = h]
    BY <1>1, <1>9 DEF HandleWrite, Answered
  <2>2. ~g.late
    BY <1>3, <2>1 DEF HandlerInv
  <2> HIDE DEF b, t, w
  <2>3. a \in Answers /\ a.code = b.code /\ a.kvs = w
    BY <1>6, NoAnswerType DEF Answers, Codes
  <2> HIDE DEF a
  <2>4. h \in Handlers /\ h.pc = "answered" /\ h.late = g.late /\ h.answer = a
    BY <1>3, <2>3 DEF Handlers
  <2> HIDE DEF h, n
  <2>5. HandlerInv(n, h, w, t.cfg, Written(wrote'))
    BY <1>4, <1>7, <2>2, <2>3, <2>4 DEF HandlerInv, IsWrite
  <2> QED BY <1>8, <2>1, <2>4, <2>5
<1>10. CASE LateCommit(c, i)
  <2> DEFINE h == [g EXCEPT !.late = FALSE]
  <2>1. g.late /\ handler' = [handler EXCEPT ![c][i] = h]
    BY <1>10 DEF LateCommit
  <2>2. g.pc = "answered" /\ g.answer.code = "INTERNAL"
    BY <1>3, <2>1 DEF HandlerInv
  <2> HIDE DEF b, t, w
  <2>3. h \in Handlers /\ h.pc = "answered" /\ h.answer = g.answer
    BY <1>3, <2>2 DEF Handlers
  <2>4. ~h.late
    BY <1>3 DEF Handlers
  <2> HIDE DEF h, n
  <2>5. HandlerInv(n, h, w, t.cfg, Written(wrote'))
    BY <1>4, <1>7, <2>2, <2>3, <2>4 DEF HandlerInv, IsWrite
  <2> QED BY <1>8, <2>1, <2>3, <2>5
<1> QED BY <1>9, <1>10

\* The content of the store is replaced by one with less in cfg/: a handler between
\* its two reads that loses what it has found is told.
LEMMA Replaces ==
  ASSUME ServicesInv, NEW t, IsPublished(t), t.cfg \subseteq store.cfg, Replaced(t)
  PROVE  ServicesInv'
<1>1. /\ store' = t /\ UNCHANGED <<call, wrote>>
      /\ handler' = [c \in Clients |-> [i \in Tries |->
           [handler[c][i] EXCEPT !.cut = handler[c][i].cut \/ Loses(handler[c][i], t)]]]
  BY DEF Replaced
<1>2. /\ IsPublished(store) /\ store.cfg \subseteq Written(wrote)
      /\ call \in [Clients -> Calls] /\ wrote \in [Clients -> [Tries -> Seq(KVs)]]
      /\ \A c \in Clients, i \in Tries : handler[c][i] \in Handlers
  BY DEF ServicesInv, ServicesState
<1>3. IsPublished(t) /\ t.cfg \subseteq store.cfg
  OBVIOUS
<1>4. ASSUME NEW c \in Clients, NEW i \in Tries
      PROVE  /\ handler'[c][i] \in Handlers
             /\ handler'[c][i].pc = handler[c][i].pc /\ handler'[c][i].late = handler[c][i].late
             /\ handler'[c][i].answer = handler[c][i].answer
             /\ handler'[c][i].cut <=> handler[c][i].cut \/ Loses(handler[c][i], t)
  <2> DEFINE g == handler[c][i]
             u == (g.cut \/ Loses(g, t))
             h == [g EXCEPT !.cut = u]
  <2>1. handler'[c][i] = h /\ g \in Handlers
    BY <1>1, <1>2
  <2>2. u \in BOOLEAN
    BY DEF Loses
  <2> HIDE DEF g, u
  <2>3. h \in Handlers /\ h.pc = g.pc /\ h.late = g.late /\ h.answer = g.answer /\ h.cut = u
    BY <2>1, <2>2 DEF Handlers
  <2> HIDE DEF h
  <2> QED BY <2>1, <2>3 DEF g, u
<1>5. handler' \in [Clients -> [Tries -> Handlers]]
  BY <1>1, <1>4
<1>6. ASSUME NEW c \in Clients, NEW i \in Tries
      PROVE  HandlerInv(CallOf(call[c].of), handler'[c][i], wrote[c][i], t.cfg, Written(wrote))
  <2>1. HandlerInv(CallOf(call[c].of), handler[c][i], wrote[c][i], store.cfg, Written(wrote))
    BY DEF ServicesInv, ServicesState
  <2> QED BY <1>4, <2>1 DEF HandlerInv, Loses
<1>7. ASSUME NEW c \in Clients PROVE CallInv(c, call[c], handler'[c])
  <2>1. CallInv(c, call[c], handler[c]) /\ call[c] \in Calls /\ call[c].tries \in 0..(MaxRetry + 1)
    BY DEF ServicesInv, ServicesState, Calls
  <2>2. call[c].tries > 0 => call[c].tries \in Tries
    BY <2>1, ServicesAssumption DEF Tries
  <2> QED BY <1>4, <2>1, <2>2 DEF CallInv
<1>8. t.cfg \subseteq Written(wrote)
  BY <1>2, <1>3
<1>9. ServicesState(t, call, handler', wrote)
  BY <1>2, <1>3, <1>5, <1>6, <1>7, <1>8 DEF ServicesState
<1> QED BY <1>1, <1>9 DEF ServicesInv

\* The compaction loop.
LEMMA Compacts ==
  ASSUME ServicesInv, Compaction
  PROVE  ServicesInv'
<1>1. IsPublished(store)
  BY DEF ServicesInv, ServicesState
<1>2. IsPublished(Compacted(store)) /\ Compacted(store).cfg \subseteq store.cfg
  BY <1>1, CompactionIsPublished
<1> QED BY <1>2, Replaces DEF Compaction

\* The snapshot of a replica, compacted or not.
LEMMA Installs ==
  ASSUME ServicesInv, InstallSnapshot
  PROVE  ServicesInv'
<1>1. IsPublished(store)
  BY DEF ServicesInv, ServicesState
<1>2. IsPublished(Compacted(store)) /\ Compacted(store).cfg \subseteq store.cfg
  BY <1>1, CompactionIsPublished
<1>3. PICK s \in {store, Compacted(store)} : Replaced(LoadSnapshot(ExportSnapshot(s)))
  BY DEF InstallSnapshot
<1>4. IsPublished(s) /\ s.cfg \subseteq store.cfg
  BY <1>1, <1>2
<1>5. /\ IsPublished(LoadSnapshot(ExportSnapshot(s)))
      /\ LoadSnapshot(ExportSnapshot(s)).cfg \subseteq store.cfg
  BY <1>4, ReloadIsPublished
<1> QED BY <1>3, <1>5, Replaces

\* A client makes its call, or sends the request again: one more handler.
LEMMA Sends ==
  ASSUME ServicesInv, NEW c \in Clients,
         Retry(c) \/ \E r \in Requests[c] : Call(c, r)
  PROVE  ServicesInv'
<1> DEFINE q == call[c]
           k == q.tries + 1
           p == call'[c]
<1>1. /\ IsPublished(store) /\ store.cfg \subseteq Written(wrote)
      /\ call \in [Clients -> Calls] /\ wrote \in [Clients -> [Tries -> Seq(KVs)]]
      /\ handler \in [Clients -> [Tries -> Handlers]]
      /\ \A d \in Clients : CallInv(d, call[d], handler[d])
      /\ \A d \in Clients, i \in Tries :
           HandlerInv(CallOf(call[d].of), handler[d][i], wrote[d][i], store.cfg, Written(wrote))
  BY DEF ServicesInv, ServicesState
<1>2. q \in Calls /\ q.tries \in 0..(MaxRetry + 1) /\ CallInv(c, q, handler[c])
  BY <1>1 DEF Calls
<1>3. /\ UNCHANGED <<store, wrote>> /\ k \in Tries
      /\ handler' = [handler EXCEPT ![c][k].pc = "sent"]
      /\ \A d \in Clients : d # c => call'[d] = call[d]
      /\ DOMAIN call' = Clients /\ call' = [d \in Clients |-> call'[d]]
      /\ p \in Calls /\ p.pc = "waiting" /\ p.tries = k
      /\ \E r \in Requests[c] : p.of = {r} /\ (q.of = {r} \/ \A i \in Tries : handler[c][i].pc = "none")
  <2>1. CASE Retry(c)
    <3>1. /\ UNCHANGED <<store, wrote>> /\ q.pc = "waiting" /\ q.tries <= MaxRetry
          /\ call' = [call EXCEPT ![c].tries = q.tries + 1]
          /\ handler' = [handler EXCEPT ![c][k].pc = "sent"]
      BY <2>1 DEF Retry
    <3>2. k \in Tries /\ k \in 0..(MaxRetry + 1)
      BY <1>2, <3>1, ServicesAssumption DEF Tries
    <3>3. p = [q EXCEPT !.tries = k]
      BY <1>1, <3>1
    <3> HIDE DEF k, p
    <3>4. p \in Calls /\ p.pc = "waiting" /\ p.tries = k /\ p.of = q.of
      BY <1>2, <3>1, <3>2, <3>3 DEF Calls
    <3>5. \E r \in Requests[c] : q.of = {r}
      BY <1>2, <3>1 DEF CallInv
    <3>6. /\ \A d \in Clients : d # c => call'[d] = call[d]
          /\ DOMAIN call' = Clients /\ call' = [d \in Clients |-> call'[d]]
      BY <1>1, <3>1
    <3> QED BY <3>1, <3>2, <3>4, <3>5, <3>6 DEF p
  <2>2. ASSUME NEW r \in Requests[c], Call(c, r)
        PROVE  /\ UNCHANGED <<store, wrote>> /\ k \in Tries
               /\ handler' = [handler EXCEPT ![c][k].pc = "sent"]
               /\ \A d \in Clients : d # c => call'[d] = call[d]
               /\ DOMAIN call' = Clients /\ call' = [d \in Clients |-> call'[d]]
               /\ p \in Calls /\ p.pc = "waiting" /\ p.tries = k
               /\ p.of = {r} /\ \A i \in Tries : handler[c][i].pc = "none"
    <3>1. /\ UNCHANGED <<store, wrote>> /\ q.pc = "idle"
          /\ call' = [call EXCEPT ![c] =
               [NewCall EXCEPT !.pc = "waiting", !.of = {r}, !.tries = 1]]
          /\ handler' = [handler EXCEPT ![c][1].pc = "sent"]
      BY <2>2 DEF Call
    <3>2. q.tries = 0 /\ k = 1 /\ 1 \in Tries /\ 1 \in 0..(MaxRetry + 1)
      BY <1>2, <3>1, ServicesAssumption DEF CallInv, Tries
    <3>3. \A i \in Tries : handler[c][i].pc = "none"
      <4>1. \A i \in Tries : i > 0
        BY ServicesAssumption DEF Tries
      <4> QED BY <1>2, <3>2, <4>1 DEF CallInv
    <3>4. p = [NewCall EXCEPT !.pc = "waiting", !.of = {r}, !.tries = 1]
      BY <1>1, <3>1
    <3>5. {r} \in SUBSET UNION {Requests[d] : d \in Clients}
      OBVIOUS
    <3> HIDE DEF p
    <3>6. p \in Calls /\ p.pc = "waiting" /\ p.tries = 1 /\ p.of = {r}
      BY <3>2, <3>4, <3>5, NoAnswerType DEF Calls, NewCall
    <3>7. /\ \A d \in Clients : d # c => call'[d] = call[d]
          /\ DOMAIN call' = Clients /\ call' = [d \in Clients |-> call'[d]]
      BY <1>1, <3>1
    <3> QED BY <3>1, <3>2, <3>3, <3>6, <3>7 DEF p
  <2> QED BY <2>1, <2>2
<1> HIDE DEF k, p
<1>4. handler[c][k].pc = "none" /\ wrote[c][k] = <<>> /\ ~handler[c][k].late
  <2>1. k > q.tries
    BY <1>2 DEF k
  <2>2. handler[c][k].pc = "none"
    BY <1>2, <1>3, <2>1 DEF CallInv
  <2> QED BY <1>1, <1>3, <2>2 DEF HandlerInv
<1>5. /\ handler' \in [Clients -> [Tries -> Handlers]]
      /\ handler'[c][k].pc = "sent" /\ handler'[c][k].late = handler[c][k].late
      /\ \A d \in Clients, i \in Tries : d # c \/ i # k => handler'[d][i] = handler[d][i]
  <2> DEFINE g == handler[c][k]
             h == [g EXCEPT !.pc = "sent"]
  <2>1. g \in Handlers
    BY <1>1, <1>3
  <2>2. handler' = [handler EXCEPT ![c][k] = h]
    BY <1>1, <1>3
  <2> HIDE DEF g
  <2>3. h \in Handlers /\ h.pc = "sent" /\ h.late = g.late
    BY <2>1 DEF Handlers
  <2> HIDE DEF h
  <2>4. k \in Tries /\ handler \in [Clients -> [Tries -> Handlers]]
    BY <1>1, <1>3
  <2>5. handler'[c][k] = h
    BY <2>2, <2>4
  <2>6. handler' \in [Clients -> [Tries -> Handlers]]
    BY <2>2, <2>3, <2>4
  <2>7. \A d \in Clients, i \in Tries : d # c \/ i # k => handler'[d][i] = handler[d][i]
    BY <2>2, <2>4
  <2> QED BY <2>3, <2>5, <2>6, <2>7 DEF g
<1>6. call' \in [Clients -> Calls]
  <2>1. \A d \in Clients : call'[d] \in Calls
    BY <1>1, <1>3 DEF p
  <2> QED BY <1>3, <2>1
<1>7. ASSUME NEW d \in Clients, NEW i \in Tries
      PROVE  HandlerInv(CallOf(call'[d].of), handler'[d][i], wrote[d][i], store.cfg, Written(wrote))
  <2>1. CASE d # c
    BY <1>1, <1>3, <1>5, <2>1
  <2>2. CASE d = c /\ i = k
    BY <1>4, <1>5, <2>2, FreshHandler
  <2>3. CASE d = c /\ i # k
    <3>1. handler'[c][i] = handler[c][i] /\ call'[c] = p
      BY <1>5, <2>3 DEF p
    <3>2. HandlerInv(CallOf(q.of), handler[c][i], wrote[c][i], store.cfg, Written(wrote))
      BY <1>1, <2>3
    <3>3. CASE p.of = q.of
      BY <2>3, <3>1, <3>2, <3>3
    <3>4. CASE handler[c][i].pc = "none"
      <4>1. wrote[c][i] = <<>> /\ ~handler[c][i].late
        BY <3>2, <3>4 DEF HandlerInv
      <4> QED BY <2>3, <3>1, <3>4, <4>1, FreshHandler
    <3> QED BY <1>3, <3>3, <3>4
  <2> QED BY <2>1, <2>2, <2>3
<1>8. ASSUME NEW d \in Clients PROVE CallInv(d, call'[d], handler'[d])
  <2>1. CASE d # c
    <3>1. handler'[d] = handler[d]
      BY <1>1, <1>3, <2>1
    <3> QED BY <1>1, <1>3, <2>1, <3>1
  <2>2. CASE d = c
    <3>1. ASSUME NEW i \in Tries, i > k PROVE handler'[c][i].pc = "none"
      <4>1. i > q.tries /\ i # k
        BY <1>2, <1>3, <3>1, ServicesAssumption DEF k, Tries
      <4> QED BY <1>2, <1>5, <4>1 DEF CallInv
    <3>2. k > 0
      BY <1>3, ServicesAssumption DEF Tries
    <3>3. CallInv(c, p, handler'[c])
      BY <1>3, <3>1, <3>2 DEF CallInv
    <3> QED BY <2>2, <3>3 DEF p
  <2> QED BY <2>1, <2>2
<1>9. ServicesState(store, call', handler', wrote)
  BY <1>1, <1>5, <1>6, <1>7, <1>8 DEF ServicesState
<1> QED BY <1>3, <1>9 DEF ServicesInv

\* The call of a client ends, with the answer of the last handler or without one.
LEMMA Ends ==
  ASSUME ServicesInv, NEW c \in Clients, Reply(c) \/ Fail(c)
  PROVE  ServicesInv'
<1> DEFINE q == call[c]
<1>1. /\ IsPublished(store) /\ store.cfg \subseteq Written(wrote)
      /\ call \in [Clients -> Calls] /\ wrote \in [Clients -> [Tries -> Seq(KVs)]]
      /\ handler \in [Clients -> [Tries -> Handlers]]
      /\ \A d \in Clients : CallInv(d, call[d], handler[d])
      /\ \A d \in Clients, i \in Tries :
           HandlerInv(CallOf(call[d].of), handler[d][i], wrote[d][i], store.cfg, Written(wrote))
  BY DEF ServicesInv, ServicesState
<1>2. q \in Calls /\ q.tries \in 0..(MaxRetry + 1) /\ CallInv(c, q, handler[c]) /\ q.pc = "waiting"
  BY <1>1 DEF Calls, Reply, Fail
<1>3. q.tries \in Tries
  BY <1>2, ServicesAssumption DEF CallInv, Tries
<1>4. UNCHANGED <<store, handler, wrote>>
  BY DEF Reply, Fail
<1>5. PICK a \in Answers :
        /\ call' = [call EXCEPT ![c] = [q EXCEPT !.pc = "done", !.answer = a]]
        /\ a.code # "FAILED" => handler[c][q.tries].pc = "answered" /\ handler[c][q.tries].answer = a
  <2>1. CASE Reply(c)
    <3>1. handler[c][q.tries] \in Handlers
      BY <1>1, <1>3
    <3>2. handler[c][q.tries].answer \in Answers
      BY <3>1 DEF Handlers
    <3>3. /\ handler[c][q.tries].pc = "answered"
          /\ call' = [call EXCEPT ![c].pc = "done", ![c].answer = handler[c][q.tries].answer]
      BY <2>1 DEF Reply
    <3>4. call' = [call EXCEPT ![c] = [q EXCEPT !.pc = "done", !.answer = handler[c][q.tries].answer]]
      BY <1>1, <3>3
    <3> QED BY <3>2, <3>3, <3>4
  <2>2. CASE Fail(c)
    <3> DEFINE a == [NoAnswer EXCEPT !.code = "FAILED"]
    <3>1. a \in Answers /\ a.code = "FAILED"
      BY NoAnswerType DEF Answers, Codes
    <3>2. call' = [call EXCEPT ![c].pc = "done", ![c].answer = a]
      BY <2>2 DEF Fail
    <3> HIDE DEF a
    <3>3. call' = [call EXCEPT ![c] = [q EXCEPT !.pc = "done", !.answer = a]]
      BY <1>1, <3>2
    <3> QED BY <3>1, <3>3
  <2> QED BY <2>1, <2>2
<1>6. PICK p : p = [q EXCEPT !.pc = "done", !.answer = a]
  OBVIOUS
<1>7. p \in Calls /\ p.pc = "done" /\ p.answer = a /\ p.of = q.of /\ p.tries = q.tries
  BY <1>2, <1>6 DEF Calls
<1>8. /\ call' \in [Clients -> Calls] /\ call'[c] = p
      /\ \A d \in Clients : d # c => call'[d] = call[d]
  BY <1>1, <1>5, <1>6, <1>7
<1>9. \A d \in Clients : call'[d].of = call[d].of
  BY <1>7, <1>8
<1>10. CallInv(c, p, handler[c])
  BY <1>2, <1>5, <1>7 DEF CallInv
<1>11. \A d \in Clients : CallInv(d, call'[d], handler[d])
  BY <1>1, <1>8, <1>10
<1>12. ServicesState(store, call', handler, wrote)
  BY <1>1, <1>8, <1>9, <1>11 DEF ServicesState
<1> QED BY <1>4, <1>12 DEF ServicesInv

-----------------------------------------------------------------------------
(* The theorems *)

\* Nothing has been asked for.
LEMMA InitServices == Init => ServicesInv
<1> SUFFICES ASSUME Init PROVE ServicesState(store, call, handler, wrote)
  BY DEF ServicesInv
<1>1. store = EmptyStore /\ IsPublished(store) /\ store.cfg = {}
  BY EmptyIsPublished DEF Init, EmptyStore
<1>2. NoHandler \in Handlers /\ NewCall \in Calls
  BY NoAnswerType, ServicesAssumption DEF NoHandler, NewCall, Handlers, Calls
<1>3. /\ NoHandler.pc = "none" /\ ~NoHandler.late
      /\ NewCall.pc = "idle" /\ NewCall.of = {} /\ NewCall.tries = 0
  BY DEF NoHandler, NewCall
<1>4. <<>> \in Seq(KVs)
  OBVIOUS
<1>5. /\ call \in [Clients -> Calls] /\ handler \in [Clients -> [Tries -> Handlers]]
      /\ wrote \in [Clients -> [Tries -> Seq(KVs)]]
      /\ \A c \in Clients : call[c] = NewCall
      /\ \A c \in Clients, i \in Tries : handler[c][i] = NoHandler /\ wrote[c][i] = <<>>
  BY <1>2, <1>4 DEF Init
<1>6. \A c \in Clients : CallInv(c, call[c], handler[c])
  BY <1>3, <1>5 DEF CallInv
<1>7. ASSUME NEW c \in Clients, NEW i \in Tries
      PROVE  HandlerInv(CallOf(call[c].of), handler[c][i], wrote[c][i], store.cfg, Written(wrote))
  BY <1>3, <1>5, FreshHandler
<1> QED BY <1>1, <1>5, <1>6, <1>7 DEF ServicesState

\* Every step keeps the invariant.
LEMMA NextServices == ServicesInv /\ [Next]_vars => ServicesInv'
<1>1. ASSUME ServicesInv, NEW c \in Clients, NEW i \in Tries, HandlerStep(c, i) PROVE ServicesInv'
  BY <1>1, AnswersOnly, ReadsConfig, Executes DEF HandlerStep
<1>2. ASSUME ServicesInv, UNCHANGED vars PROVE ServicesInv'
  BY <1>2 DEF ServicesInv, vars
<1> QED BY <1>1, <1>2, Compacts, Installs, Sends, Ends DEF Next

\* The invariant holds always.
LEMMA ServicesInvariant == Spec => []ServicesInv
BY InitServices, NextServices, PTL DEF Spec

\* The checks of the services: whatever requests arrive, by either way, in any
\* order and sent again any number of times, the store stays well formed and holds
\* nothing under an empty key.
THEOREM ServicesTypeCorrect == Spec => []TypeOK
<1>1. ServicesInv => TypeOK
  <2> SUFFICES ASSUME ServicesInv PROVE TypeOK
    OBVIOUS
  <2>1. IsStore(store)
    BY ConfigRecords DEF ServicesInv, ServicesState
  <2>2. ASSUME NEW c \in Clients
        PROVE  /\ call[c].pc \in {"idle", "waiting", "done"} /\ call[c].of \subseteq Requests[c]
               /\ call[c].tries \in 0..(MaxRetry + 1) /\ call[c].answer.code \in Codes
    <3>1. call[c] \in Calls /\ CallInv(c, call[c], handler[c])
      BY DEF ServicesInv, ServicesState
    <3>2. call[c].of \subseteq Requests[c]
      BY <3>1 DEF CallInv
    <3> QED BY <3>1, <3>2 DEF Calls, Answers
  <2>3. ASSUME NEW c \in Clients, NEW i \in Tries
        PROVE  /\ wrote[c][i] \in Seq(KVs)
               /\ handler[c][i].pc \in {"none", "sent", "history", "answered"}
    <3>1. handler[c][i] \in Handlers /\ wrote[c][i] \in Seq(KVs)
      BY DEF ServicesInv, ServicesState
    <3> QED BY <3>1 DEF Handlers
  <2> QED BY <2>1, <2>2, <2>3 DEF TypeOK
<1> QED BY <1>1, ServicesInvariant, PTL

\* FillResponse and the channel that sends again: a write is answered with what
\* the handler of its last sending has written, whichever other sending runs before
\* or after it, and whatever any of them writes is the whole of what was asked for.
THEOREM AnswersAreTrue == Spec => []AnswersTrue
<1>1. ServicesInv => AnswersTrue
  <2> SUFFICES ASSUME ServicesInv, NEW c \in Clients
               PROVE  LET answer == call[c].answer
                          n      == NodeCall(c)
                          last   == wrote[c][call[c].tries]
                      IN  /\ Done(c) /\ n.op \notin {"Get", "GetConfig"}
                               /\ ~(IsWrite(n) /\ answer.code = "INTERNAL")
                             => answer.kvs = last /\ (answer.code # "OK" => last = <<>>)
                          /\ \A i \in Tries : wrote[c][i] # <<>> /\ n.op = "BatchPut" =>
                               \A r \in call[c].of :
                                 Body(r).entries = [j \in DOMAIN wrote[c][i] |->
                                   [key |-> wrote[c][i][j].key, value |-> wrote[c][i][j].value]]
    BY DEF AnswersTrue
  <2> DEFINE n == CallOf(call[c].of)
  <2>1. NodeCall(c) = n
    BY DEF NodeCall, CallOf
  <2>2. /\ call[c] \in Calls /\ CallInv(c, call[c], handler[c])
        /\ \A i \in Tries : HandlerInv(n, handler[c][i], wrote[c][i], store.cfg, Written(wrote))
    BY DEF ServicesInv, ServicesState
  <2> HIDE DEF n
  <2>3. ASSUME Done(c), n.op \notin {"Get", "GetConfig"},
               ~(IsWrite(n) /\ call[c].answer.code = "INTERNAL")
        PROVE  /\ call[c].answer.kvs = wrote[c][call[c].tries]
               /\ call[c].answer.code # "OK" => wrote[c][call[c].tries] = <<>>
    <3>1. /\ call[c].tries > 0 /\ handler[c][call[c].tries].pc = "answered"
          /\ handler[c][call[c].tries].answer = call[c].answer
      BY <2>2, <2>3 DEF CallInv, Done
    <3>2. call[c].tries \in Tries
      BY <2>2, <3>1, ServicesAssumption DEF Calls, Tries
    <3> QED BY <2>2, <2>3, <3>1, <3>2 DEF HandlerInv
  <2>4. ASSUME NEW i \in Tries, wrote[c][i] # <<>>, n.op = "BatchPut", NEW r \in call[c].of
        PROVE  Body(r).entries = [j \in DOMAIN wrote[c][i] |->
                 [key |-> wrote[c][i][j].key, value |-> wrote[c][i][j].value]]
    <3>1. call[c].of = {r} /\ r \in Requests[c]
      BY <2>2, <2>4 DEF CallInv
    <3>2. n = Routed(r)
      BY <3>1 DEF n, CallOf
    <3>3. n.puts = Body(r).entries
      BY <2>4, <3>1, <3>2, RequestsAssumption, RoutedType
    <3> QED BY <2>2, <2>4, <3>3 DEF HandlerInv
  <2> QED BY <2>1, <2>3, <2>4
<1> QED BY <1>1, ServicesInvariant, PTL

\* GetConfig of the node, whose two reads may be far apart: the history it answers
\* has the versions of this key alone, in order and as they were written, and the
\* version it answers is one of them unless compaction, here or at the replica a
\* snapshot came from, has taken it away between the reads.
THEOREM ConfigAnswersAreCoherent == Spec => []ConfigAnswerCoherent
<1>1. ServicesInv => ConfigAnswerCoherent
  <2> SUFFICES ASSUME ServicesInv, NEW c \in Clients, NEW i \in Tries,
                      handler[c][i].pc = "answered", NodeCall(c).op = "GetConfig",
                      handler[c][i].answer.code = "OK"
               PROVE  LET h    == handler[c][i]
                          hist == h.answer.history
                          kv   == h.answer.kvs[1]
                      IN  /\ \A j \in DOMAIN hist :
                               /\ hist[j].key = NodeCall(c).key
                               /\ \E d \in Clients, k \in Tries : hist[j] \in RecordsOf(wrote[d][k])
                               /\ j > 1 => hist[j - 1].version < hist[j].version
                          /\ NodeCall(c).version > 0 /\ ~h.cut => kv \in RecordsOf(hist)
    BY DEF ConfigAnswerCoherent
  <2> DEFINE n == CallOf(call[c].of)
  <2>1. NodeCall(c) = n
    BY DEF NodeCall, CallOf
  <2>2. HandlerInv(n, handler[c][i], wrote[c][i], store.cfg, Written(wrote))
    BY DEF ServicesInv, ServicesState
  <2> HIDE DEF n
  <2>3. /\ IsHistory(handler[c][i].answer.history, n.key, Written(wrote))
        /\ n.version > 0 /\ ~handler[c][i].cut
           => handler[c][i].answer.kvs[1] \in RecordsOf(handler[c][i].answer.history)
    BY <2>1, <2>2 DEF HandlerInv
  <2>4. \A x \in Written(wrote) : \E d \in Clients, k \in Tries : x \in RecordsOf(wrote[d][k])
    BY DEF Written
  <2> QED BY <2>1, <2>3, <2>4 DEF IsHistory
<1> QED BY <1>1, ServicesInvariant, PTL
=============================================================================
