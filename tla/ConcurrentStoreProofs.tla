------------------------ MODULE ConcurrentStoreProofs ------------------------
(***************************************************************************)
(* The safety properties of ConcurrentStore for every set of keys, values, *)
(* commands, writers and readers and every number of kept versions.        *)
(***************************************************************************)
EXTENDS ConcurrentStore, StoreProofs

(***************************************************************************)
(* The inductive invariant, in named parts.                                *)
(***************************************************************************)

\* A prepared batch belongs to the holder of the mutex and still fits the
\* store, which only compaction can have changed since it was prepared.
WriterInv ==
  \A w \in Writers : writer[w].pc = "prepared" =>
    /\ mu = w
    /\ NextRevisions(store, writer[w].batch)
    /\ writer[w].cmd.op = "Cas" /\ writer[w].batch.kvs # <<>>
         => CasMatched(store, writer[w].cmd.key, writer[w].cmd.expect)

\* What a compaction or a replay scanned is part of the log, and a replay's
\* iterator has everything above compact_rev that it will be asked for.
ScanInv ==
  /\ comp.seen \subseteq RecordsOf(log)
  /\ \A r \in Readers :
       /\ reader[r].pc # "idle" => reader[r].cur <= Len(log)
       /\ reader[r].pc = "scan" =>
            /\ reader[r].seen \subseteq RecordsOf(log)
            /\ \A i \in 1..Len(log) :
                 i <= reader[r].cur /\ i > store.compact_rev
                   => log[i] \in reader[r].seen

\* The saved snapshot is the state after savedLog.
SavedInv ==
  /\ SnapshotOf(saved, savedLog)
  /\ \A i \in 1..Len(savedLog) : savedLog[i].revision = i
  /\ saved.cfg_kvs \subseteq savedPublished

\* An export under way has pinned the state after the log of that moment.
ExportInv ==
  export.pc = "reading" =>
    /\ Image(export.pinned, export.log)
    /\ export.pinned.cfg \subseteq export.published

\* cfg/ holds only what was published.
CfgInv == store.cfg \subseteq published

IInv ==
  /\ TypeOK
  /\ Image(store, log)
  /\ WriterInv
  /\ ScanInv
  /\ SavedInv
  /\ ExportInv
  /\ CfgInv

(***************************************************************************)
(* The invariant is inductive: one lemma per group of actions.             *)
(***************************************************************************)

\* A freshly opened store satisfies the invariant.
LEMMA InitIInv == Init => IInv
<1> SUFFICES ASSUME Init PROVE IInv
  OBVIOUS
<1>1. Refused("INTERNAL") \in Batches
  BY DEF Refused, Batches
<1>2. [op |-> "Unknown"] \in Commands
  BY DEF Commands
<1>3. IsStore(store)
  BY EmptyImage DEF Init, Image
<1>4. TypeOK
  BY <1>1, <1>2, <1>3, EmptyImage
     DEF Init, TypeOK, IdleWriter, IdleReader, ReplayedReader, IdleExport, Snapshots
<1>5. WriterInv /\ ScanInv /\ SavedInv /\ ExportInv /\ CfgInv
  BY EmptyImage DEF Init, WriterInv, ScanInv, SavedInv, ExportInv, CfgInv, IdleWriter,
     IdleReader, ReplayedReader, IdleExport, EmptyStore
<1> QED BY <1>4, <1>5, EmptyImage DEF Init, IInv

\* Preparing a batch under the mutex: it fits the store it was read from, and no
\* other writer can hold one.
LEMMA BeginWriteStep ==
  ASSUME IInv, NEW w \in Writers, NEW c \in Cmds, BeginWrite(w, c)
  PROVE  IInv'
<1> DEFINE b == Prepare(store, c)
<1>1. IsStore(store) /\ c \in Commands
  BY ConstantsAssumption DEF IInv, TypeOK
<1>2. /\ NextRevisions(store, b)
      /\ c.op = "Cas" /\ b.kvs # <<>> => CasMatched(store, c.key, c.expect)
  BY <1>1, PrepareType
<1>3. b \in Batches
  BY <1>2 DEF NextRevisions
<1>4. /\ mu = NoWriter /\ mu' = w
      /\ writer' = [writer EXCEPT ![w] = [pc |-> "prepared", cmd |-> c, batch |-> b]]
      /\ UNCHANGED <<store, comp, reader, export, saved, log, published, savedLog,
                     savedPublished>>
  BY DEF BeginWrite, history
<1> HIDE DEF b
<1>5. TypeOK'
  BY <1>1, <1>3, <1>4 DEF IInv, TypeOK
<1>6. WriterInv'
  BY <1>2, <1>4, ConstantsAssumption DEF IInv, TypeOK, WriterInv
<1>7. ScanInv' /\ SavedInv' /\ ExportInv' /\ CfgInv' /\ Image(store, log)'
  BY <1>4 DEF IInv, ScanInv, SavedInv, ExportInv, CfgInv
<1> QED BY <1>5, <1>6, <1>7 DEF IInv

\* Writing a prepared batch extends the log by its records.
LEMMA CommitWriteStep ==
  ASSUME IInv, NEW w \in Writers, CommitWrite(w)
  PROVE  IInv'
<1> DEFINE b == writer[w].batch
<1>1. /\ NextRevisions(store, b) /\ b \in Batches /\ mu = w
      /\ log \in Seq(KVs) /\ Image(store, log) /\ b.kvs \in Seq(KVs)
  BY DEF IInv, TypeOK, WriterInv, CommitWrite, Batches, NextRevisions
<1>2. /\ mu' = NoWriter /\ writer' = [writer EXCEPT ![w] = IdleWriter]
      /\ store' = WriteBatch(store, b) /\ log' = log \o b.kvs
      /\ published' = IF b.cfg THEN published \cup RecordsOf(b.kvs) ELSE published
      /\ UNCHANGED <<comp, reader, export, saved, savedLog, savedPublished>>
  BY DEF CommitWrite
<1> HIDE DEF b
<1>3. Image(store', log')
  BY <1>1, <1>2, WriteBatchImage DEF NextRevisions
<1>4. IdleWriter \in [pc: {"idle", "prepared"}, cmd: Commands, batch: Batches]
  BY DEF IdleWriter, Refused, Commands, Batches
<1>5. RecordsOf(b.kvs) \subseteq KVs
  BY <1>1 DEF RecordsOf
<1>6. /\ log' \in Seq(KVs) /\ Len(log') >= Len(log) /\ Len(log) \in Nat
      /\ Len(log') \in Nat /\ \A i \in 1..Len(log) : log'[i] = log[i]
      /\ RecordsOf(log) \subseteq RecordsOf(log')
  BY <1>1, <1>2, LogGrowth
<1>7. published' \subseteq KVs
  BY <1>2, <1>5 DEF IInv, TypeOK
<1>8. IsStore(store')
  BY <1>3 DEF Image
<1>9. TypeOK'
  BY <1>2, <1>4, <1>6, <1>7, <1>8 DEF IInv, TypeOK
<1>10. WriterInv'
  BY <1>1, <1>2 DEF IInv, TypeOK, WriterInv, IdleWriter
<1>11. store'.compact_rev = store.compact_rev
  BY <1>2 DEF WriteBatch
<1>12. ScanInv'
  BY <1>2, <1>6, <1>11 DEF IInv, TypeOK, ScanInv
<1>13. CfgInv'
  BY <1>2 DEF IInv, CfgInv, WriteBatch
<1> QED BY <1>2, <1>3, <1>9, <1>10, <1>12, <1>13 DEF IInv, SavedInv, ExportInv

\* A write that fails changes no store and releases the mutex.
LEMMA FailWriteStep ==
  ASSUME IInv, NEW w \in Writers, FailWrite(w)
  PROVE  IInv'
<1>1. IdleWriter \in [pc: {"idle", "prepared"}, cmd: Commands, batch: Batches]
  BY DEF IdleWriter, Refused, Commands, Batches
<1>2. /\ writer[w].pc = "prepared" /\ mu' = NoWriter
      /\ writer' = [writer EXCEPT ![w] = IdleWriter]
      /\ UNCHANGED <<store, comp, reader, export, saved, log, published, savedLog,
                     savedPublished>>
  BY DEF FailWrite, history
<1>3. TypeOK'
  BY <1>1, <1>2 DEF IInv, TypeOK
<1>4. WriterInv'
  BY <1>2 DEF IInv, TypeOK, WriterInv, IdleWriter
<1>5. ScanInv' /\ SavedInv' /\ ExportInv' /\ CfgInv' /\ Image(store, log)'
  BY <1>2 DEF IInv, ScanInv, SavedInv, ExportInv, CfgInv
<1> QED BY <1>3, <1>4, <1>5 DEF IInv

\* A compaction scan sees records of the log only.
LEMMA CompactionScanStep ==
  ASSUME IInv, CompactionScan
  PROVE  IInv'
<1>1. /\ comp' = [pc |-> "scanned", seen |-> store.hist]
      /\ UNCHANGED <<store, mu, writer, reader, export, saved, log, published, savedLog,
                     savedPublished>>
  BY DEF CompactionScan, history
<1>2. store.hist \subseteq KVs /\ store.hist \subseteq RecordsOf(log)
  BY DEF IInv, Image, IsStore, DenseIn
<1>3. TypeOK'
  BY <1>1, <1>2 DEF IInv, TypeOK
<1>4. ScanInv'
  BY <1>1, <1>2 DEF IInv, ScanInv
<1>5. WriterInv' /\ SavedInv' /\ ExportInv' /\ CfgInv' /\ Image(store, log)'
  BY <1>1 DEF IInv, WriterInv, SavedInv, ExportInv, CfgInv
<1> QED BY <1>3, <1>4, <1>5 DEF IInv

\* The deletions of a compaction, decided from an old scan, keep the store an
\* image of the log, and what a replay has seen still covers all above the new
\* compact_rev.
LEMMA CompactionCommitStep ==
  ASSUME IInv, NEW ok \in BOOLEAN, CompactionCommit(ok)
  PROVE  IInv'
<1> DEFINE t == CompactionWrite(store, Excess(comp.seen, KeepVersions))
<1>1. /\ comp' = [pc |-> "idle", seen |-> {}]
      /\ store' = IF ok THEN t ELSE store
      /\ UNCHANGED <<mu, writer, reader, export, saved, log, published, savedLog,
                     savedPublished>>
  BY DEF CompactionCommit, history
<1>2. /\ Image(store, log) /\ log \in Seq(KVs) /\ comp.seen \subseteq RecordsOf(log)
      /\ store.compact_rev \in Nat /\ Len(log) \in Nat
  BY DEF IInv, TypeOK, ScanInv, IsStore
<1>3. Image(t, log) /\ t.compact_rev >= store.compact_rev /\ t.cfg \subseteq store.cfg
  BY <1>2, CompactionImage, ConstantsAssumption
<1>4. t.main = store.main /\ t.revision = store.revision
  BY CompactionKeepsMain
<1> HIDE DEF t
<1>5. /\ Image(store', log) /\ store'.compact_rev >= store.compact_rev
      /\ store'.cfg \subseteq store.cfg /\ store'.main = store.main
      /\ store'.revision = store.revision
  BY <1>1, <1>2, <1>3, <1>4
<1>6. IsStore(store') /\ store'.compact_rev \in Nat
  BY <1>5 DEF Image, IsStore
<1>7. TypeOK'
  BY <1>1, <1>6 DEF IInv, TypeOK
<1>8. WriterInv'
  BY <1>1, <1>5 DEF IInv, WriterInv, NextRevisions, CasMatched, Absent, Existed
<1>9. ScanInv'
  BY <1>1, <1>2, <1>5, <1>6 DEF IInv, ScanInv
<1> QED BY <1>1, <1>5, <1>7, <1>8, <1>9 DEF IInv, SavedInv, ExportInv, CfgInv

\* The current revision a replay starts with is not past the log.
LEMMA ReplayReadCurrentStep ==
  ASSUME IInv, NEW r \in Readers, NEW from \in 0..store.revision,
         NEW f \in Filters, ReplayReadCurrent(r, from, f)
  PROVE  IInv'
<1>1. /\ reader' = [reader EXCEPT ![r] =
                      Replaying("current", from, store.revision, f, {})]
      /\ UNCHANGED <<store, mu, writer, comp, export, saved, log, published, savedLog,
                     savedPublished>>
  BY DEF ReplayReadCurrent, history
<1>2. store.revision \in Nat /\ store.revision = Len(log)
  BY DEF IInv, Image, IsStore, DenseIn
<1>3. TypeOK'
  BY <1>1, <1>2 DEF IInv, TypeOK, Replaying
<1>4. ScanInv'
  BY <1>1, <1>2 DEF IInv, TypeOK, ScanInv, Replaying
<1>5. WriterInv' /\ SavedInv' /\ ExportInv' /\ CfgInv' /\ Image(store, log)'
  BY <1>1 DEF IInv, WriterInv, SavedInv, ExportInv, CfgInv
<1> QED BY <1>3, <1>4, <1>5 DEF IInv

\* A replay's iterator has everything above compact_rev.
LEMMA ReplayIteratorStep ==
  ASSUME IInv, NEW r \in Readers, ReplayIterator(r)
  PROVE  IInv'
<1>1. /\ reader[r].pc = "current"
      /\ reader' = [reader EXCEPT ![r] =
                      Replaying("scan", reader[r].from, reader[r].cur,
                                reader[r].filter, store.hist)]
      /\ UNCHANGED <<store, mu, writer, comp, export, saved, log, published, savedLog,
                     savedPublished>>
  BY DEF ReplayIterator, history
<1>2. /\ store.hist \subseteq KVs /\ store.hist \subseteq RecordsOf(log)
      /\ \A i \in 1..Len(log) : i > store.compact_rev => log[i] \in store.hist
  BY DEF IInv, Image, IsStore, DenseIn, NoHole
<1>3. TypeOK'
  BY <1>1, <1>2 DEF IInv, TypeOK, Replaying
<1>4. ScanInv'
  BY <1>1, <1>2 DEF IInv, TypeOK, ScanInv, Replaying
<1>5. WriterInv' /\ SavedInv' /\ ExportInv' /\ CfgInv' /\ Image(store, log)'
  BY <1>1 DEF IInv, WriterInv, SavedInv, ExportInv, CfgInv
<1> QED BY <1>3, <1>4, <1>5 DEF IInv

\* The scan of a replay changes nothing but the reader.
LEMMA ReplayScanStep ==
  ASSUME IInv, NEW r \in Readers, ReplayScan(r)
  PROVE  IInv'
<1> DEFINE res == ReplayEventsLocked(reader[r].seen, store.compact_rev,
                    reader[r].from, reader[r].cur, reader[r].filter, MaxEvents)
<1>1. /\ reader' = [reader EXCEPT ![r] = ReplayedReader(res.code, res.events)]
      /\ UNCHANGED <<store, mu, writer, comp, export, saved, log, published, savedLog,
                     savedPublished>>
  BY DEF ReplayScan, history
<1> HIDE DEF res
<1>2. TypeOK'
  BY <1>1 DEF IInv, TypeOK, ReplayedReader
<1>3. ScanInv'
  BY <1>1 DEF IInv, TypeOK, ScanInv, ReplayedReader
<1>4. WriterInv' /\ SavedInv' /\ ExportInv' /\ CfgInv' /\ Image(store, log)'
  BY <1>1 DEF IInv, WriterInv, SavedInv, ExportInv, CfgInv
<1> QED BY <1>2, <1>3, <1>4 DEF IInv

\* An export pins the store and the log of one moment.
LEMMA ExportBeginStep ==
  ASSUME IInv, ExportBegin
  PROVE  IInv'
<1>1. /\ export' = [pc |-> "reading", pinned |-> store, log |-> log,
                    published |-> published]
      /\ UNCHANGED <<store, mu, writer, comp, reader, saved, log, published,
                     savedLog, savedPublished>>
  BY DEF ExportBegin, history
<1>2. TypeOK'
  BY <1>1 DEF IInv, TypeOK
<1>3. ExportInv'
  BY <1>1 DEF IInv, ExportInv, CfgInv
<1>4. WriterInv' /\ ScanInv' /\ SavedInv' /\ CfgInv' /\ Image(store, log)'
  BY <1>1 DEF IInv, WriterInv, ScanInv, SavedInv, CfgInv
<1> QED BY <1>2, <1>3, <1>4 DEF IInv

\* What it writes is the snapshot of the log at that moment.
LEMMA ExportEndStep ==
  ASSUME IInv, ExportEnd
  PROVE  IInv'
<1>1. /\ export.pc = "reading" /\ export' = IdleExport
      /\ saved' = ExportSnapshot(export.pinned)
      /\ savedLog' = export.log /\ savedPublished' = export.published
      /\ UNCHANGED <<store, mu, writer, comp, reader, log, published>>
  BY DEF ExportEnd
<1>2. /\ export.log \in Seq(KVs) /\ Image(export.pinned, export.log)
      /\ export.pinned.cfg \subseteq export.published /\ export.published \subseteq KVs
  BY <1>1 DEF IInv, TypeOK, ExportInv
<1>3. /\ saved' \in Snapshots /\ SnapshotOf(saved', export.log)
      /\ saved'.cfg_kvs = export.pinned.cfg
  BY <1>1, <1>2, ExportOfImage
<1>4. TypeOK'
  <2>1. IsStore(EmptyStore) /\ <<>> \in Seq(KVs)
    BY EmptyImage DEF Image
  <2>2. /\ export'.pc = "idle" /\ IsStore(export'.pinned)
        /\ export'.log \in Seq(KVs) /\ export'.published \subseteq KVs
    BY <1>1, <2>1 DEF IdleExport
  <2> QED BY <1>1, <1>2, <1>3, <2>2 DEF IInv, TypeOK
<1>5. SavedInv'
  BY <1>1, <1>2, <1>3 DEF SavedInv, Image, DenseIn
<1>6. ExportInv'
  BY <1>1 DEF ExportInv, IdleExport
<1>7. WriterInv' /\ ScanInv' /\ CfgInv' /\ Image(store, log)'
  BY <1>1 DEF IInv, WriterInv, ScanInv, CfgInv
<1> QED BY <1>4, <1>5, <1>6, <1>7 DEF IInv

\* A snapshot that is installed is an image of the longer log it was taken from.
LEMMA InstallSnapshotStep ==
  ASSUME IInv, NEW c \in Cmds, InstallSnapshot(c)
  PROVE  IInv'
<1> DEFINE b     == Prepare(store, c)
           ahead == WriteBatch(store, b)
           d     == ExportSnapshot(ahead)
           l     == log \o b.kvs
<1>1. /\ NoSharedHolder /\ store' = LoadSnapshot(d) /\ log' = l
      /\ published' = IF b.cfg THEN published \cup RecordsOf(b.kvs) ELSE published
      /\ UNCHANGED <<mu, writer, comp, reader, export, saved, savedLog, savedPublished>>
  BY DEF InstallSnapshot
<1>2. IsStore(store) /\ c \in Commands /\ log \in Seq(KVs) /\ Image(store, log)
  BY ConstantsAssumption DEF IInv, TypeOK
<1>3. NextRevisions(store, b)
  BY <1>2, PrepareType
<1>4. b \in Batches /\ b.kvs \in Seq(KVs)
  BY <1>3 DEF NextRevisions, Batches
<1>5. ahead.cfg = IF b.cfg
        THEN {x \in store.cfg : \A n \in RecordsOf(b.kvs) : ~SameConfigKey(x, n)}
               \cup RecordsOf(b.kvs)
        ELSE store.cfg
  BY DEF WriteBatch
<1> HIDE DEF b
<1>6. Image(ahead, l)
  BY <1>2, <1>3, <1>4, WriteBatchImage DEF NextRevisions
<1>7. /\ l \in Seq(KVs) /\ Len(l) >= Len(log) /\ Len(log) \in Nat
      /\ Len(l) \in Nat /\ \A i \in 1..Len(log) : l[i] = log[i]
      /\ RecordsOf(log) \subseteq RecordsOf(l)
  BY <1>2, <1>4, LogGrowth
<1> HIDE DEF ahead, l
<1>8. d \in Snapshots /\ SnapshotOf(d, l) /\ d.cfg_kvs = ahead.cfg
  BY <1>6, <1>7, ExportOfImage
<1> HIDE DEF d
<1>9. Image(store', l)
  BY <1>1, <1>6, <1>7, <1>8, LoadSnapshotImage DEF Image, DenseIn
<1>10. RecordsOf(b.kvs) \subseteq KVs
  BY <1>4 DEF RecordsOf
<1>11. published' \subseteq KVs
  BY <1>1, <1>10 DEF IInv, TypeOK
<1>12. TypeOK'
  BY <1>1, <1>7, <1>9, <1>11 DEF IInv, TypeOK, Image
<1>13. WriterInv'
  BY <1>1 DEF WriterInv, NoSharedHolder
<1>14. ScanInv'
  BY <1>1, <1>7 DEF IInv, TypeOK, ScanInv, NoSharedHolder
<1>15. CfgInv'
  <2>1. store'.cfg = ahead.cfg
    BY <1>1, <1>8 DEF LoadSnapshot
  <2> QED BY <2>1, <1>1, <1>5 DEF IInv, CfgInv
<1> QED BY <1>1, <1>9, <1>12, <1>13, <1>14, <1>15 DEF IInv, SavedInv, ExportInv

\* A restart from the data directory or from the snapshot.
LEMMA RestartStep ==
  ASSUME IInv, ThreadsLost,
         \/ UNCHANGED <<store, log, published>>
         \/ /\ store' = LoadSnapshot(saved)
            /\ log' = savedLog /\ published' = savedPublished
  PROVE  IInv'
<1>1. /\ mu' = NoWriter /\ writer' = [w \in Writers |-> IdleWriter]
      /\ comp' = [pc |-> "idle", seen |-> {}]
      /\ reader' = [r \in Readers |-> IdleReader] /\ export' = IdleExport
      /\ UNCHANGED <<saved, savedLog, savedPublished>>
  BY DEF ThreadsLost
<1>2. saved \in Snapshots /\ savedLog \in Seq(KVs) /\ SavedInv
  BY DEF IInv, TypeOK
<1>3. Image(store', log') /\ CfgInv' /\ log' \in Seq(KVs) /\ published' \subseteq KVs
  <2>1. CASE UNCHANGED <<store, log, published>>
    BY <2>1 DEF IInv, TypeOK, CfgInv
  <2>2. CASE /\ store' = LoadSnapshot(saved)
             /\ log' = savedLog /\ published' = savedPublished
    <3>1. Image(LoadSnapshot(saved), savedLog)
      BY <1>2, LoadSnapshotImage DEF SavedInv
    <3>2. LoadSnapshot(saved).cfg = saved.cfg_kvs
      BY DEF LoadSnapshot
    <3> QED BY <2>2, <3>1, <3>2, <1>2 DEF IInv, TypeOK, CfgInv, SavedInv
  <2> QED BY <2>1, <2>2
<1>4. IdleWriter \in [pc: {"idle", "prepared"}, cmd: Commands, batch: Batches]
  BY DEF IdleWriter, Refused, Commands, Batches
<1>5. TypeOK'
  BY <1>1, <1>3, <1>4, EmptyImage
     DEF IInv, TypeOK, Image, IdleReader, ReplayedReader, IdleExport
<1>6. WriterInv' /\ ScanInv' /\ ExportInv'
  BY <1>1 DEF WriterInv, ScanInv, ExportInv, IdleWriter, IdleReader, ReplayedReader,
              IdleExport
<1> QED BY <1>1, <1>3, <1>5, <1>6 DEF IInv, SavedInv, ExportInv

\* Every step preserves the invariant.
LEMMA NextIInv == IInv /\ [Next]_vars => IInv'
<1> SUFFICES ASSUME IInv, [Next]_vars PROVE IInv'
  OBVIOUS
<1>1. ASSUME NEW w \in Writers, NEW c \in Cmds, BeginWrite(w, c) PROVE IInv'
  BY <1>1, BeginWriteStep
<1>2. ASSUME NEW w \in Writers, CommitWrite(w) PROVE IInv'
  BY <1>2, CommitWriteStep
<1>3. ASSUME NEW w \in Writers, FailWrite(w) PROVE IInv'
  BY <1>3, FailWriteStep
<1>4. CASE CompactionScan
  BY <1>4, CompactionScanStep
<1>5. ASSUME NEW ok \in BOOLEAN, CompactionCommit(ok) PROVE IInv'
  BY <1>5, CompactionCommitStep
<1>6. ASSUME NEW r \in Readers, NEW from \in 0..store.revision, NEW f \in Filters,
             ReplayReadCurrent(r, from, f)
      PROVE  IInv'
  BY <1>6, ReplayReadCurrentStep
<1>7. ASSUME NEW r \in Readers, ReplayIterator(r) PROVE IInv'
  BY <1>7, ReplayIteratorStep
<1>8. ASSUME NEW r \in Readers, ReplayScan(r) PROVE IInv'
  BY <1>8, ReplayScanStep
<1>9. CASE ExportBegin \/ ExportEnd
  BY <1>9, ExportBeginStep, ExportEndStep
<1>10. ASSUME NEW c \in Cmds, InstallSnapshot(c) PROVE IInv'
  BY <1>10, InstallSnapshotStep
<1>11. CASE Restart
  BY <1>11, RestartStep DEF Restart
<1>12. CASE RestartFromSnapshot
  BY <1>12, RestartStep DEF RestartFromSnapshot
<1>13. CASE UNCHANGED vars
  BY <1>13 DEF vars, history, IInv, TypeOK, WriterInv, ScanInv, SavedInv, ExportInv, CfgInv
<1> QED BY <1>1, <1>2, <1>3, <1>4, <1>5, <1>6, <1>7, <1>8, <1>9, <1>10, <1>11,
           <1>12, <1>13 DEF Next

\* The invariant holds in every reachable state.
THEOREM Invariance == Spec => []IInv
BY InitIInv, NextIInv, PTL DEF Spec

(***************************************************************************)
(* The properties.                                                         *)
(***************************************************************************)

\* Type correctness.
THEOREM TypeCorrect == Spec => []TypeOK
<1>1. IInv => TypeOK
  BY DEF IInv
<1> QED BY <1>1, Invariance, PTL

\* Revisions are dense and unique: the mutex around the read of meta/revision
\* and the batch that advances it is enough, for any number of writers.
THEOREM DenseRevisions == Spec => []RevisionsDense
<1>1. IInv => RevisionsDense
  BY DEF IInv, Image, RevisionsDense
<1> QED BY <1>1, Invariance, PTL

\* History has no hole above compact_rev, whatever is compacted, installed or
\* lost in a crash, and for every keep_versions.
THEOREM CompactRevIsFloor == Spec => []NoHoleAboveCompactRev
<1>1. IInv => NoHoleAboveCompactRev
  BY DEF IInv, Image, NoHoleAboveCompactRev
<1> QED BY <1>1, Invariance, PTL

\* The main index is the newest record of every key.
THEOREM MainIndexCorrect == Spec => []MainIsLatest
<1>1. IInv => MainIsLatest
  BY DEF IInv, Image, MainIsLatest
<1> QED BY <1>1, Invariance, PTL

\* Compaction keeps the record behind every key of the main index, for every
\* keep_versions, the ones below 1 included.
THEOREM NewestIsKept == Spec => []NewestRetained
<1>1. IInv => NewestRetained
  BY DEF IInv, Image, NewestRetained
<1> QED BY <1>1, Invariance, PTL

\* The saved snapshot is one point of the log.
THEOREM SnapshotIsPoint == Spec => []SnapshotConsistent
<1>1. IInv => SnapshotConsistent
  BY DEF IInv, SavedInv, SnapshotConsistent
<1> QED BY <1>1, Invariance, PTL

\* A CAS is atomic: the mutex keeps its comparison true until it writes.
THEOREM CasIsAtomic == Spec => CasAtomic
<1>1. IInv /\ [Next]_vars =>
        [\A w \in Writers :
           CommitWrite(w) /\ writer[w].cmd.op = "Cas" /\ store' # store
             => CasMatched(store, writer[w].cmd.key, writer[w].cmd.expect)]_vars
  <2> SUFFICES ASSUME IInv, NEW w \in Writers, CommitWrite(w),
                      writer[w].cmd.op = "Cas", store' # store
               PROVE  CasMatched(store, writer[w].cmd.key, writer[w].cmd.expect)
    OBVIOUS
  <2>1. /\ IsStore(store) /\ writer[w].batch \in Batches
        /\ writer[w].pc = "prepared" /\ store' = WriteBatch(store, writer[w].batch)
    BY DEF IInv, TypeOK, CommitWrite
  <2>2. writer[w].batch.kvs # <<>>
    BY <2>1, EmptyBatch
  <2> QED BY <2>1, <2>2 DEF IInv, WriterInv
<1> QED BY <1>1, Invariance, PTL DEF Spec, CasAtomic

\* A replay that is not answered COMPACTED is exact: it misses nothing of
\* (from, cur] even if compaction commits while it is scanning.
THEOREM ReplayIsExact == Spec => ReplayExact
<1>1. IInv /\ [Next]_vars =>
        [\A r \in Readers :
           ReplayScan(r) /\ reader'[r].code = "OK"
           => reader'[r].events =
                FirstEvents(InRange(RecordsOf(log), reader[r].from, reader[r].cur,
                                    reader[r].filter), MaxEvents)]_vars
  <2> SUFFICES ASSUME IInv, NEW r \in Readers, ReplayScan(r),
                      reader'[r].code = "OK"
               PROVE  reader'[r].events =
                        FirstEvents(InRange(RecordsOf(log), reader[r].from,
                                            reader[r].cur, reader[r].filter),
                                    MaxEvents)
    OBVIOUS
  <2> DEFINE rd  == reader[r]
             res == ReplayEventsLocked(rd.seen, store.compact_rev, rd.from,
                                       rd.cur, rd.filter, MaxEvents)
  <2>1. /\ rd.pc = "scan"
        /\ reader'[r].code = res.code /\ reader'[r].events = res.events
    BY DEF ReplayScan, ReplayedReader, IInv, TypeOK
  <2>2. /\ log \in Seq(KVs) /\ DenseIn(store, log) /\ rd.from \in Nat
        /\ rd.cur \in Nat /\ store.compact_rev \in Nat
        /\ MaxEvents \in Nat \ {0}
    BY ConstantsAssumption DEF IInv, TypeOK, Image, IsStore
  <2>3. /\ rd.from >= store.compact_rev
        /\ res.events = FirstEvents(InRange(rd.seen, rd.from, rd.cur, rd.filter),
                                    MaxEvents)
    BY <2>1, <2>2 DEF ReplayEventsLocked
  <2>4. /\ rd.seen \subseteq RecordsOf(log)
        /\ \A i \in 1..Len(log) :
             i <= rd.cur /\ i > store.compact_rev => log[i] \in rd.seen
    BY <2>1 DEF IInv, ScanInv
  <2>5. \A h \in RecordsOf(log) : h.revision \in 1..Len(log) /\ h = log[h.revision]
    BY <2>2, HistByRevision
  <2> HIDE DEF rd, res
  <2>6. ASSUME NEW h \in RecordsOf(log), rd.from < h.revision, h.revision <= rd.cur
        PROVE  h \in rd.seen
    BY <2>2, <2>3, <2>4, <2>5, <2>6
  <2>7. InRange(rd.seen, rd.from, rd.cur, rd.filter)
          = InRange(RecordsOf(log), rd.from, rd.cur, rd.filter)
    BY <2>4, <2>6 DEF InRange
  <2> QED BY <2>1, <2>3, <2>7 DEF rd
<1> QED BY <1>1, Invariance, PTL DEF Spec, ReplayExact

(***************************************************************************)
(* A second invariant, on top of the first: versions and what is retained. *)
(***************************************************************************)

\* A prepared batch still carries the next versions.
BatchVersionInv ==
  \A w \in Writers :
    writer[w].pc = "prepared" => NextVersions(store, writer[w].batch)

\* Nothing that a compaction has scanned leaves history before it commits.
ScannedInv == comp.pc = "scanned" => comp.seen \subseteq store.hist

\* Versions grow along the log, and cfg/ has what was published, here, in what an
\* export has pinned and in the store that the saved snapshot would be loaded into.
RetainInv ==
  /\ VersionsGrow(log) /\ PublishedIn(store, log, published)
  /\ export.pc = "reading" =>
       VersionsGrow(export.log) /\ PublishedIn(export.pinned, export.log, export.published)
  /\ VersionsGrow(savedLog)
  /\ PublishedIn(LoadSnapshot(saved), savedLog, savedPublished)
  /\ BatchVersionInv
  /\ ScannedInv

\* A freshly opened store.
LEMMA InitRetainInv == Init => RetainInv
<1> SUFFICES ASSUME Init PROVE RetainInv
  OBVIOUS
<1>1. RecordsOf(<<>>) = {} /\ VersionsGrow(<<>>)
  BY DEF RecordsOf, VersionsGrow
<1>2. PublishedIn(EmptyStore, <<>>, {})
  BY <1>1 DEF PublishedIn, EmptyStore
<1>3. PublishedIn(LoadSnapshot(ExportSnapshot(EmptyStore)), <<>>, {})
  BY <1>2, EmptyImage, ReloadedPublished DEF Image
<1> QED BY <1>1, <1>2, <1>3
        DEF Init, RetainInv, BatchVersionInv, ScannedInv, IdleWriter, IdleExport

\* The next versions depend on the main index only.
LEMMA NextVersionsOfMain ==
  ASSUME NEW s, NEW t, t.main = s.main, NEW b, NextVersions(s, b)
  PROVE  NextVersions(t, b)
BY DEF NextVersions, NextVersion, Existed

\* Preparing and writing batches.
LEMMA WriterRetain ==
  ASSUME IInv, RetainInv, NEW w \in Writers,
         CommitWrite(w) \/ FailWrite(w) \/ \E c \in Cmds : BeginWrite(w, c)
  PROVE  RetainInv'
<1>1. ASSUME NEW c \in Cmds, BeginWrite(w, c) PROVE RetainInv'
  <2>1. NextVersions(store, Prepare(store, c))
    BY PrepareVersions, ConstantsAssumption
  <2> QED BY <2>1, <1>1
          DEF BeginWrite, history, RetainInv, BatchVersionInv, ScannedInv, IInv, TypeOK
<1>2. CASE FailWrite(w)
  BY <1>2 DEF FailWrite, history, RetainInv, BatchVersionInv, ScannedInv, IdleWriter,
              IInv, TypeOK
<1>3. CASE CommitWrite(w)
  <2> DEFINE b == writer[w].batch
  <2>1. /\ NextRevisions(store, b) /\ NextVersions(store, b) /\ mu = w
        /\ log \in Seq(KVs) /\ Image(store, log) /\ DenseIn(store, log)
    BY <1>3 DEF IInv, TypeOK, WriterInv, CommitWrite, RetainInv, BatchVersionInv, Image
  <2>2. /\ writer' = [writer EXCEPT ![w] = IdleWriter]
        /\ store' = WriteBatch(store, b) /\ log' = log \o b.kvs
        /\ published' = PublishedAfter(published, b)
        /\ UNCHANGED <<comp, reader, export, saved, savedLog, savedPublished>>
    BY <1>3 DEF CommitWrite, PublishedAfter
  <2> HIDE DEF b
  <2>3. VersionsGrow(log') /\ PublishedIn(store', log', published')
    BY <2>1, <2>2, WriteBatchPublished DEF RetainInv
  <2>4. store.hist \subseteq store'.hist
    BY <2>1, <2>2, WriteBatchKeepsHist
  <2>5. BatchVersionInv'
    BY <2>1, <2>2 DEF IInv, TypeOK, WriterInv, BatchVersionInv, IdleWriter
  <2>6. ScannedInv'
    BY <2>2, <2>4 DEF RetainInv, ScannedInv
  <2> QED BY <2>2, <2>3, <2>5, <2>6 DEF RetainInv
<1> QED BY <1>1, <1>2, <1>3

\* Compaction takes records and their versions away together.
LEMMA CompactionRetain ==
  ASSUME IInv, RetainInv, CompactionScan \/ \E ok \in BOOLEAN : CompactionCommit(ok)
  PROVE  RetainInv'
<1>1. CASE CompactionScan
  BY <1>1 DEF CompactionScan, history, RetainInv, BatchVersionInv, ScannedInv
<1>2. ASSUME NEW ok \in BOOLEAN, CompactionCommit(ok) PROVE RetainInv'
  <2> DEFINE dropped == Excess(comp.seen, KeepVersions)
             t == CompactionWrite(store, dropped)
  <2>1. /\ comp' = [pc |-> "idle", seen |-> {}]
        /\ store' = IF ok THEN t ELSE store
        /\ UNCHANGED <<mu, writer, reader, export, saved, log, published, savedLog,
                       savedPublished>>
    BY <1>2 DEF CompactionCommit, history
  <2>2. dropped \subseteq RecordsOf(log) /\ log \in Seq(KVs) /\ DenseIn(store, log)
    BY DEF IInv, TypeOK, ScanInv, Excess, Image
  <2> HIDE DEF dropped
  <2>3. PublishedIn(t, log, published)
    BY <2>2, CompactionPublished DEF RetainInv
  <2>4. t.main = store.main
    BY CompactionKeepsMain
  <2> HIDE DEF t
  <2>5. store'.main = store.main /\ PublishedIn(store', log, published)
    BY <2>1, <2>3, <2>4 DEF RetainInv
  <2>6. BatchVersionInv'
    BY <2>1, <2>5, NextVersionsOfMain DEF RetainInv, BatchVersionInv
  <2> QED BY <2>1, <2>5, <2>6 DEF RetainInv, ScannedInv
<1> QED BY <1>1, <1>2

\* Snapshots and restarts.
LEMMA SnapshotRetain ==
  ASSUME IInv, RetainInv,
         ExportBegin \/ ExportEnd \/ Restart \/ RestartFromSnapshot \/ \E c \in Cmds : InstallSnapshot(c)
  PROVE  RetainInv'
<1>1. CASE ExportBegin
  BY <1>1 DEF ExportBegin, history, RetainInv, BatchVersionInv, ScannedInv
<1>2. CASE Restart
  BY <1>2 DEF Restart, ThreadsLost, RetainInv, BatchVersionInv, ScannedInv, IdleWriter, IdleExport
<1>3. CASE RestartFromSnapshot
  BY <1>3
     DEF RestartFromSnapshot, ThreadsLost, RetainInv, BatchVersionInv, ScannedInv, IdleWriter,
         IdleExport
<1>4. ASSUME NEW c \in Cmds, InstallSnapshot(c) PROVE RetainInv'
  <2> DEFINE b     == Prepare(store, c)
             ahead == WriteBatch(store, b)
  <2>1. /\ NoSharedHolder /\ store' = LoadSnapshot(ExportSnapshot(ahead))
        /\ log' = log \o b.kvs /\ published' = PublishedAfter(published, b)
        /\ UNCHANGED <<mu, writer, comp, reader, export, saved, savedLog, savedPublished>>
    BY <1>4 DEF InstallSnapshot, PublishedAfter
  <2>2. /\ c \in Commands /\ log \in Seq(KVs) /\ Image(store, log) /\ IsStore(store)
        /\ VersionsGrow(log) /\ PublishedIn(store, log, published)
    BY ConstantsAssumption DEF IInv, TypeOK, RetainInv
  <2>3. NextRevisions(store, b) /\ NextVersions(store, b)
    BY <2>2, PrepareType, PrepareVersions
  <2> HIDE DEF b
  <2>4. Image(ahead, log \o b.kvs)
    BY <2>2, <2>3, WriteBatchImage DEF NextRevisions
  <2>5. VersionsGrow(log') /\ PublishedIn(ahead, log', published')
    BY <2>1, <2>2, <2>3, WriteBatchPublished
  <2> HIDE DEF ahead
  <2>6. PublishedIn(store', log', published')
    BY <2>1, <2>4, <2>5, ReloadedPublished DEF Image
  <2>7. BatchVersionInv' /\ ScannedInv'
    BY <2>1 DEF BatchVersionInv, ScannedInv, NoSharedHolder
  <2> QED BY <2>1, <2>5, <2>6, <2>7 DEF RetainInv
<1>5. CASE ExportEnd
  <2>1. /\ export.pc = "reading" /\ export' = IdleExport
        /\ saved' = ExportSnapshot(export.pinned)
        /\ savedLog' = export.log /\ savedPublished' = export.published
        /\ UNCHANGED <<store, mu, writer, comp, reader, log, published>>
    BY <1>5 DEF ExportEnd
  <2>2. /\ Image(export.pinned, export.log) /\ VersionsGrow(export.log)
        /\ PublishedIn(export.pinned, export.log, export.published)
    BY <2>1 DEF IInv, ExportInv, RetainInv
  <2>3. PublishedIn(LoadSnapshot(saved'), savedLog', savedPublished')
    BY <2>1, <2>2, ReloadedPublished DEF Image
  <2> QED BY <2>1, <2>2, <2>3 DEF IdleExport, RetainInv, BatchVersionInv, ScannedInv
<1> QED BY <1>1, <1>2, <1>3, <1>4, <1>5

\* A replay reads only.
LEMMA ReaderRetain ==
  ASSUME RetainInv, UNCHANGED <<store, mu, writer, comp, export, saved, history>>
  PROVE  RetainInv'
BY DEF history, RetainInv, BatchVersionInv, ScannedInv

\* Every step preserves the second invariant.
LEMMA NextRetainInv == IInv /\ RetainInv /\ [Next]_vars => RetainInv'
<1> SUFFICES ASSUME IInv, RetainInv, [Next]_vars PROVE RetainInv'
  OBVIOUS
<1>1. CASE \E w \in Writers :
             CommitWrite(w) \/ FailWrite(w) \/ \E c \in Cmds : BeginWrite(w, c)
  BY <1>1, WriterRetain
<1>2. CASE CompactionScan \/ \E ok \in BOOLEAN : CompactionCommit(ok)
  BY <1>2, CompactionRetain
<1>3. CASE ExportBegin \/ ExportEnd \/ Restart \/ RestartFromSnapshot \/ \E c \in Cmds : InstallSnapshot(c)
  BY <1>3, SnapshotRetain
<1>4. CASE UNCHANGED <<store, mu, writer, comp, export, saved, history>>
  BY <1>4, ReaderRetain
<1> QED BY <1>1, <1>2, <1>3, <1>4
        DEF Next, vars, ReplayReadCurrent, ReplayIterator, ReplayScan

\* The second invariant holds in every reachable state.
LEMMA RetainInvariance == Spec => []RetainInv
BY InitRetainInv, NextRetainInv, Invariance, PTL DEF Spec

\* A published version is found by GetConfig, alone, for as long as its record is
\* retained: batches that repeat versions, compaction from an old scan, snapshots
\* and crashes included.
THEOREM PublishedStaysReadable == Spec => []PublishedReadable
<1>1. IInv /\ RetainInv => PublishedReadable
  <2> SUFFICES ASSUME IInv, RetainInv PROVE PublishedReadable
    OBVIOUS
  <2>1. PublishedIn(store, log, published) /\ log \in Seq(KVs)
    BY DEF IInv, TypeOK, RetainInv
  <2>2. store.cfg \subseteq published
    BY <2>1 DEF PublishedIn
  <2> QED BY <2>1, <2>2, PublishedIsFound DEF PublishedReadable
<1> QED BY <1>1, Invariance, RetainInvariance, PTL

\* Compaction drops a record only while KeepVersions newer ones of its key stay,
\* although writes go on between its scan and its batch.
THEOREM CompactionKeepsVersions == Spec => KeepsVersions
<1>1. IInv /\ RetainInv /\ [Next]_vars =>
        [CompactionCommit(TRUE) =>
           \A h \in store.hist \ store'.hist :
             Cardinality({x \in store'.hist :
                            x.key = h.key /\ x.revision > h.revision})
               >= KeepVersions]_vars
  <2> SUFFICES ASSUME IInv, RetainInv, CompactionCommit(TRUE),
                      NEW h \in store.hist \ store'.hist
               PROVE  Cardinality({x \in store'.hist :
                                     x.key = h.key /\ x.revision > h.revision})
                        >= KeepVersions
    OBVIOUS
  <2> DEFINE dropped == Excess(comp.seen, KeepVersions)
             Newer(S) == {x \in S : x.key = h.key /\ x.revision > h.revision}
  <2>1. /\ log \in Seq(KVs) /\ DenseIn(store, log) /\ KeepVersions \in Int
        /\ comp.seen \subseteq store.hist /\ comp.seen \subseteq RecordsOf(log)
        /\ store' = CompactionWrite(store, dropped)
    BY ConstantsAssumption
       DEF IInv, TypeOK, Image, RetainInv, ScannedInv, ScanInv, CompactionCommit
  <2>2. /\ \A i \in 1..Len(log) : log[i].revision = i
        /\ \A x \in RecordsOf(log) : x.revision \in 1..Len(log) /\ x = log[x.revision]
        /\ \A x \in store.hist : x.revision \in 1..Len(log) /\ x = log[x.revision]
    BY <2>1, HistByRevision DEF DenseIn
  <2>3. dropped \subseteq comp.seen
    BY DEF Excess
  <2>4. store'.hist = store.hist \ dropped
    <3>1. CASE dropped = {}
      BY <3>1, <2>1 DEF CompactionWrite
    <3>2. CASE dropped # {}
      <4>1. store'.hist = {x \in store.hist : \A d \in dropped : ~SameVersionKey(x, d)}
        BY <3>2, <2>1 DEF CompactionWrite
      <4> HIDE DEF dropped
      <4> QED BY <4>1, <2>1, <2>2, <2>3 DEF SameVersionKey
    <3> QED BY <3>1, <3>2
  <2>5. h \in dropped
    BY <2>4
  <2>6. Cardinality(Newer(comp.seen \ dropped)) >= KeepVersions
    BY <2>1, <2>2, <2>5, ExcessKeeps
  <2>7. Newer(comp.seen \ dropped) \subseteq Newer(store'.hist)
    BY <2>1, <2>4
  <2>8. IsFiniteSet(Newer(store'.hist))
    <3>1. Newer(store'.hist) \subseteq RecordsOf(log)
      BY <2>1, <2>4 DEF DenseIn
    <3> HIDE DEF Newer
    <3> QED BY <3>1, <2>1, RecordsFinite, FS_Subset
  <2> HIDE DEF Newer, dropped
  <2>9. /\ Cardinality(Newer(comp.seen \ dropped)) <= Cardinality(Newer(store'.hist))
        /\ Cardinality(Newer(store'.hist)) \in Nat
        /\ Cardinality(Newer(comp.seen \ dropped)) \in Nat
    BY <2>7, <2>8, FS_Subset, FS_CardinalityType
  <2>10. Cardinality(Newer(store'.hist)) >= KeepVersions
    BY <2>1, <2>6, <2>9
  <2> QED BY <2>10 DEF Newer
<1> QED BY <1>1, Invariance, RetainInvariance, PTL DEF Spec, KeepsVersions
=============================================================================
