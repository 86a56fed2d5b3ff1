--------------------------- MODULE ConcurrentStore ---------------------------
(***************************************************************************)
(* One node's store under the threads that share it.                       *)
(*   - Writers apply commands.  LocalNode::Apply holds its mutex over the  *)
(*     whole of ApplyCmdToStore, and braft calls on_apply from one thread; *)
(*     mu is that exclusion.  A write reads the store, builds a WriteBatch *)
(*     and only then writes it, so it is two steps here.                   *)
(*   - The compaction thread of Server::StartCompactionLoop scans v/ with  *)
(*     an iterator and later writes one batch of deletions.                *)
(*   - Watch calls replay events: they read the current revision, make an  *)
(*     iterator, and then read compact_rev and scan.                       *)
(*   - An export pins a LevelDB snapshot and iterates over it while writes *)
(*     and compaction go on; braft runs one export at a time.              *)
(*   - Loading a snapshot takes db_mu_ exclusively, everything else takes  *)
(*     it shared.                                                          *)
(* log is a history variable: log[r] is the record written at revision r.  *)
(* published is the subset of it that was written by Publish or Rollback.  *)
(* savedLog and savedPublished are their values when the last export was   *)
(* pinned; an export under way carries its own.                            *)
(***************************************************************************)
EXTENDS Store

CONSTANTS
  Writers,       \* threads that apply commands
  Readers,       \* threads that replay events for a Watch call
  Cmds,          \* the commands clients send
  Filters,       \* the key filters of the Watch calls ({}: any key)
  KeepVersions,  \* keep_versions of the compaction loop
  MaxEvents,     \* max_events of a replay
  RevisionBound, \* bound: no write is started that would exceed it
  NoWriter       \* nobody holds the write mutex

ASSUME ConstantsAssumption ==
  /\ NoWriter \notin Writers
  /\ \A c \in Cmds : c \in Commands
  /\ KeepVersions \in Int /\ MaxEvents \in Nat \ {0} /\ RevisionBound \in Nat

VARIABLES
  store,      \* the content of LevelDB
  mu,         \* who holds the write mutex
  writer,     \* the writing threads: command and batch in progress
  comp,       \* the compaction thread
  reader,     \* the replaying threads
  export,     \* the export under way: what it pinned, and the history then
  saved,      \* the last exported snapshot
  log,        \* history: the records by revision
  published,  \* history: the records written with a cfg/ entry
  savedLog,       \* history: log when saved was exported
  savedPublished  \* history: published when saved was exported

history == <<log, published, savedLog, savedPublished>>

vars == <<store, mu, writer, comp, reader, export, saved, history>>

IdleWriter == [pc |-> "idle", cmd |-> [op |-> "Unknown"],
               batch |-> Refused("INTERNAL")]

Replaying(pc, from, cur, filter, seen) ==
  [pc |-> pc, from |-> from, cur |-> cur, filter |-> filter, seen |-> seen,
   code |-> "OK", events |-> <<>>]

ReplayedReader(code, events) ==
  [pc |-> "idle", from |-> 0, cur |-> 0, filter |-> {}, seen |-> {},
   code |-> code, events |-> events]

IdleReader == ReplayedReader("OK", <<>>)

IdleExport == [pc |-> "idle", pinned |-> EmptyStore, log |-> <<>>,
               published |-> {}]

Init ==
  /\ store = EmptyStore
  /\ mu = NoWriter
  /\ writer = [w \in Writers |-> IdleWriter]
  /\ comp = [pc |-> "idle", seen |-> {}]
  /\ reader = [r \in Readers |-> IdleReader]
  /\ export = IdleExport
  /\ saved = ExportSnapshot(EmptyStore)
  /\ log = <<>>
  /\ published = {} /\ savedLog = <<>> /\ savedPublished = {}

-----------------------------------------------------------------------------
(* Writers *)

\* Mutant: the mutex is not waited for.
BeginWriteUnlocked(w, cmd) ==
  /\ writer[w].pc = "idle"
  /\ store.revision + Len(Prepare(store, cmd).kvs) <= RevisionBound
  /\ mu' = w
  /\ writer' = [writer EXCEPT ![w] = [pc |-> "prepared", cmd |-> cmd,
                                       batch |-> Prepare(store, cmd)]]
  /\ UNCHANGED <<store, comp, reader, export, saved, history>>

\* Take the mutex, read what the command needs and build its batch.
BeginWrite(w, cmd) ==
  /\ mu = NoWriter
  /\ writer[w].pc = "idle"
  /\ store.revision + Len(Prepare(store, cmd).kvs) <= RevisionBound
  /\ mu' = w
  /\ writer' = [writer EXCEPT ![w] = [pc |-> "prepared", cmd |-> cmd,
                                       batch |-> Prepare(store, cmd)]]
  /\ UNCHANGED <<store, comp, reader, export, saved, history>>

\* db_->Write succeeds (or there is nothing to write), release the mutex.
CommitWrite(w) ==
  LET b == writer[w].batch
  IN  /\ writer[w].pc = "prepared"
      /\ mu' = NoWriter
      /\ writer' = [writer EXCEPT ![w] = IdleWriter]
      /\ store' = WriteBatch(store, b)
      /\ log' = log \o b.kvs
      /\ published' = IF b.cfg THEN published \cup RecordsOf(b.kvs)
                      ELSE published
      /\ UNCHANGED <<comp, reader, export, saved, savedLog, savedPublished>>

\* db_->Write fails: INTERNAL, and nothing of the batch is in the store.
FailWrite(w) ==
  /\ writer[w].pc = "prepared"
  /\ writer[w].batch.kvs # <<>>
  /\ mu' = NoWriter
  /\ writer' = [writer EXCEPT ![w] = IdleWriter]
  /\ UNCHANGED <<store, comp, reader, export, saved, history>>

-----------------------------------------------------------------------------
(* Compaction *)

CompactionScan ==
  /\ comp.pc = "idle"
  /\ comp' = [pc |-> "scanned", seen |-> store.hist]
  /\ UNCHANGED <<store, mu, writer, reader, export, saved, history>>

\* The status of this write is ignored by the code; ok = FALSE is a failure.
CompactionCommit(ok) ==
  /\ comp.pc = "scanned"
  /\ comp' = [pc |-> "idle", seen |-> {}]
  /\ store' = IF ok THEN CompactionWrite(store, Excess(comp.seen, KeepVersions))
              ELSE store
  /\ UNCHANGED <<mu, writer, reader, export, saved, history>>

-----------------------------------------------------------------------------
(* Event replay *)

\* Watch reads CurrentRevision before it calls ReplayEvents.
ReplayReadCurrent(r, from, filter) ==
  /\ reader[r].pc = "idle"
  /\ reader' = [reader EXCEPT ![r] = Replaying("current", from, store.revision,
                                               filter, {})]
  /\ UNCHANGED <<store, mu, writer, comp, export, saved, history>>

\* ReplayEvents takes db_mu_ shared and makes its iterator.
ReplayIterator(r) ==
  /\ reader[r].pc = "current"
  /\ reader' = [reader EXCEPT ![r] =
                  Replaying("scan", reader[r].from, reader[r].cur,
                            reader[r].filter, store.hist)]
  /\ UNCHANGED <<store, mu, writer, comp, export, saved, history>>

\* It reads compact_rev, scans the iterator and returns.
ReplayScan(r) ==
  LET res == ReplayEventsLocked(reader[r].seen, store.compact_rev,
               reader[r].from, reader[r].cur, reader[r].filter, MaxEvents)
  IN  /\ reader[r].pc = "scan"
      /\ reader' = [reader EXCEPT ![r] = ReplayedReader(res.code, res.events)]
      /\ UNCHANGED <<store, mu, writer, comp, export, saved, history>>

-----------------------------------------------------------------------------
(* Snapshots *)

\* ExportSnapshot takes db_mu_ shared and pins a LevelDB snapshot.
ExportBegin ==
  /\ export.pc = "idle"
  /\ export' = [pc |-> "reading", pinned |-> store, log |-> log,
                published |-> published]
  /\ UNCHANGED <<store, mu, writer, comp, reader, saved, history>>

\* Mutant: the revision is of the pinned snapshot, the records are read from
\* the database itself.
ExportEndUnpinned ==
  /\ export.pc = "reading"
  /\ export' = IdleExport
  /\ saved' = [ExportSnapshot(store) EXCEPT !.revision = export.pinned.revision]
  /\ savedLog' = export.log /\ savedPublished' = export.published
  /\ UNCHANGED <<store, mu, writer, comp, reader, log, published>>

\* Its iterator has read the revision, k/ and cfg/ of the pinned snapshot; the
\* snapshot file is written.
ExportEnd ==
  /\ export.pc = "reading"
  /\ export' = IdleExport
  /\ saved' = ExportSnapshot(export.pinned)
  /\ savedLog' = export.log /\ savedPublished' = export.published
  /\ UNCHANGED <<store, mu, writer, comp, reader, log, published>>

\* db_mu_ can be taken exclusively.
NoSharedHolder ==
  /\ \A w \in Writers : writer[w].pc = "idle"
  /\ comp.pc = "idle"
  /\ \A r \in Readers : reader[r].pc # "scan"
  /\ export.pc = "idle"

\* A running follower installs the snapshot of a replica that is one command
\* ahead: the data directory is wiped and rebuilt under the exclusive lock.
InstallSnapshot(cmd) ==
  LET b     == Prepare(store, cmd)
      ahead == WriteBatch(store, b)
  IN  /\ NoSharedHolder
      /\ ahead.revision <= RevisionBound
      /\ store' = LoadSnapshot(ExportSnapshot(ahead))
      /\ log' = log \o b.kvs
      /\ published' = IF b.cfg THEN published \cup RecordsOf(b.kvs)
                      ELSE published
      /\ UNCHANGED <<mu, writer, comp, reader, export, saved, savedLog,
                     savedPublished>>

\* The process stops in the middle of anything: prepared batches, scans,
\* replays and an export are gone, LevelDB and the snapshot files stay.
ThreadsLost ==
  /\ mu' = NoWriter
  /\ writer' = [w \in Writers |-> IdleWriter]
  /\ comp' = [pc |-> "idle", seen |-> {}]
  /\ reader' = [r \in Readers |-> IdleReader]
  /\ export' = IdleExport
  /\ UNCHANGED <<saved, savedLog, savedPublished>>

\* Restart of a single node: it goes on with the content of LevelDB.
Restart == ThreadsLost /\ UNCHANGED <<store, log, published>>

\* Restart of a cluster node that has a snapshot: on_snapshot_load goes back
\* to it, and braft applies the later entries of its log again.
RestartFromSnapshot ==
  /\ saved.revision > 0
  /\ ThreadsLost
  /\ store' = LoadSnapshot(saved)
  /\ log' = savedLog /\ published' = savedPublished

Next ==
  \/ \E w \in Writers, c \in Cmds : BeginWrite(w, c)
  \/ \E w \in Writers : CommitWrite(w)
  \/ \E w \in Writers : FailWrite(w)
  \/ CompactionScan
  \/ \E ok \in BOOLEAN : CompactionCommit(ok)
  \/ \E r \in Readers, from \in 0..store.revision, f \in Filters :
       ReplayReadCurrent(r, from, f)
  \/ \E r \in Readers : ReplayIterator(r)
  \/ \E r \in Readers : ReplayScan(r)
  \/ ExportBegin
  \/ ExportEnd
  \/ \E c \in Cmds : InstallSnapshot(c)
  \/ Restart
  \/ RestartFromSnapshot

Spec == Init /\ [][Next]_vars

-----------------------------------------------------------------------------
(* Properties *)

\* Every variable has its type.
TypeOK ==
  /\ IsStore(store)
  /\ mu \in Writers \cup {NoWriter}
  /\ writer \in [Writers -> [pc: {"idle", "prepared"}, cmd: Commands,
                              batch: Batches]]
  /\ comp \in [pc: {"idle", "scanned"}, seen: SUBSET KVs]
  /\ DOMAIN reader = Readers
  /\ \A r \in Readers :
       /\ reader[r].pc \in {"idle", "current", "scan"}
       /\ reader[r].seen \subseteq KVs
       /\ reader[r].from \in Nat /\ reader[r].cur \in Nat
  /\ export.pc \in {"idle", "reading"} /\ IsStore(export.pinned)
  /\ export.log \in Seq(KVs) /\ export.published \subseteq KVs
  /\ saved \in Snapshots
  /\ log \in Seq(KVs) /\ savedLog \in Seq(KVs)
  /\ published \subseteq KVs /\ savedPublished \subseteq KVs

\* Two writes never get the same revision and none is skipped: the read of
\* meta/revision and the write of the batch that advances it are separate
\* steps of Put, Delete, CAS, BatchPut, Publish and Rollback.
RevisionsDense == DenseIn(store, log)

\* compact_rev really is a floor: above it the history has no hole.  This is
\* what the resume check "from >= compact_rev" of Watch and ReplayEvents
\* relies on, across concurrent compaction, failed writes and snapshot loads.
NoHoleAboveCompactRev == NoHole(store, log)

\* The main index holds the last record written for every key, also after a
\* batch that names a key twice and after a snapshot was loaded.
MainIsLatest == store.main = Latest(log)

\* Compaction keeps the record behind every key of the main index, so a key's
\* newest change can always be replayed or exported.
NewestRetained == NewestIn(store)

\* A published version stays readable through GetConfig for as long as
\* compaction retains its record, and cfg/ never answers with anything that
\* was not published under that key and version.
PublishedReadable ==
  /\ store.cfg \subseteq published
  /\ \A p \in published :
       p \in store.hist => GetConfigLocked(store, p.key, p.version).found = {p}

\* An exported snapshot is one point of the log: its revision and its records
\* belong together although writes and compaction go on while it is read.
SnapshotConsistent ==
  /\ SnapshotOf(saved, savedLog)
  /\ saved.cfg_kvs \subseteq savedPublished

\* A replay that is not answered COMPACTED returns exactly the first MaxEvents
\* changes of (from, cur] that match, although compaction may commit between
\* its iterator and its read of compact_rev.
ReplayExact ==
  [][\A r \in Readers :
       ReplayScan(r) /\ reader'[r].code = "OK"
       => reader'[r].events =
            FirstEvents(InRange(RecordsOf(log), reader[r].from, reader[r].cur,
                                reader[r].filter), MaxEvents)]_vars

\* A CAS writes only if its expectation holds of the store it writes to, not
\* just of the one it read.
CasAtomic ==
  [][\A w \in Writers :
       CommitWrite(w) /\ writer[w].cmd.op = "Cas" /\ store' # store
       => CasMatched(store, writer[w].cmd.key, writer[w].cmd.expect)]_vars

\* Compaction takes a record away only while KeepVersions newer records of the
\* same key remain, counted in the store it writes to.
KeepsVersions ==
  [][CompactionCommit(TRUE) =>
     \A h \in store.hist \ store'.hist :
       Cardinality({x \in store'.hist :
                      x.key = h.key /\ x.revision > h.revision})
         >= KeepVersions]_vars
=============================================================================
