-------------------------------- MODULE Store --------------------------------
(***************************************************************************)
(* The multi-version store (src/store/store.cpp) and the translation of    *)
(* replicated commands into store writes (src/store/store_ops.cpp), as     *)
(* operators on a store value.  A store value is the content of the        *)
(* LevelDB instance:                                                       *)
(*   main         k/{key}          newest record of each key               *)
(*   hist         v/{rev}/{key}    every retained record, tombstones too   *)
(*   cfg          cfg/{key}/{ver}  published configuration versions        *)
(*   revision     meta/revision    last revision handed out                *)
(*   compact_rev  meta/compact_rev largest revision deleted from v/        *)
(* LevelDB itself is external: a WriteBatch takes effect as a whole or     *)
(* not at all, and an iterator reads the content at the time it was made.  *)
(* The three key encodings of storekey.cpp are injective, so v/ and cfg/   *)
(* are sets of records told apart by <<revision, key>> and <<key, ver>>.   *)
(***************************************************************************)
EXTENDS Integers, Sequences, FiniteSets

CONSTANTS
  Keys,      \* the keys clients use
  Values,    \* the values clients write
  EmptyStr   \* the empty string: value of a tombstone, "absent" for a CAS

ASSUME ValuesAssumption == EmptyStr \in Values

\* A KV message (proto KV): one version of one key.
KVs == [key: Keys, value: Values, version: Nat \ {0}, revision: Nat \ {0},
        deleted: BOOLEAN]

\* A RaftCmd message: one replicated command.
Putting == [key: Keys, value: Values]

Commands ==
  [op: {"Put", "Publish"}, key: Keys, value: Values]
    \cup [op: {"Delete"}, key: Keys]
    \cup [op: {"Cas"}, key: Keys, expect: Values, value: Values]
    \cup [op: {"Rollback"}, key: Keys, target: Int]
    \cup [op: {"BatchPut"}, puts: Seq(Putting)]
    \cup [op: {"Unknown"}]

IsStore(s) ==
  /\ s \in [main: {s.main}, hist: SUBSET KVs, cfg: SUBSET KVs, revision: Nat,
            compact_rev: Nat]
  /\ DOMAIN s.main \subseteq Keys
  /\ s.main \in [DOMAIN s.main -> KVs]

EmptyStore == [main |-> [k \in {} |-> k], hist |-> {}, cfg |-> {},
               revision |-> 0, compact_rev |-> 0]

-----------------------------------------------------------------------------
(* Reads *)

\* ReadMainLocked finds a record, possibly a tombstone.
Existed(s, key) == key \in DOMAIN s.main

\* Absent for a reader and for a CAS: no record, or a tombstone.
Absent(s, key) == ~Existed(s, key) \/ s.main[key].deleted

\* GetLocked: the code and the records found (at most one).
GetLocked(s, key) ==
  IF Absent(s, key) THEN [code |-> "KEY_NOT_FOUND", found |-> {}]
  ELSE [code |-> "OK", found |-> {s.main[key]}]

\* GetConfigLocked: version <= 0 asks for the current value.
GetConfigLocked(s, key, version) ==
  LET found == {c \in s.cfg : c.key = key /\ c.version = version /\ ~c.deleted}
  IN  IF version <= 0 THEN GetLocked(s, key)
      ELSE [code |-> IF found = {} THEN "VERSION_NOT_FOUND" ELSE "OK",
            found |-> found]

-----------------------------------------------------------------------------
(* Writes: each command is first turned into the WriteBatch it will issue.  *)
(* kvs is the sequence of records put under k/ and v/ (meta/revision is set *)
(* to the last one's), cfg says whether they also go under cfg/.            *)

\* Mutant: the version of a new key starts at 0.
NextVersionFromZero(s, key) ==
  IF Existed(s, key) THEN s.main[key].version + 1 ELSE 0

NextVersion(s, key) == IF Existed(s, key) THEN s.main[key].version + 1 ELSE 1

NewKV(s, key, value, rev) ==
  [key |-> key, value |-> value, version |-> NextVersion(s, key),
   revision |-> rev, deleted |-> FALSE]

Batches == [code: {"OK", "CAS_FAILED", "VERSION_NOT_FOUND", "INTERNAL"},
            kvs: Seq(KVs), cfg: BOOLEAN]

Refused(code) == [code |-> code, kvs |-> <<>>, cfg |-> FALSE]

PutLocked(s, key, value) ==
  [code |-> "OK", kvs |-> <<NewKV(s, key, value, s.revision + 1)>>, cfg |-> FALSE]

\* A delete writes a tombstone and takes a revision even if the key is absent.
DeleteLocked(s, key) ==
  [code |-> "OK", cfg |-> FALSE,
   kvs  |-> <<[NewKV(s, key, EmptyStr, s.revision + 1) EXCEPT !.deleted = TRUE]>>]

CasMatched(s, key, expect) ==
  IF expect = EmptyStr THEN Absent(s, key)
  ELSE ~Absent(s, key) /\ s.main[key].value = expect

\* Mutant: expecting an absent key is not checked.
CompareAndSwapUnchecked(s, key, expect, value) ==
  IF expect = EmptyStr \/ CasMatched(s, key, expect) THEN PutLocked(s, key, value)
  ELSE Refused("CAS_FAILED")

CompareAndSwapLocked(s, key, expect, value) ==
  IF CasMatched(s, key, expect) THEN PutLocked(s, key, value)
  ELSE Refused("CAS_FAILED")

\* Every entry of a batch reads its version from the committed main index, so
\* a key that occurs twice in one batch gets the same version twice.
BatchPutLocked(s, puts) ==
  [code |-> "OK", cfg |-> FALSE,
   kvs  |-> [i \in 1..Len(puts) |->
               NewKV(s, puts[i].key, puts[i].value, s.revision + i)]]

PublishLocked(s, key, value) ==
  [code |-> "OK", kvs |-> <<NewKV(s, key, value, s.revision + 1)>>, cfg |-> TRUE]

\* Publishes the value of an earlier configuration version as a new version.
RollbackLocked(s, key, target) ==
  LET got == GetConfigLocked(s, key, target)
  IN  IF got.code # "OK" THEN Refused("VERSION_NOT_FOUND")
      ELSE PublishLocked(s, key, (CHOOSE c \in got.found : TRUE).value)

\* The WriteBatch that ApplyCmdToStore issues for a command, or its refusal.
Prepare(s, cmd) ==
  CASE cmd.op = "Put"      -> PutLocked(s, cmd.key, cmd.value)
    [] cmd.op = "Delete"   -> DeleteLocked(s, cmd.key)
    [] cmd.op = "BatchPut" -> BatchPutLocked(s, cmd.puts)
    [] cmd.op = "Cas"      -> CompareAndSwapLocked(s, cmd.key, cmd.expect, cmd.value)
    [] cmd.op = "Publish"  -> PublishLocked(s, cmd.key, cmd.value)
    [] cmd.op = "Rollback" -> RollbackLocked(s, cmd.key, cmd.target)
    [] OTHER               -> Refused("INTERNAL")

\* The position of the last record of a key in a sequence of records.
LastIndex(kvs, key) ==
  CHOOSE i \in DOMAIN kvs :
    kvs[i].key = key /\ \A j \in DOMAIN kvs : kvs[j].key = key => j <= i

KeysOf(kvs) == {kvs[i].key : i \in DOMAIN kvs}

RecordsOf(kvs) == {kvs[i] : i \in DOMAIN kvs}

\* Mutant: the first put of a key in a batch wins.
MainAfterFirstPut(main, kvs) ==
  [k \in DOMAIN main \cup KeysOf(kvs) |->
     IF k \in KeysOf(kvs)
     THEN kvs[CHOOSE i \in DOMAIN kvs :
                kvs[i].key = k /\ \A j \in 1..(i - 1) : kvs[j].key # k]
     ELSE main[k]]

\* The k/ puts of a batch, in order: a later put of a key wins.
MainAfter(main, kvs) ==
  [k \in DOMAIN main \cup KeysOf(kvs) |->
     IF k \in KeysOf(kvs) THEN kvs[LastIndex(kvs, k)] ELSE main[k]]

SameVersionKey(a, b) == a.revision = b.revision /\ a.key = b.key

SameConfigKey(a, b) == a.key = b.key /\ a.version = b.version

\* db_->Write of a prepared batch that succeeds.
WriteBatch(s, b) ==
  LET new == RecordsOf(b.kvs)
  IN  [main |-> MainAfter(s.main, b.kvs),
       hist |-> {h \in s.hist : \A n \in new : ~SameVersionKey(h, n)} \cup new,
       cfg  |-> IF b.cfg
                THEN {c \in s.cfg : \A n \in new : ~SameConfigKey(c, n)} \cup new
                ELSE s.cfg,
       revision |-> s.revision + Len(b.kvs),
       compact_rev |-> s.compact_rev]

\* MakeEvent: the watch event of a record.
MakeEvent(kv) ==
  [key |-> kv.key, value |-> kv.value, version |-> kv.version,
   revision |-> kv.revision, type |-> IF kv.deleted THEN "DELETE" ELSE "PUT"]

\* ApplyCmdToStore.  ok is the status of db_->Write; an empty batch writes
\* nothing and cannot fail.
ApplyCmdToStore(s, cmd, ok) ==
  LET b == Prepare(s, cmd)
  IN  IF b.code = "OK" /\ b.kvs # <<>> /\ ~ok
      THEN [store |-> s, code |-> "INTERNAL", events |-> <<>>]
      ELSE [store |-> WriteBatch(s, b), code |-> b.code,
            events |-> [i \in DOMAIN b.kvs |-> MakeEvent(b.kvs[i])]]

-----------------------------------------------------------------------------
(* Compaction, event replay, snapshots *)

\* Mutant: one version too few is kept.
ExcessOffByOne(seen, keep) ==
  {h \in seen :
     Cardinality({x \in seen : x.key = h.key /\ x.revision > h.revision})
       >= (IF keep < 1 THEN 0 ELSE keep - 1)}

\* The v/ records that CompactionLocked drops, given the ones its iterator
\* sees: those with at least keep newer records of the same key.
Excess(seen, keep) ==
  {h \in seen :
     Cardinality({x \in seen : x.key = h.key /\ x.revision > h.revision})
       >= (IF keep < 1 THEN 1 ELSE keep)}

MaxRevision(recs) ==
  (CHOOSE h \in recs : \A x \in recs : x.revision <= h.revision).revision

\* The WriteBatch of CompactionLocked: the dropped records leave v/ and cfg/
\* and compact_rev rises to the largest of them.
CompactionWrite(s, dropped) ==
  IF dropped = {} THEN s
  ELSE [main |-> s.main,
        hist |-> {h \in s.hist : \A d \in dropped : ~SameVersionKey(h, d)},
        cfg  |-> {c \in s.cfg : \A d \in dropped : ~SameConfigKey(c, d)},
        revision |-> s.revision,
        compact_rev |-> IF s.compact_rev > MaxRevision(dropped)
                        THEN s.compact_rev ELSE MaxRevision(dropped)]

\* A set of records in the order of their revisions, as an iterator over v/
\* yields them.
ByRevision(recs) ==
  [i \in 1..Cardinality(recs) |->
     CHOOSE h \in recs :
       Cardinality({x \in recs : x.revision < h.revision}) = i - 1]

\* The records of a set in (from, cur] that match a key filter ({}: any key).
InRange(recs, from, cur, filter) ==
  {h \in recs : /\ from < h.revision /\ h.revision <= cur
                /\ filter = {} \/ h.key \in filter}

\* The first max events of a set of records, in revision order.
FirstEvents(recs, max) ==
  LET all == ByRevision(recs)
      n   == IF Len(all) < max THEN Len(all) ELSE max
  IN  [i \in 1..n |-> MakeEvent(all[i])]

\* Mutant: a client just below compact_rev is let through.
ReplayEventsBelowFloor(seen, compact_rev, from, cur, filter, max) ==
  IF max <= 0 THEN [code |-> "OK", events |-> <<>>]
  ELSE IF from + 1 < compact_rev
  THEN [code |-> "COMPACTED", events |-> <<>>]
  ELSE [code |-> "OK",
        events |-> FirstEvents(InRange(seen, from, cur, filter), max)]

\* ReplayEventsLocked, given the records its iterator sees and the
\* compact_rev it reads after making the iterator.
ReplayEventsLocked(seen, compact_rev, from, cur, filter, max) ==
  IF max <= 0 THEN [code |-> "OK", events |-> <<>>]
  ELSE IF (IF from < 0 THEN 0 ELSE from) < compact_rev
  THEN [code |-> "COMPACTED", events |-> <<>>]
  ELSE [code |-> "OK",
        events |-> FirstEvents(InRange(seen, from, cur, filter), max)]

\* A SnapshotData message.
Snapshots == [revision: Nat, kvs: SUBSET KVs, cfg_kvs: SUBSET KVs]

\* Mutant: tombstones are not exported.
ExportWithoutTombstones(s) ==
  [revision |-> s.revision,
   kvs |-> {s.main[k] : k \in {x \in DOMAIN s.main : ~s.main[x].deleted}},
   cfg_kvs |-> s.cfg]

\* ExportSnapshot: revision, k/ and cfg/ of one LevelDB snapshot; v/ is left out.
ExportSnapshot(s) ==
  [revision |-> s.revision, kvs |-> {s.main[k] : k \in DOMAIN s.main},
   cfg_kvs |-> s.cfg]

\* Mutant: compact_rev is not restored.
LoadSnapshotWithoutFloor(d) ==
  [main |-> [k \in {kv.key : kv \in d.kvs} |->
               CHOOSE kv \in d.kvs : kv.key = k],
   hist |-> d.kvs, cfg |-> d.cfg_kvs, revision |-> d.revision, compact_rev |-> 0]

\* Mutant: the cfg/ records are not restored.
LoadSnapshotWithoutConfig(d) ==
  [main |-> [k \in {kv.key : kv \in d.kvs} |->
               CHOOSE kv \in d.kvs : kv.key = k],
   hist |-> d.kvs, cfg |-> {}, revision |-> d.revision,
   compact_rev |-> d.revision]

\* LoadSnapshot into a wiped directory.  The history before the snapshot is
\* gone, so compact_rev becomes the snapshot's revision.
LoadSnapshot(d) ==
  [main |-> [k \in {kv.key : kv \in d.kvs} |->
               CHOOSE kv \in d.kvs : kv.key = k],
   hist |-> d.kvs, cfg |-> d.cfg_kvs,
   revision |-> d.revision, compact_rev |-> d.revision]

-----------------------------------------------------------------------------
(* A single store that executes a sequence of commands and is never compacted: *)
(* the outcome of the first i of them, for each i.                             *)

Unwritten == [store |-> EmptyStore, code |-> "OK", events |-> <<>>]

Executed(cmds) ==
  LET after[i \in Nat] ==
        IF i = 0 THEN Unwritten
        ELSE ApplyCmdToStore(after[i - 1].store, cmds[i], TRUE)
  IN  after

-----------------------------------------------------------------------------
(* What a store value has to do with the sequence l of all records that were *)
(* ever written to it.  The specifications below keep such a log as a        *)
(* history variable.                                                         *)

\* The newest record of each key in a sequence of records.
Latest(l) == [k \in KeysOf(l) |-> l[LastIndex(l, k)]]

\* Each revision names one record, and history holds nothing else.
DenseIn(s, l) ==
  /\ s.revision = Len(l)
  /\ \A i \in 1..Len(l) : l[i].revision = i
  /\ s.hist \subseteq RecordsOf(l)

\* No record above compact_rev is missing from history.
NoHole(s, l) == \A i \in 1..Len(l) : i > s.compact_rev => l[i] \in s.hist

\* The newest record of every key is in history.
NewestIn(s) == \A k \in DOMAIN s.main : s.main[k] \in s.hist

\* A store value is a faithful image of the log l.
Image(s, l) ==
  /\ IsStore(s)
  /\ DenseIn(s, l)
  /\ NoHole(s, l)
  /\ NewestIn(s)
  /\ s.main = Latest(l)

\* A snapshot is the state after the log l.
SnapshotOf(d, l) ==
  /\ d.revision = Len(l)
  /\ d.kvs = {Latest(l)[k] : k \in KeysOf(l)}
=============================================================================
