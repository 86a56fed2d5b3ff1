---------------------------- MODULE ReplicaProofs ----------------------------
(***************************************************************************)
(* Proofs about Replica, for any replicas, commands, log and any order of  *)
(* restarts, snapshots and compactions.                                    *)
(***************************************************************************)
EXTENDS Replica, StoreProofs

-----------------------------------------------------------------------------
(* The inductive invariants *)

\* A store value that is the faithful image of some log of records.
IsImage(s) == \E l \in Seq(KVs) : Image(s, l)

\* A snapshot of such a store.
IsExport(d) ==
  /\ d \in Snapshots
  /\ \E l \in Seq(KVs) : (\A i \in 1..Len(l) : l[i].revision = i) /\ SnapshotOf(d, l)

SnapType(s) ==
  /\ s.index \in Nat /\ 0 < s.index /\ s.extent \in Nat /\ s.index <= s.extent
  /\ s.extent <= Len(log) /\ s.replayed \in BOOLEAN /\ IsExport(s.data)

\* How far a node is, what its store holds, and its snapshots.
NodeType(n) ==
  /\ applied[n] <= last[n] /\ last[n] <= Len(log) /\ extent[n] <= Len(log)
  /\ n \in failed => saving[n] = {}
  /\ n \in failed \/ applied[n] <= extent[n]
  /\ saving[n] \subseteq 1..applied[n]
  /\ IsImage(store[n])
  /\ \A s \in snap[n] : SnapType(s)

ReplicaType ==
  /\ log \in Seq(Cmds) /\ failed \subseteq Nodes /\ restarts \in 0..RestartBound
  /\ applied \in [Nodes -> Nat] /\ last \in [Nodes -> Nat] /\ extent \in [Nodes -> Nat]
  /\ replayed \in [Nodes -> BOOLEAN]
  /\ DOMAIN saving = Nodes /\ DOMAIN snap = Nodes /\ DOMAIN store = Nodes
  /\ \A n \in Nodes : NodeType(n)

\* Two stores agree on values, versions and revisions; of the configuration
\* versions, one may have dropped some.
Agrees(s, t) == s.main = t.main /\ s.revision = t.revision /\ s.cfg \subseteq t.cfg

\* A store to which no command was applied twice is the outcome of the commands
\* in it, and so is what a snapshot is loaded into.
ExactInv ==
  \A n \in Nodes :
    /\ ~replayed[n] => Agrees(store[n], Executed(log)[extent[n]].store)
    /\ \A s \in snap[n] :
         ~s.replayed => Agrees(LoadSnapshot(s.data), Executed(log)[s.extent].store)

\* No command after the first i, of the first j, names the key.
Settled(l, i, j, k) == \A x \in (i + 1)..j : k \notin DOMAIN Promise!Effect(l[x])

\* What the first i commands make of a key.
ValueAfter(l, i, k) ==
  LET naming == {j \in 1..i : k \in DOMAIN Promise!Effect(l[j])}
  IN  IF naming = {} THEN {} ELSE Promise!Effect(l[Max(naming)])[k]

\* A store that has the first j commands, of which those after i are still to be
\* applied again: it shows the outcome of all keys that these do not name.
ShowsFrom(s, l, i, j) ==
  \A k \in Keys : Settled(l, i, j, k) => Shown(s)[k] = ValueAfter(l, j, k)

\* A node in error will begin again.
NextFrom(n) == IF n \in failed THEN 0 ELSE applied[n]

ShownInv ==
  \A n \in Nodes :
    /\ ShowsFrom(store[n], log, NextFrom(n), extent[n])
    /\ \A s \in snap[n] : ShowsFrom(LoadSnapshot(s.data), log, s.index, s.extent)

-----------------------------------------------------------------------------
(* Stores and snapshots *)

\* The greater of two naturals.
LEMMA MaxOfTwo ==
  ASSUME NEW a \in Nat, NEW b \in Nat
  PROVE  Max({a, b}) = IF a >= b THEN a ELSE b
<1>1. \E x \in {a, b} : \A y \in {a, b} : x >= y
  OBVIOUS
<1> QED BY <1>1 DEF Max

\* An image is a store.
LEMMA ImageIsStore ==
  ASSUME NEW s, IsImage(s)
  PROVE  IsStore(s)
BY DEF IsImage, Image

\* What on_apply makes of a store.
LEMMA AppliedStore ==
  ASSUME NEW s, NEW cmd
  PROVE  ApplyCmdToStore(s, cmd, TRUE).store = WriteBatch(s, Prepare(s, cmd))
BY DEF ApplyCmdToStore

\* on_apply turns an image into an image.
LEMMA ApplyImage ==
  ASSUME NEW s, IsImage(s), NEW cmd \in Commands
  PROVE  IsImage(ApplyCmdToStore(s, cmd, TRUE).store)
<1> DEFINE b == Prepare(s, cmd)
<1>1. PICK l \in Seq(KVs) : Image(s, l)
  BY DEF IsImage
<1>2. NextRevisions(s, b)
  BY PrepareType, ImageIsStore
<1>3. b \in Batches /\ b.kvs \in Seq(KVs) /\ \A i \in 1..Len(b.kvs) : b.kvs[i].revision = s.revision + i
  BY <1>2 DEF NextRevisions, Batches
<1> HIDE DEF b
<1>4. Image(WriteBatch(s, b), l \o b.kvs) /\ l \o b.kvs \in Seq(KVs)
  BY <1>1, <1>3, WriteBatchImage
<1>5. IsImage(WriteBatch(s, b))
  BY <1>4 DEF IsImage
<1> QED BY <1>5, AppliedStore DEF b

\* Compaction turns an image into an image.
LEMMA CompactedImage ==
  ASSUME NEW s, IsImage(s)
  PROVE  IsImage(CompactionWrite(s, Excess(s.hist, KeepVersions)))
<1>1. PICK l \in Seq(KVs) : Image(s, l)
  BY DEF IsImage
<1>2. s.hist \subseteq RecordsOf(l) /\ KeepVersions \in Int
  BY <1>1, ReplicaAssumption DEF Image, DenseIn
<1> QED BY <1>1, <1>2, CompactionImage DEF IsImage

\* ExportSnapshot of an image, and LoadSnapshot of that: all but the history.
LEMMA Reloaded ==
  ASSUME NEW s, IsImage(s)
  PROVE  /\ IsExport(ExportSnapshot(s))
         /\ LoadSnapshot(ExportSnapshot(s)).main = s.main
         /\ LoadSnapshot(ExportSnapshot(s)).revision = s.revision
         /\ LoadSnapshot(ExportSnapshot(s)).cfg = s.cfg
<1> DEFINE d == ExportSnapshot(s)
<1>1. PICK l \in Seq(KVs) : Image(s, l)
  BY DEF IsImage
<1>2. d \in Snapshots /\ SnapshotOf(d, l) /\ d.cfg_kvs = s.cfg
  BY <1>1, ExportOfImage
<1>3. \A i \in 1..Len(l) : l[i].revision = i
  BY <1>1 DEF Image, DenseIn
<1> HIDE DEF d
<1>4. Image(LoadSnapshot(d), l)
  BY <1>2, <1>3, LoadSnapshotImage
<1>5. LoadSnapshot(d).main = s.main /\ LoadSnapshot(d).revision = s.revision
  BY <1>1, <1>4 DEF Image, DenseIn
<1>6. LoadSnapshot(d).cfg = d.cfg_kvs
  BY DEF LoadSnapshot
<1>7. IsExport(d)
  BY <1>2, <1>3 DEF IsExport
<1> QED BY <1>2, <1>5, <1>6, <1>7 DEF d

\* LoadSnapshot makes an image.
LEMMA LoadedImage ==
  ASSUME NEW d, IsExport(d)
  PROVE  IsImage(LoadSnapshot(d))
BY LoadSnapshotImage DEF IsExport, IsImage

-----------------------------------------------------------------------------
(* What a step does to one node. *)

\* The node does not move.
Stays(m) ==
  /\ applied'[m] = applied[m] /\ last'[m] = last[m] /\ (m \in failed' <=> m \in failed)
  /\ saving'[m] = saving[m] /\ snap'[m] = snap[m]
  /\ store'[m] = store[m] /\ extent'[m] = extent[m] /\ replayed'[m] = replayed[m]

\* The next entry is applied.
Applies(n) ==
  LET i == applied[n] + 1
  IN  /\ n \notin failed /\ n \notin failed' /\ i <= Len(log)
      /\ applied'[n] = i /\ last'[n] = Max({last[n], i})
      /\ saving'[n] = saving[n] /\ snap'[n] = snap[n]
      /\ store'[n] = ApplyCmdToStore(store[n], log[i], TRUE).store
      /\ extent'[n] = Max({extent[n], i})
      /\ replayed'[n] = (replayed[n] \/ i <= extent[n])

Compacts(n) ==
  /\ applied'[n] = applied[n] /\ last'[n] = last[n] /\ (n \in failed' <=> n \in failed)
  /\ saving'[n] = saving[n] /\ snap'[n] = snap[n]
  /\ store'[n] = CompactionWrite(store[n], Excess(store[n].hist, KeepVersions))
  /\ extent'[n] = extent[n] /\ replayed'[n] = replayed[n]

\* A snapshot is begun, or written, or not.
Saves(n) ==
  /\ applied'[n] = applied[n] /\ last'[n] = last[n] /\ (n \in failed' <=> n \in failed)
  /\ store'[n] = store[n] /\ extent'[n] = extent[n] /\ replayed'[n] = replayed[n]
  /\ \/ n \notin failed /\ applied[n] > 0 /\ saving'[n] = {applied[n]} /\ snap'[n] = snap[n]
     \/ saving'[n] = {} /\ snap'[n] = snap[n]
     \/ \E i \in saving[n] :
          /\ saving'[n] = {}
          /\ snap'[n] = {[index |-> i, data |-> ExportSnapshot(store[n]),
                          extent |-> extent[n], replayed |-> replayed[n]]}

\* A snapshot of some node is loaded.
Loads(n, s) ==
  /\ n \notin failed'
  /\ applied'[n] = s.index /\ last'[n] = Max({last[n], s.index})
  /\ saving'[n] = {} /\ (snap'[n] = snap[n] \/ snap'[n] = {s})
  /\ store'[n] = LoadSnapshot(s.data) /\ extent'[n] = s.extent /\ replayed'[n] = s.replayed

\* Loading it fails.
Fails(n, s) ==
  /\ n \in failed'
  /\ applied'[n] = applied[n] /\ last'[n] = last[n]
  /\ saving'[n] = {} /\ snap'[n] = {s}
  /\ \/ store'[n] = store[n] /\ extent'[n] = extent[n] /\ replayed'[n] = replayed[n]
     \/ store'[n] = EmptyStore /\ extent'[n] = 0 /\ replayed'[n] = FALSE

\* The process begins again at the first entry.
Rewinds(n) ==
  /\ n \notin failed'
  /\ applied'[n] = 0 /\ last'[n] = last[n] /\ saving'[n] = {} /\ snap'[n] = snap[n]
  /\ store'[n] = store[n] /\ extent'[n] = extent[n] /\ replayed'[n] = replayed[n]

NodeMoves(n) ==
  \/ Applies(n) \/ Compacts(n) \/ Saves(n) \/ Rewinds(n)
  \/ \E m \in Nodes : \E s \in snap[m] : Loads(n, s) \/ Fails(n, s)

\* The variables are still functions on the nodes.
Shaped ==
  /\ applied' = [m \in Nodes |-> applied'[m]] /\ last' = [m \in Nodes |-> last'[m]]
  /\ extent' = [m \in Nodes |-> extent'[m]] /\ replayed' = [m \in Nodes |-> replayed'[m]]
  /\ DOMAIN saving' = Nodes /\ DOMAIN snap' = Nodes /\ DOMAIN store' = Nodes
  /\ failed' \subseteq Nodes /\ restarts' \in 0..RestartBound

OneMoves(n) ==
  log' = log /\ NodeMoves(n) /\ \A m \in Nodes : m # n => Stays(m)

\* A command is committed, or nobody moves, or one node does.
LEMMA StepMoves ==
  ASSUME ReplicaType, [Next]_vars
  PROVE  /\ Shaped
         /\ \/ /\ \A n \in Nodes : Stays(n)
               /\ log' = log \/ \E cmd \in Cmds : log' = Append(log, cmd)
            \/ \E n \in Nodes : OneMoves(n)
<1>0. /\ applied \in [Nodes -> Nat] /\ last \in [Nodes -> Nat] /\ extent \in [Nodes -> Nat]
      /\ replayed \in [Nodes -> BOOLEAN]
      /\ DOMAIN saving = Nodes /\ DOMAIN snap = Nodes /\ DOMAIN store = Nodes
      /\ failed \subseteq Nodes /\ restarts \in 0..RestartBound /\ RestartBound \in Nat
  BY ReplicaAssumption DEF ReplicaType
<1>1. ASSUME UNCHANGED <<applied, last, failed, saving, snap, content, restarts>>
      PROVE  Shaped /\ \A n \in Nodes : Stays(n)
  BY <1>0, <1>1 DEF Shaped, Stays, content
<1>2. ASSUME NEW n \in Nodes, on_apply(n) PROVE Shaped /\ OneMoves(n)
  <2>1. \A m \in Nodes : m # n => Stays(m)
    BY <1>0, <1>2 DEF on_apply, Stays
  <2>2. Applies(n)
    BY <1>0, <1>2 DEF on_apply, Applies
  <2>3. Shaped
    BY <1>0, <1>2 DEF on_apply, Shaped
  <2> QED BY <1>2, <2>1, <2>2, <2>3 DEF on_apply, OneMoves, NodeMoves
<1>3. ASSUME NEW n \in Nodes, Compaction(n) PROVE Shaped /\ OneMoves(n)
  <2>1. \A m \in Nodes : m # n => Stays(m)
    BY <1>0, <1>3 DEF Compaction, Stays, braft
  <2>2. Compacts(n)
    BY <1>0, <1>3 DEF Compaction, Compacts, braft
  <2>3. Shaped
    BY <1>0, <1>3 DEF Compaction, Shaped, braft
  <2> QED BY <1>3, <2>1, <2>2, <2>3 DEF Compaction, OneMoves, NodeMoves, braft
<1>4. ASSUME NEW n \in Nodes, on_snapshot_save(n) \/ \E ok \in BOOLEAN : save_snapshot(n, ok)
      PROVE  Shaped /\ OneMoves(n)
  <2>1. \A m \in Nodes : m # n => Stays(m)
    BY <1>0, <1>4 DEF on_snapshot_save, save_snapshot, Stays, content
  <2>2. Saves(n)
    <3>1. CASE on_snapshot_save(n)
      BY <1>0, <3>1 DEF on_snapshot_save, Saves, content
    <3>2. ASSUME NEW ok \in BOOLEAN, save_snapshot(n, ok) PROVE Saves(n)
      BY <1>0, <3>2 DEF save_snapshot, Saves, content
    <3> QED BY <1>4, <3>1, <3>2
  <2>3. Shaped
    BY <1>0, <1>4 DEF on_snapshot_save, save_snapshot, Shaped, content
  <2> QED BY <1>4, <2>1, <2>2, <2>3 DEF on_snapshot_save, save_snapshot, OneMoves, NodeMoves
<1>5. ASSUME NEW n \in Nodes, NEW x \in Nodes, InstallSnapshot(n, x)
      PROVE  Shaped /\ OneMoves(n)
  <2>1. \A m \in Nodes : m # n => Stays(m)
    BY <1>0, <1>5 DEF InstallSnapshot, on_snapshot_load, Stays
  <2>0. PICK s \in snap[x] :
          /\ n \notin failed /\ saving[n] = {}
          /\ snap' = [snap EXCEPT ![n] = {s}]
          /\ on_snapshot_load(n, s)
          /\ UNCHANGED <<log, failed, saving, restarts>>
    BY <1>5 DEF InstallSnapshot
  <2>2. Loads(n, s)
    BY <1>0, <2>0 DEF on_snapshot_load, Loads
  <2>3. Shaped
    <3>1. applied' = [m \in Nodes |-> applied'[m]] /\ last' = [m \in Nodes |-> last'[m]]
      BY <1>0, <2>0 DEF on_snapshot_load
    <3>2. extent' = [m \in Nodes |-> extent'[m]] /\ replayed' = [m \in Nodes |-> replayed'[m]]
      BY <1>0, <2>0 DEF on_snapshot_load
    <3>3. DOMAIN saving' = Nodes /\ DOMAIN snap' = Nodes /\ DOMAIN store' = Nodes
      BY <1>0, <2>0 DEF on_snapshot_load
    <3>4. failed' \subseteq Nodes /\ restarts' \in 0..RestartBound
      BY <1>0, <2>0
    <3> QED BY <3>1, <3>2, <3>3, <3>4 DEF Shaped
  <2> QED BY <1>5, <2>1, <2>2, <2>3 DEF InstallSnapshot, OneMoves, NodeMoves
<1>6. ASSUME NEW n \in Nodes, NEW x \in Nodes, InstallFails(n, x)
      PROVE  Shaped /\ OneMoves(n)
  <2>1. \A m \in Nodes : m # n => Stays(m)
    BY <1>0, <1>6 DEF InstallFails, Stays, content
  <2>2. \E s \in snap[x] : Fails(n, s)
    BY <1>0, <1>6 DEF InstallFails, Fails, content
  <2>3. Shaped
    BY <1>0, <1>6 DEF InstallFails, Shaped, content
  <2> QED BY <1>6, <2>1, <2>2, <2>3 DEF InstallFails, OneMoves, NodeMoves
<1>7. ASSUME NEW n \in Nodes, Restart(n) PROVE Shaped /\ OneMoves(n)
  <2>1. \A m \in Nodes : m # n => Stays(m)
    BY <1>0, <1>7 DEF Restart, on_snapshot_load, Stays, content
  <2>2. Rewinds(n) \/ \E s \in snap[n] : Loads(n, s)
    BY <1>0, <1>7 DEF Restart, on_snapshot_load, Rewinds, Loads, content
  <2>3. Shaped
    <3>1. /\ restarts' \in 0..RestartBound /\ failed' \subseteq Nodes
          /\ DOMAIN saving' = Nodes /\ DOMAIN snap' = Nodes
      BY <1>0, <1>7 DEF Restart
    <3>2. CASE UNCHANGED <<last, content>> /\ applied' = [applied EXCEPT ![n] = 0]
      BY <1>0, <3>1, <3>2 DEF Shaped, content
    <3>3. ASSUME NEW s, on_snapshot_load(n, s) PROVE Shaped
      BY <1>0, <3>1, <3>3 DEF Shaped, on_snapshot_load
    <3> QED BY <1>7, <3>2, <3>3 DEF Restart
  <2> QED BY <1>7, <2>1, <2>2, <2>3 DEF Restart, OneMoves, NodeMoves
<1>8. CASE UNCHANGED vars
  BY <1>1, <1>8 DEF vars, braft
<1>9. ASSUME NEW cmd \in Cmds, Commit(cmd)
      PROVE  Shaped /\ (\A n \in Nodes : Stays(n)) /\ log' = Append(log, cmd)
  BY <1>1, <1>9 DEF Commit
<1> QED BY <1>2, <1>3, <1>4, <1>5, <1>6, <1>7, <1>8, <1>9 DEF Next

-----------------------------------------------------------------------------
(* Every state is well typed, and every store the image of some records. *)

\* The log only grows.
LEMMA LogExtends ==
  ASSUME ReplicaType, [Next]_vars
  PROVE  /\ log' \in Seq(Cmds) /\ Len(log) \in Nat /\ Len(log') \in Nat /\ Len(log) <= Len(log')
         /\ \A i \in 1..Len(log) : log'[i] = log[i]
<1>1. log \in Seq(Cmds) /\ Len(log) \in Nat
  BY DEF ReplicaType
<1>2. log' = log \/ \E cmd \in Cmds : log' = Append(log, cmd)
  BY StepMoves DEF OneMoves
<1>3. CASE log' = log
  BY <1>1, <1>3
<1>4. ASSUME NEW cmd \in Cmds, log' = Append(log, cmd)
      PROVE  /\ log' \in Seq(Cmds) /\ Len(log) \in Nat /\ Len(log') \in Nat
             /\ Len(log) <= Len(log') /\ \A i \in 1..Len(log) : log'[i] = log[i]
  BY <1>1, <1>4
<1> QED BY <1>2, <1>3, <1>4

\* Init is well typed.
LEMMA InitReplica == Init => ReplicaType
<1> SUFFICES ASSUME Init PROVE ReplicaType
  OBVIOUS
<1>1. IsImage(EmptyStore)
  <2>1. <<>> \in Seq(KVs)
    OBVIOUS
  <2> QED BY <2>1, EmptyImage DEF IsImage
<1>2. \A n \in Nodes : NodeType(n)
  BY <1>1 DEF Init, NodeType
<1>3. log \in Seq(Cmds) /\ restarts \in 0..RestartBound
  BY ReplicaAssumption DEF Init
<1> QED BY <1>2, <1>3 DEF Init, ReplicaType

\* What a node that moves is turned into.
LEMMA MoveType ==
  ASSUME ReplicaType, [Next]_vars, NEW n \in Nodes, NodeMoves(n), log' = log
  PROVE  /\ applied'[n] \in Nat /\ last'[n] \in Nat /\ extent'[n] \in Nat
         /\ replayed'[n] \in BOOLEAN /\ NodeType(n)'
<1>0. /\ applied[n] \in Nat /\ last[n] \in Nat /\ extent[n] \in Nat /\ replayed[n] \in BOOLEAN
      /\ log \in Seq(Cmds) /\ Len(log) \in Nat /\ NodeType(n)
  BY DEF ReplicaType
<1>1. /\ applied[n] <= last[n] /\ last[n] <= Len(log) /\ extent[n] <= Len(log)
      /\ n \in failed => saving[n] = {}
      /\ n \in failed \/ applied[n] <= extent[n]
      /\ saving[n] \subseteq 1..applied[n] /\ IsImage(store[n])
  BY <1>0 DEF NodeType
<1>2. \A m \in Nodes : \A s \in snap[m] : SnapType(s)
  BY DEF ReplicaType, NodeType
<1>3. \A s : SnapType(s) => SnapType(s)'
  BY DEF SnapType
<1>4. CASE Applies(n)
  <2> DEFINE i == applied[n] + 1
  <2>1. /\ i \in 1..Len(log) /\ i \in Nat /\ applied'[n] = i /\ n \notin failed'
        /\ last'[n] = (IF last[n] >= i THEN last[n] ELSE i)
        /\ extent'[n] = (IF extent[n] >= i THEN extent[n] ELSE i)
        /\ replayed'[n] = (replayed[n] \/ i <= extent[n])
        /\ saving'[n] = saving[n] /\ snap'[n] = snap[n]
        /\ store'[n] = ApplyCmdToStore(store[n], log[i], TRUE).store
    <3>1. i \in 1..Len(log) /\ i \in Nat /\ applied'[n] = i /\ n \notin failed'
      BY <1>0, <1>4 DEF Applies
    <3>2. /\ Max({last[n], i}) = (IF last[n] >= i THEN last[n] ELSE i)
          /\ Max({extent[n], i}) = (IF extent[n] >= i THEN extent[n] ELSE i)
      BY <1>0, <3>1, MaxOfTwo
    <3> QED BY <1>4, <3>1, <3>2 DEF Applies
  <2>2. log[i] \in Commands
    BY <1>0, <2>1, ReplicaAssumption
  <2>3. IsImage(store'[n])
    BY <1>1, <2>1, <2>2, ApplyImage
  <2>4. saving'[n] \subseteq 1..applied'[n]
    BY <1>0, <1>1, <2>1
  <2>5. \A s \in snap'[n] : SnapType(s)'
    BY <1>2, <1>3, <2>1
  <2>6. replayed'[n] \in BOOLEAN
    BY <2>1
  <2>7. /\ applied'[n] \in Nat /\ last'[n] \in Nat /\ extent'[n] \in Nat
        /\ applied'[n] <= last'[n] /\ last'[n] <= Len(log) /\ extent'[n] <= Len(log)
        /\ applied'[n] <= extent'[n] /\ n \notin failed'
    BY <1>0, <1>1, <2>1
  <2> QED BY <2>3, <2>4, <2>5, <2>6, <2>7 DEF NodeType
<1>5. CASE Compacts(n)
  <2>1. IsImage(store'[n])
    BY <1>1, <1>5, CompactedImage DEF Compacts
  <2>2. \A s \in snap'[n] : SnapType(s)'
    BY <1>2, <1>3, <1>5 DEF Compacts
  <2> QED BY <1>0, <1>1, <1>5, <2>1, <2>2 DEF NodeType, Compacts
<1>6. CASE Saves(n)
  <2>1. /\ applied'[n] = applied[n] /\ last'[n] = last[n] /\ (n \in failed' <=> n \in failed)
        /\ store'[n] = store[n] /\ extent'[n] = extent[n] /\ replayed'[n] = replayed[n]
    BY <1>6 DEF Saves
  <2>2. saving'[n] \subseteq 1..applied[n] /\ (n \in failed => saving'[n] = {})
    BY <1>0, <1>1, <1>6 DEF Saves
  <2>3. \A s \in snap'[n] : SnapType(s)'
    <3>1. CASE snap'[n] = snap[n]
      BY <1>2, <1>3, <3>1
    <3>2. ASSUME NEW i \in saving[n],
                 snap'[n] = {[index |-> i, data |-> ExportSnapshot(store[n]),
                              extent |-> extent[n], replayed |-> replayed[n]]}
          PROVE  \A s \in snap'[n] : SnapType(s)'
      <4> DEFINE s == [index |-> i, data |-> ExportSnapshot(store[n]),
                       extent |-> extent[n], replayed |-> replayed[n]]
      <4>1. i \in Nat /\ 0 < i /\ i <= extent[n]
        BY <1>0, <1>1
      <4>2. IsExport(s.data)
        BY <1>1, Reloaded
      <4>3. s.index = i /\ s.extent = extent[n] /\ s.replayed = replayed[n]
        OBVIOUS
      <4>4. snap'[n] = {s}
        BY <3>2
      <4> HIDE DEF s
      <4>5. SnapType(s)
        BY <1>0, <1>1, <4>1, <4>2, <4>3 DEF SnapType
      <4> QED BY <1>3, <4>4, <4>5
    <3> QED BY <1>6, <3>1, <3>2 DEF Saves
  <2> QED BY <1>0, <1>1, <2>1, <2>2, <2>3 DEF NodeType
<1>7. CASE Rewinds(n)
  <2>1. \A s \in snap'[n] : SnapType(s)'
    BY <1>2, <1>3, <1>7 DEF Rewinds
  <2> QED BY <1>0, <1>1, <1>7, <2>1 DEF NodeType, Rewinds
<1>8. ASSUME NEW m \in Nodes, NEW s \in snap[m], Loads(n, s)
      PROVE  /\ applied'[n] \in Nat /\ last'[n] \in Nat /\ extent'[n] \in Nat
             /\ replayed'[n] \in BOOLEAN /\ NodeType(n)'
  <2>1. /\ s.index \in Nat /\ 0 < s.index /\ s.extent \in Nat /\ s.index <= s.extent
        /\ s.extent <= Len(log) /\ s.replayed \in BOOLEAN /\ IsExport(s.data)
    BY <1>2 DEF SnapType
  <2>2. IsImage(store'[n])
    BY <1>8, <2>1, LoadedImage DEF Loads
  <2>3. last'[n] = IF last[n] >= s.index THEN last[n] ELSE s.index
    BY <1>0, <1>8, <2>1, MaxOfTwo DEF Loads
  <2>4. \A t \in snap'[n] : SnapType(t)'
    BY <1>2, <1>3, <1>8 DEF Loads
  <2>5. /\ n \notin failed' /\ applied'[n] = s.index /\ saving'[n] = {}
        /\ extent'[n] = s.extent /\ replayed'[n] = s.replayed
    BY <1>8 DEF Loads
  <2> QED BY <1>0, <1>1, <2>1, <2>2, <2>3, <2>4, <2>5 DEF NodeType
<1>9. ASSUME NEW m \in Nodes, NEW s \in snap[m], Fails(n, s)
      PROVE  /\ applied'[n] \in Nat /\ last'[n] \in Nat /\ extent'[n] \in Nat
             /\ replayed'[n] \in BOOLEAN /\ NodeType(n)'
  <2>1. IsImage(store'[n])
    <3>1. IsImage(EmptyStore)
      <4>1. <<>> \in Seq(KVs)
        OBVIOUS
      <4> QED BY <4>1, EmptyImage DEF IsImage
    <3> QED BY <1>1, <1>9, <3>1 DEF Fails
  <2>2. \A t \in snap'[n] : SnapType(t)'
    BY <1>2, <1>3, <1>9 DEF Fails
  <2>3. /\ applied'[n] = applied[n] /\ last'[n] = last[n] /\ saving'[n] = {} /\ n \in failed'
    BY <1>9 DEF Fails
  <2>4. extent'[n] \in Nat /\ extent'[n] <= Len(log) /\ replayed'[n] \in BOOLEAN
    <3>1. \/ extent'[n] = extent[n] /\ replayed'[n] = replayed[n]
          \/ extent'[n] = 0 /\ replayed'[n] = FALSE
      BY <1>9 DEF Fails
    <3>2. CASE extent'[n] = extent[n] /\ replayed'[n] = replayed[n]
      BY <1>0, <1>1, <3>2
    <3>3. CASE extent'[n] = 0 /\ replayed'[n] = FALSE
      <4>1. extent'[n] \in Nat /\ extent'[n] <= Len(log)
        BY <1>0, <3>3
      <4>2. replayed'[n] \in BOOLEAN
        BY <3>3, Zenon
      <4> QED BY <4>1, <4>2
    <3> QED BY <3>1, <3>2, <3>3
  <2> QED BY <1>0, <1>1, <2>1, <2>2, <2>3, <2>4 DEF NodeType
<1> QED BY <1>4, <1>5, <1>6, <1>7, <1>8, <1>9 DEF NodeMoves

\* Every step leads to a well typed state.
LEMMA NextReplica == ReplicaType /\ [Next]_vars => ReplicaType'
<1> SUFFICES ASSUME ReplicaType, [Next]_vars PROVE ReplicaType'
  OBVIOUS
<1>1. Shaped
  BY StepMoves
<1>2. /\ log' \in Seq(Cmds) /\ Len(log) \in Nat /\ Len(log') \in Nat /\ Len(log) <= Len(log')
  BY LogExtends
<1>3. ASSUME NEW n \in Nodes, Stays(n)
      PROVE  /\ applied'[n] \in Nat /\ last'[n] \in Nat /\ extent'[n] \in Nat
             /\ replayed'[n] \in BOOLEAN /\ NodeType(n)'
  <2>1. /\ applied[n] \in Nat /\ last[n] \in Nat /\ extent[n] \in Nat
        /\ replayed[n] \in BOOLEAN /\ NodeType(n)
    BY DEF ReplicaType
  <2>2. \A s \in snap[n] : SnapType(s)'
    BY <1>2, <2>1 DEF NodeType, SnapType
  <2> QED BY <1>2, <1>3, <2>1, <2>2 DEF Stays, NodeType
<1>4. \A n \in Nodes : /\ applied'[n] \in Nat /\ last'[n] \in Nat /\ extent'[n] \in Nat
                       /\ replayed'[n] \in BOOLEAN /\ NodeType(n)'
  <2>1. CASE \A n \in Nodes : Stays(n)
    BY <1>3, <2>1
  <2>2. ASSUME NEW n \in Nodes, OneMoves(n)
        PROVE  \A m \in Nodes : /\ applied'[m] \in Nat /\ last'[m] \in Nat /\ extent'[m] \in Nat
                                /\ replayed'[m] \in BOOLEAN /\ NodeType(m)'
    BY <1>3, <2>2, MoveType DEF OneMoves
  <2> QED BY <2>1, <2>2, StepMoves
<1>5. /\ applied' \in [Nodes -> Nat] /\ last' \in [Nodes -> Nat] /\ extent' \in [Nodes -> Nat]
      /\ replayed' \in [Nodes -> BOOLEAN]
  BY <1>1, <1>4 DEF Shaped
<1> QED BY <1>1, <1>2, <1>4, <1>5 DEF Shaped, ReplicaType

-----------------------------------------------------------------------------
(* Stores that have had the same commands, once each, agree. *)

\* The batch of a command other than a rollback does not depend on cfg/.
LEMMA SamePrepared ==
  ASSUME NEW s, NEW t, s.main = t.main, s.revision = t.revision, NEW cmd,
         cmd.op # "Rollback"
  PROVE  Prepare(s, cmd) = Prepare(t, cmd)
<1>1. \A k : /\ Existed(s, k) = Existed(t, k) /\ Absent(s, k) = Absent(t, k)
             /\ NextVersion(s, k) = NextVersion(t, k)
  BY DEF Existed, Absent, NextVersion
<1>2. \A k, v, r : NewKV(s, k, v, r) = NewKV(t, k, v, r)
  BY <1>1 DEF NewKV
<1>3. \A k, v : PutLocked(s, k, v) = PutLocked(t, k, v)
                  /\ PublishLocked(s, k, v) = PublishLocked(t, k, v)
  BY <1>2 DEF PutLocked, PublishLocked
<1>4. \A k : DeleteLocked(s, k) = DeleteLocked(t, k)
  BY <1>2 DEF DeleteLocked
<1>5. \A k, e : CasMatched(s, k, e) = CasMatched(t, k, e)
  BY <1>1 DEF CasMatched
<1>6. \A k, e, v : CompareAndSwapLocked(s, k, e, v) = CompareAndSwapLocked(t, k, e, v)
  BY <1>3, <1>5 DEF CompareAndSwapLocked
<1>7. \A p : BatchPutLocked(s, p) = BatchPutLocked(t, p)
  BY <1>2 DEF BatchPutLocked
<1> QED BY <1>3, <1>4, <1>6, <1>7 DEF Prepare

\* One more command, and they still agree.
LEMMA AgreesAfter ==
  ASSUME NEW s, NEW t, Agrees(s, t), NEW cmd, cmd.op # "Rollback"
  PROVE  Agrees(ApplyCmdToStore(s, cmd, TRUE).store, ApplyCmdToStore(t, cmd, TRUE).store)
<1> DEFINE b == Prepare(s, cmd)
<1>1. b = Prepare(t, cmd)
  BY SamePrepared DEF Agrees
<1> HIDE DEF b
<1>2. Agrees(WriteBatch(s, b), WriteBatch(t, b))
  BY DEF Agrees, WriteBatch
<1> QED BY <1>1, <1>2, AppliedStore DEF b

\* Compaction, export and load keep what a store agrees with.
LEMMA AgreesKept ==
  ASSUME NEW s, IsImage(s), NEW t, Agrees(s, t)
  PROVE  /\ \A dropped : Agrees(CompactionWrite(s, dropped), t)
         /\ Agrees(LoadSnapshot(ExportSnapshot(s)), t)
<1>1. \A dropped : Agrees(CompactionWrite(s, dropped), t)
  BY DEF Agrees, CompactionWrite
<1>2. Agrees(LoadSnapshot(ExportSnapshot(s)), t)
  BY Reloaded DEF Agrees
<1> QED BY <1>1, <1>2

\* At first nobody has applied anything.
LEMMA InitExact == Init => ExactInv
<1> SUFFICES ASSUME Init PROVE ExactInv
  OBVIOUS
<1>1. Executed(log)[0].store = EmptyStore
  BY ExecutedStep
<1>2. ASSUME NEW n \in Nodes
      PROVE  Agrees(store[n], Executed(log)[extent[n]].store) /\ snap[n] = {}
  BY <1>1, <1>2 DEF Init, Agrees
<1> QED BY <1>2 DEF ExactInv

\* What has been executed is not undone by a new command.
LEMMA ExecutedKept ==
  ASSUME ReplicaType, [Next]_vars
  PROVE  \A i \in 0..Len(log) : Executed(log')[i] = Executed(log)[i]
<1> SUFFICES ASSUME NEW i \in 0..Len(log) PROVE Executed(log')[i] = Executed(log)[i]
  OBVIOUS
<1>1. Len(log) \in Nat /\ \A j \in 1..Len(log) : log'[j] = log[j]
  BY LogExtends
<1>2. i \in Nat /\ \A j \in 1..i : log'[j] = log[j]
  BY <1>1
<1> QED BY <1>2, ExecutedAgrees

\* The exactness of one node that moves.
LEMMA MoveExact ==
  ASSUME \A cmd \in Cmds : cmd.op # "Rollback", ReplicaType, ExactInv, [Next]_vars,
         NEW n \in Nodes, NodeMoves(n), log' = log
  PROVE  /\ ~replayed'[n] => Agrees(store'[n], Executed(log)[extent'[n]].store)
         /\ \A s \in snap'[n] :
              ~s.replayed => Agrees(LoadSnapshot(s.data), Executed(log)[s.extent].store)
<1> DEFINE E == Executed(log)
           Kept == /\ ~replayed'[n] => Agrees(store'[n], E[extent'[n]].store)
                   /\ \A s \in snap'[n] :
                        ~s.replayed => Agrees(LoadSnapshot(s.data), E[s.extent].store)
<1>0. /\ applied[n] \in Nat /\ extent[n] \in Nat /\ log \in Seq(Cmds) /\ Len(log) \in Nat
      /\ IsImage(store[n]) /\ (n \in failed \/ applied[n] <= extent[n])
  BY DEF ReplicaType, NodeType
<1>1. ~replayed[n] => Agrees(store[n], E[extent[n]].store)
  BY DEF ExactInv
<1>2. \A m \in Nodes : \A s \in snap[m] :
        ~s.replayed => Agrees(LoadSnapshot(s.data), E[s.extent].store)
  BY DEF ExactInv
<1>3. E[0].store = EmptyStore /\ \A i \in Nat : E[i + 1] =
                                   ApplyCmdToStore(E[i].store, log[i + 1], TRUE)
  BY ExecutedStep
<1> SUFFICES Kept
  OBVIOUS
<1> HIDE DEF E
<1>4. CASE Applies(n)
  <2> DEFINE i == applied[n] + 1
  <2>1. /\ i \in 1..Len(log) /\ i \in Nat
        /\ extent'[n] = (IF extent[n] >= i THEN extent[n] ELSE i)
        /\ replayed'[n] = (replayed[n] \/ i <= extent[n])
        /\ snap'[n] = snap[n] /\ applied[n] <= extent[n]
        /\ store'[n] = ApplyCmdToStore(store[n], log[i], TRUE).store
    BY <1>0, <1>4, MaxOfTwo DEF Applies
  <2>2. ASSUME ~replayed'[n] PROVE Agrees(store'[n], E[extent'[n]].store)
    <3>1. ~replayed[n] /\ extent[n] = applied[n] /\ extent'[n] = i
      <4>1. ~replayed[n] /\ ~(i <= extent[n])
        BY <2>1, <2>2, Zenon
      <4> QED BY <1>0, <2>1, <4>1
    <3>2. log[i] \in Cmds
      BY <1>0, <2>1
    <3>3. E[i].store = ApplyCmdToStore(E[applied[n]].store, log[i], TRUE).store
      BY <1>0, <1>3
    <3>4. Agrees(store[n], E[applied[n]].store)
      BY <1>1, <3>1
    <3> HIDE DEF i
    <3> QED BY <2>1, <3>1, <3>2, <3>3, <3>4, AgreesAfter
  <2> QED BY <1>2, <2>1, <2>2
<1>5. CASE Compacts(n)
  <2>1. /\ store'[n] = CompactionWrite(store[n], Excess(store[n].hist, KeepVersions))
        /\ extent'[n] = extent[n] /\ replayed'[n] = replayed[n] /\ snap'[n] = snap[n]
    BY <1>5 DEF Compacts
  <2> QED BY <1>0, <1>1, <1>2, <2>1, AgreesKept
<1>6. CASE Saves(n)
  <2>1. store'[n] = store[n] /\ extent'[n] = extent[n] /\ replayed'[n] = replayed[n]
    BY <1>6 DEF Saves
  <2>2. ASSUME NEW s \in snap'[n], ~s.replayed
        PROVE  Agrees(LoadSnapshot(s.data), E[s.extent].store)
    <3>1. CASE snap'[n] = snap[n]
      BY <1>2, <2>2, <3>1
    <3>2. ASSUME NEW i \in saving[n],
                 snap'[n] = {[index |-> i, data |-> ExportSnapshot(store[n]),
                              extent |-> extent[n], replayed |-> replayed[n]]}
          PROVE  Agrees(LoadSnapshot(s.data), E[s.extent].store)
      <4>1. s.data = ExportSnapshot(store[n]) /\ s.extent = extent[n] /\ s.replayed = replayed[n]
        BY <3>2
      <4> QED BY <1>0, <1>1, <2>2, <4>1, AgreesKept
    <3> QED BY <1>6, <3>1, <3>2 DEF Saves
  <2> QED BY <1>1, <2>1, <2>2
<1>7. CASE Rewinds(n)
  BY <1>1, <1>2, <1>7 DEF Rewinds
<1>8. ASSUME NEW m \in Nodes, NEW s \in snap[m], Loads(n, s) PROVE Kept
  BY <1>2, <1>8 DEF Loads
<1>9. ASSUME NEW m \in Nodes, NEW s \in snap[m], Fails(n, s) PROVE Kept
  <2>1. Agrees(EmptyStore, EmptyStore)
    BY DEF Agrees
  <2> QED BY <1>1, <1>2, <1>3, <1>9, <2>1 DEF Fails
<1> QED BY <1>4, <1>5, <1>6, <1>7, <1>8, <1>9 DEF NodeMoves

\* Every step keeps the stores exact.
LEMMA NextExact ==
  ASSUME \A cmd \in Cmds : cmd.op # "Rollback"
  PROVE  ReplicaType /\ ExactInv /\ [Next]_vars => ExactInv'
<1> SUFFICES ASSUME ReplicaType, ExactInv, [Next]_vars PROVE ExactInv'
  OBVIOUS
<1>0. \A i \in 0..Len(log) : Executed(log')[i] = Executed(log)[i]
  BY ExecutedKept
<1>1. \A n \in Nodes : extent[n] \in 0..Len(log)
  BY DEF ReplicaType, NodeType
<1>2. \A n \in Nodes : \A s \in snap[n] : s.extent \in 0..Len(log)
  BY DEF ReplicaType, NodeType, SnapType
<1>3. ASSUME NEW n \in Nodes, Stays(n)
      PROVE  /\ ~replayed'[n] => Agrees(store'[n], Executed(log')[extent'[n]].store)
             /\ \A s \in snap'[n] :
                  ~s.replayed => Agrees(LoadSnapshot(s.data), Executed(log')[s.extent].store)
  BY <1>0, <1>1, <1>2, <1>3 DEF ExactInv, Stays
<1>4. CASE \A n \in Nodes : Stays(n)
  BY <1>3, <1>4 DEF ExactInv
<1>5. ASSUME NEW n \in Nodes, OneMoves(n) PROVE ExactInv'
  <2>1. log' = log /\ NodeMoves(n)
    BY <1>5 DEF OneMoves
  <2>2. /\ ~replayed'[n] => Agrees(store'[n], Executed(log')[extent'[n]].store)
        /\ \A s \in snap'[n] :
             ~s.replayed => Agrees(LoadSnapshot(s.data), Executed(log')[s.extent].store)
    BY <2>1, MoveExact
  <2> QED BY <1>3, <1>5, <2>2 DEF ExactInv, OneMoves
<1> QED BY <1>4, <1>5, StepMoves

-----------------------------------------------------------------------------
(* What a store shows of its keys. *)

\* The greatest of a bounded set of naturals.
LEMMA MaxIsGreatest ==
  ASSUME NEW S \in SUBSET Nat, S # {}, NEW n \in Nat, \A x \in S : x <= n
  PROVE  /\ Max(S) \in S /\ \A x \in S : x <= Max(S)
         /\ \A m \in S : (\A x \in S : x <= m) => Max(S) = m
<1>1. \E m \in S : \A x \in S : x <= m
  BY MaxExists
<1>2. \E m \in S : \A x \in S : m >= x
  BY <1>1
<1>3. Max(S) \in S /\ \A x \in S : Max(S) >= x
  BY <1>2 DEF Max
<1> DEFINE g == Max(S)
<1>4. g \in S /\ \A x \in S : g >= x
  BY <1>3
<1> HIDE DEF g
<1>5. g \in S /\ (\A x \in S : x <= g) /\ \A m \in S : (\A x \in S : x <= m) => g = m
  BY <1>4
<1> QED BY <1>5 DEF g

\* Max, as ReplicatedMap has it.
LEMMA SameMax == \A S : Promise!Max(S) = Max(S)
BY DEF Promise!Max, Max

\* What a batch makes of a key it writes, and of one it does not.
LEMMA ShownAfter ==
  ASSUME NEW s, NEW b, NEW m \in Seq(KVs), m = b.kvs, NEW k \in Keys
  PROVE  /\ k \notin KeysOf(m) => Shown(WriteBatch(s, b))[k] = Shown(s)[k]
         /\ \A kv : k \in KeysOf(m) /\ kv = m[LastIndex(m, k)] =>
              /\ kv.deleted => Shown(WriteBatch(s, b))[k] = {}
              /\ ~kv.deleted => Shown(WriteBatch(s, b))[k] = {kv.value}
<1> DEFINE t == WriteBatch(s, b)
<1>1. t.main = [x \in DOMAIN s.main \cup KeysOf(m) |->
                  IF x \in KeysOf(m) THEN m[LastIndex(m, x)] ELSE s.main[x]]
  BY DEF WriteBatch, MainAfter
<1> HIDE DEF t
<1>2. \A x : Shown(x)[k] = IF Absent(x, k) THEN {} ELSE {x.main[k].value}
  BY DEF Shown
<1>3. CASE k \notin KeysOf(m)
  <2>1. Absent(t, k) = Absent(s, k) /\ (~Absent(s, k) => t.main[k] = s.main[k])
    BY <1>1, <1>3 DEF Absent, Existed
  <2>2. Shown(t)[k] = Shown(s)[k]
    BY <1>2, <2>1
  <2> QED BY <1>3, <2>2 DEF t
<1>4. CASE k \in KeysOf(m)
  <2> SUFFICES ASSUME NEW kv, kv = m[LastIndex(m, k)]
               PROVE  /\ kv.deleted => Shown(t)[k] = {}
                      /\ ~kv.deleted => Shown(t)[k] = {kv.value}
    BY <1>4 DEF t
  <2>1. k \in DOMAIN t.main /\ t.main[k] = kv
    BY <1>1, <1>4
  <2> QED BY <1>2, <2>1 DEF Absent, Existed
<1> QED BY <1>3, <1>4

\* The commands of the promise.
Plain(cmd) == cmd.op \in {"Put", "Publish", "Delete", "BatchPut"}

\* A batch with a single record.
LEMMA SingleRecord ==
  ASSUME NEW kv \in KVs
  PROVE  /\ <<kv>> \in Seq(KVs) /\ KeysOf(<<kv>>) = {kv.key} /\ LastIndex(<<kv>>, kv.key) = 1
         /\ <<kv>>[1] = kv
<1>1. <<kv>> \in Seq(KVs) /\ Len(<<kv>>) = 1 /\ <<kv>>[1] = kv /\ DOMAIN <<kv>> = {1}
  OBVIOUS
<1>2. PICK l \in Seq(KVs) : l = <<kv>> /\ Len(l) = 1 /\ l[1] = kv /\ DOMAIN l = {1}
  BY <1>1
<1>3. KeysOf(l) = {kv.key}
  BY <1>2 DEF KeysOf
<1>4. LastIndex(l, kv.key) = 1
  <2>1. 1 \in 1..Len(l) /\ l[1].key = kv.key /\ \A j \in 1..Len(l) : l[j].key = kv.key => j <= 1
    BY <1>2
  <2>2. kv.key \in KeysOf(l) /\ LastIndex(l, kv.key) = 1
    BY <2>1, LastIndexUnique
  <2> QED BY <2>2
<1> QED BY <1>2, <1>3, <1>4

\* A command makes of the keys it names what its effect says.
LEMMA EffectIsShown ==
  ASSUME NEW s, IsStore(s), NEW cmd \in Commands, Plain(cmd), NEW k \in Keys
  PROVE  Shown(ApplyCmdToStore(s, cmd, TRUE).store)[k] =
           IF k \in DOMAIN Promise!Effect(cmd) THEN Promise!Effect(cmd)[k] ELSE Shown(s)[k]
<1> DEFINE b == Prepare(s, cmd)
           t == WriteBatch(s, b)
<1>0. b.kvs \in Seq(KVs) /\ s.revision \in Nat /\ s.revision + 1 \in Nat \ {0}
  BY PrepareType DEF NextRevisions, Batches, IsStore
<1> SUFFICES Shown(t)[k] = IF k \in DOMAIN Promise!Effect(cmd) THEN Promise!Effect(cmd)[k]
                           ELSE Shown(s)[k]
  BY AppliedStore
<1>9. /\ k \notin KeysOf(b.kvs) => Shown(t)[k] = Shown(s)[k]
      /\ \A kv : k \in KeysOf(b.kvs) /\ kv = b.kvs[LastIndex(b.kvs, k)] =>
           /\ kv.deleted => Shown(t)[k] = {}
           /\ ~kv.deleted => Shown(t)[k] = {kv.value}
  <2> HIDE DEF b
  <2> QED BY <1>0, ShownAfter
<1> HIDE DEF t
<1>1. CASE cmd.op \in {"Put", "Publish"}
  <2> DEFINE kv == NewKV(s, cmd.key, cmd.value, s.revision + 1)
  <2>1. cmd.key \in Keys /\ cmd.value \in Values
    BY <1>1 DEF Commands
  <2>2. kv \in KVs /\ kv.key = cmd.key /\ kv.value = cmd.value /\ ~kv.deleted
    BY <1>0, <2>1, NewKVType, NewKVVersion DEF NewKV
  <2>3. b.kvs = <<kv>>
    BY <1>1 DEF Prepare, PutLocked, PublishLocked
  <2>4. Promise!Effect(cmd) = [x \in {cmd.key} |-> {cmd.value}]
    BY <1>1 DEF Promise!Effect
  <2> HIDE DEF kv, b
  <2>5. KeysOf(b.kvs) = {cmd.key} /\ b.kvs[LastIndex(b.kvs, cmd.key)] = kv
    BY <2>2, <2>3, SingleRecord
  <2>6. k = cmd.key => Shown(t)[k] = {cmd.value}
    BY <1>9, <2>2, <2>5
  <2>7. k # cmd.key => Shown(t)[k] = Shown(s)[k]
    BY <1>9, <2>5
  <2> QED BY <2>4, <2>6, <2>7
<1>2. CASE cmd.op = "Delete"
  <2> DEFINE kv == NewKV(s, cmd.key, EmptyStr, s.revision + 1)
             dv == [kv EXCEPT !.deleted = TRUE]
  <2>1. cmd.key \in Keys
    BY <1>2 DEF Commands
  <2>2. kv \in KVs /\ kv.key = cmd.key
    BY <1>0, <2>1, NewKVType, NewKVVersion, ValuesAssumption
  <2>3. b.kvs = <<dv>>
    BY <1>2 DEF Prepare, DeleteLocked
  <2> HIDE DEF kv
  <2>4. dv \in KVs /\ dv.key = cmd.key /\ dv.deleted
    BY <2>2 DEF KVs
  <2>5. Promise!Effect(cmd) = [x \in {cmd.key} |-> {}]
    BY <1>2 DEF Promise!Effect
  <2> HIDE DEF dv, b
  <2>6. KeysOf(b.kvs) = {cmd.key} /\ b.kvs[LastIndex(b.kvs, cmd.key)] = dv
    BY <2>3, <2>4, SingleRecord
  <2>7. k = cmd.key => Shown(t)[k] = {}
    BY <1>9, <2>4, <2>6
  <2>8. k # cmd.key => Shown(t)[k] = Shown(s)[k]
    BY <1>9, <2>6
  <2> QED BY <2>5, <2>7, <2>8
<1>3. CASE cmd.op = "BatchPut"
  <2> DEFINE p == cmd.puts
             m == b.kvs
             S == {i \in DOMAIN p : p[i].key = k}
  <2>1. p \in Seq(Putting) /\ Len(p) \in Nat /\ DOMAIN p = 1..Len(p)
    BY <1>3 DEF Commands
  <2>2. m = [i \in 1..Len(p) |-> NewKV(s, p[i].key, p[i].value, s.revision + i)]
    BY <1>3 DEF Prepare, BatchPutLocked
  <2>3. m \in Seq(KVs) /\ DOMAIN m = 1..Len(p) /\ Len(m) = Len(p)
    <3>1. m \in Seq(KVs) /\ DOMAIN m = 1..Len(m) /\ Len(m) \in Nat
      BY <1>0
    <3>2. DOMAIN m = 1..Len(p)
      BY <2>2
    <3> HIDE DEF m
    <3> QED BY <2>1, <3>1, <3>2
  <2>4. \A i \in 1..Len(p) : m[i].key = p[i].key /\ m[i].value = p[i].value /\ ~m[i].deleted
    BY <2>2 DEF NewKV
  <2>5. Promise!Effect(cmd) = [x \in {p[i].key : i \in DOMAIN p} |->
                                 {p[Max({i \in DOMAIN p : p[i].key = x})].value}]
    BY <1>3, SameMax DEF Promise!Effect
  <2>6. /\ k \notin KeysOf(m) => Shown(t)[k] = Shown(s)[k]
        /\ \A kv : k \in KeysOf(m) /\ kv = m[LastIndex(m, k)] /\ ~kv.deleted =>
             Shown(t)[k] = {kv.value}
    BY <1>9
  <2> HIDE DEF p, m, b
  <2>7. KeysOf(m) = {p[i].key : i \in DOMAIN p}
    BY <2>1, <2>3, <2>4 DEF KeysOf
  <2>8. CASE k \notin KeysOf(m)
    BY <2>5, <2>6, <2>7, <2>8
  <2>9. CASE k \in KeysOf(m)
    <3>1. S \in SUBSET Nat /\ S # {} /\ \A x \in S : x <= Len(p)
      BY <2>1, <2>7, <2>9
    <3>2. Max(S) \in S /\ \A x \in S : x <= Max(S)
      BY <2>1, <3>1, MaxIsGreatest
    <3>3. Promise!Effect(cmd)[k] = {p[Max(S)].value} /\ k \in DOMAIN Promise!Effect(cmd)
      BY <2>5, <2>7, <2>9
    <3> DEFINE i == Max(S)
    <3> HIDE DEF i
    <3>4. i \in 1..Len(p) /\ p[i].key = k /\ \A j \in 1..Len(p) : p[j].key = k => j <= i
      BY <2>1, <3>2 DEF i
    <3>5. i \in 1..Len(m) /\ m[i].key = k /\ \A j \in 1..Len(m) : m[j].key = k => j <= i
      BY <2>3, <2>4, <3>4
    <3>6. LastIndex(m, k) = i
      BY <2>3, <3>5, LastIndexUnique
    <3> QED BY <2>4, <2>6, <2>9, <3>3, <3>4, <3>6 DEF i
  <2> QED BY <2>8, <2>9
<1> QED BY <1>1, <1>2, <1>3 DEF Plain

\* One more command: the value of a key is what it says, if it names the key.
LEMMA ValueStep ==
  ASSUME NEW l, NEW i \in Nat, NEW k
  PROVE  ValueAfter(l, i + 1, k) =
           IF k \in DOMAIN Promise!Effect(l[i + 1]) THEN Promise!Effect(l[i + 1])[k]
           ELSE ValueAfter(l, i, k)
<1> DEFINE N(j) == {x \in 1..j : k \in DOMAIN Promise!Effect(l[x])}
<1>1. \A j : ValueAfter(l, j, k) = IF N(j) = {} THEN {} ELSE Promise!Effect(l[Max(N(j))])[k]
  BY DEF ValueAfter
<1>2. CASE k \in DOMAIN Promise!Effect(l[i + 1])
  <2>1. i + 1 \in N(i + 1) /\ N(i + 1) \in SUBSET Nat /\ \A x \in N(i + 1) : x <= i + 1
    BY <1>2
  <2> HIDE DEF N
  <2>2. Max(N(i + 1)) = i + 1
    <3>1. N(i + 1) # {} /\ i + 1 \in Nat
      BY <2>1
    <3> QED BY <2>1, <3>1, MaxIsGreatest
  <2> QED BY <1>1, <1>2, <2>1, <2>2
<1>3. CASE k \notin DOMAIN Promise!Effect(l[i + 1])
  <2>1. N(i + 1) = N(i)
    BY <1>3
  <2> HIDE DEF N
  <2> QED BY <1>1, <1>3, <2>1
<1> QED BY <1>2, <1>3

\* The value of a settled key.
LEMMA SettledValue ==
  ASSUME NEW l, NEW i \in Nat, NEW j \in Nat, i <= j, NEW k, Settled(l, i, j, k)
  PROVE  ValueAfter(l, i, k) = ValueAfter(l, j, k)
<1> DEFINE N(h) == {x \in 1..h : k \in DOMAIN Promise!Effect(l[x])}
<1>1. \A h : ValueAfter(l, h, k) = IF N(h) = {} THEN {} ELSE Promise!Effect(l[Max(N(h))])[k]
  BY DEF ValueAfter
<1>2. N(i) = N(j)
  <2>1. \A x \in 1..j : x \in 1..i \/ x \in (i + 1)..j
    OBVIOUS
  <2>2. \A x \in 1..i : x \in 1..j
    OBVIOUS
  <2> QED BY <2>1, <2>2 DEF Settled
<1> HIDE DEF N
<1> QED BY <1>1, <1>2

\* Values after the first commands depend on these only.
LEMMA ValueAgrees ==
  ASSUME NEW l, NEW m, NEW i \in Nat, \A x \in 1..i : l[x] = m[x], NEW k
  PROVE  ValueAfter(l, i, k) = ValueAfter(m, i, k)
<1> DEFINE N(q) == {x \in 1..i : k \in DOMAIN Promise!Effect(q[x])}
<1>1. \A q : ValueAfter(q, i, k) = IF N(q) = {} THEN {} ELSE Promise!Effect(q[Max(N(q))])[k]
  BY DEF ValueAfter
<1>2. N(l) = N(m) /\ N(l) \in SUBSET Nat /\ (\A x \in N(l) : x <= i) /\ N(l) \subseteq 1..i
  OBVIOUS
<1> HIDE DEF N
<1>3. CASE N(l) = {}
  BY <1>1, <1>2, <1>3
<1>4. CASE N(l) # {}
  <2>1. Max(N(l)) \in N(l)
    BY <1>2, <1>4, MaxIsGreatest
  <2>2. l[Max(N(l))] = m[Max(N(l))]
    BY <1>2, <2>1
  <2> QED BY <1>1, <1>2, <1>4, <2>2
<1> QED BY <1>3, <1>4

\* A longer log, as long as the commands in the store are the same.
LEMMA ShowsInLonger ==
  ASSUME NEW s, NEW l, NEW m, NEW i \in Nat, NEW j \in Nat, \A x \in 1..j : l[x] = m[x],
         ShowsFrom(s, l, i, j)
  PROVE  ShowsFrom(s, m, i, j)
<1> SUFFICES ASSUME NEW k \in Keys, Settled(m, i, j, k)
             PROVE  Shown(s)[k] = ValueAfter(m, j, k)
  BY DEF ShowsFrom
<1>1. Settled(l, i, j, k)
  <2>1. \A x \in (i + 1)..j : x \in 1..j
    OBVIOUS
  <2> QED BY <2>1 DEF Settled
<1>2. ValueAfter(l, j, k) = ValueAfter(m, j, k)
  BY ValueAgrees
<1> QED BY <1>1, <1>2 DEF ShowsFrom

\* on_apply, of a new command or of one that the store has had before.
LEMMA ShowsNext ==
  ASSUME NEW s, IsStore(s), NEW l, NEW i \in Nat, NEW j \in Nat, i <= j, ShowsFrom(s, l, i, j),
         l[i + 1] \in Commands, Plain(l[i + 1])
  PROVE  ShowsFrom(ApplyCmdToStore(s, l[i + 1], TRUE).store, l, i + 1,
                   IF j >= i + 1 THEN j ELSE i + 1)
<1> DEFINE e == Promise!Effect(l[i + 1])
           t == ApplyCmdToStore(s, l[i + 1], TRUE).store
           h == IF j >= i + 1 THEN j ELSE i + 1
<1> SUFFICES ASSUME NEW k \in Keys, Settled(l, i + 1, h, k)
             PROVE  Shown(t)[k] = ValueAfter(l, h, k)
  BY DEF ShowsFrom
<1>1. Shown(t)[k] = IF k \in DOMAIN e THEN e[k] ELSE Shown(s)[k]
  BY EffectIsShown
<1>2. ValueAfter(l, i + 1, k) = ValueAfter(l, h, k)
  BY SettledValue
<1>3. ValueAfter(l, i + 1, k) = IF k \in DOMAIN e THEN e[k] ELSE ValueAfter(l, i, k)
  BY ValueStep
<1>4. ASSUME k \notin DOMAIN e PROVE Shown(s)[k] = ValueAfter(l, i, k)
  <2>1. Settled(l, i, j, k)
    <3>1. \A x \in (i + 1)..j : x = i + 1 \/ x \in ((i + 1) + 1)..h
      OBVIOUS
    <3> QED BY <1>4, <3>1 DEF Settled
  <2>2. Shown(s)[k] = ValueAfter(l, j, k)
    BY <2>1 DEF ShowsFrom
  <2> QED BY <2>1, <2>2, SettledValue
<1> HIDE DEF e, t, h
<1> QED BY <1>1, <1>2, <1>3, <1>4

\* A store from which more is to be applied again shows less for certain.
LEMMA ShowsEarlier ==
  ASSUME NEW s, NEW l, NEW i \in Nat, NEW j \in Nat, NEW h \in Nat, h <= i,
         ShowsFrom(s, l, i, j)
  PROVE  ShowsFrom(s, l, h, j)
<1> SUFFICES ASSUME NEW k \in Keys, Settled(l, h, j, k)
             PROVE  Shown(s)[k] = ValueAfter(l, j, k)
  BY DEF ShowsFrom
<1>1. \A x \in (i + 1)..j : x \in (h + 1)..j
  OBVIOUS
<1>2. Settled(l, i, j, k)
  BY <1>1 DEF Settled
<1> QED BY <1>2 DEF ShowsFrom

\* What a store shows is in k/ alone.
LEMMA SameMainShows ==
  ASSUME NEW s, NEW t, s.main = t.main, NEW l, NEW i, NEW j, ShowsFrom(s, l, i, j)
  PROVE  ShowsFrom(t, l, i, j)
<1>1. \A k \in Keys : Shown(t)[k] = Shown(s)[k]
  BY DEF Shown, Absent, Existed
<1> QED BY <1>1 DEF ShowsFrom

\* The empty store shows the outcome of no command.
LEMMA EmptyShows ==
  ASSUME NEW l
  PROVE  ShowsFrom(EmptyStore, l, 0, 0)
<1> SUFFICES ASSUME NEW k \in Keys PROVE Shown(EmptyStore)[k] = ValueAfter(l, 0, k)
  BY DEF ShowsFrom
<1>1. Shown(EmptyStore)[k] = {}
  BY DEF Shown, Absent, Existed, EmptyStore
<1>2. {j \in 1..0 : k \in DOMAIN Promise!Effect(l[j])} = {}
  OBVIOUS
<1>3. ValueAfter(l, 0, k) = {}
  BY <1>2 DEF ValueAfter
<1> QED BY <1>1, <1>3

\* At first nobody has applied anything.
LEMMA InitShown == Init => ShownInv
<1> SUFFICES ASSUME Init, NEW n \in Nodes
             PROVE  ShowsFrom(store[n], log, NextFrom(n), extent[n]) /\ snap[n] = {}
  BY DEF ShownInv
<1>1. store[n] = EmptyStore /\ NextFrom(n) = 0 /\ extent[n] = 0 /\ snap[n] = {}
  BY DEF Init, NextFrom
<1> QED BY <1>1, EmptyShows

\* What a node that moves shows.
LEMMA MoveShown ==
  ASSUME \A cmd \in Cmds : Plain(cmd), ReplicaType, ShownInv, [Next]_vars,
         NEW n \in Nodes, NodeMoves(n), log' = log
  PROVE  /\ ShowsFrom(store'[n], log, NextFrom(n)', extent'[n])
         /\ \A s \in snap'[n] : ShowsFrom(LoadSnapshot(s.data), log, s.index, s.extent)
<1> DEFINE Kept ==
      /\ ShowsFrom(store'[n], log, NextFrom(n)', extent'[n])
      /\ \A s \in snap'[n] : ShowsFrom(LoadSnapshot(s.data), log, s.index, s.extent)
<1>0. /\ applied[n] \in Nat /\ extent[n] \in Nat /\ log \in Seq(Cmds) /\ Len(log) \in Nat
      /\ IsImage(store[n]) /\ (n \in failed \/ applied[n] <= extent[n])
      /\ (n \in failed => saving[n] = {}) /\ saving[n] \subseteq 1..applied[n]
  BY DEF ReplicaType, NodeType
<1>1. ShowsFrom(store[n], log, NextFrom(n), extent[n])
  BY DEF ShownInv
<1>2. \A m \in Nodes : \A s \in snap[m] :
        ShowsFrom(LoadSnapshot(s.data), log, s.index, s.extent)
  BY DEF ShownInv
<1>3. NextFrom(n) \in Nat
  BY <1>0 DEF NextFrom
<1> SUFFICES Kept
  OBVIOUS
<1>4. CASE Applies(n)
  <2> DEFINE i == applied[n]
  <2>1. /\ i + 1 \in 1..Len(log) /\ n \notin failed /\ n \notin failed' /\ applied'[n] = i + 1
        /\ extent'[n] = (IF extent[n] >= i + 1 THEN extent[n] ELSE i + 1)
        /\ snap'[n] = snap[n] /\ i <= extent[n]
        /\ store'[n] = ApplyCmdToStore(store[n], log[i + 1], TRUE).store
    BY <1>0, <1>4, MaxOfTwo DEF Applies
  <2>2. log[i + 1] \in Commands /\ Plain(log[i + 1])
    BY <1>0, <2>1, ReplicaAssumption
  <2>3. ShowsFrom(store[n], log, i, extent[n])
    BY <1>1, <2>1 DEF NextFrom
  <2>4. NextFrom(n)' = i + 1
    BY <2>1 DEF NextFrom
  <2>5. IsStore(store[n]) /\ i \in Nat
    BY <1>0, ImageIsStore
  <2> HIDE DEF i
  <2>6. ShowsFrom(store'[n], log, i + 1, extent'[n])
    BY <1>0, <2>1, <2>2, <2>3, <2>5, ShowsNext
  <2> QED BY <1>2, <2>1, <2>4, <2>6
<1>5. CASE Compacts(n)
  <2>1. /\ store'[n] = CompactionWrite(store[n], Excess(store[n].hist, KeepVersions))
        /\ extent'[n] = extent[n] /\ NextFrom(n)' = NextFrom(n) /\ snap'[n] = snap[n]
    BY <1>5 DEF Compacts, NextFrom
  <2>2. store'[n].main = store[n].main
    BY <2>1, CompactionKeepsMain
  <2> QED BY <1>1, <1>2, <2>1, <2>2, SameMainShows
<1>6. CASE Saves(n)
  <2>1. store'[n] = store[n] /\ extent'[n] = extent[n] /\ NextFrom(n)' = NextFrom(n)
    BY <1>6 DEF Saves, NextFrom
  <2>2. ASSUME NEW s \in snap'[n]
        PROVE  ShowsFrom(LoadSnapshot(s.data), log, s.index, s.extent)
    <3>1. CASE snap'[n] = snap[n]
      BY <1>2, <2>2, <3>1
    <3>2. ASSUME NEW i \in saving[n],
                 snap'[n] = {[index |-> i, data |-> ExportSnapshot(store[n]),
                              extent |-> extent[n], replayed |-> replayed[n]]}
          PROVE  ShowsFrom(LoadSnapshot(s.data), log, s.index, s.extent)
      <4>1. s.index = i /\ s.data = ExportSnapshot(store[n]) /\ s.extent = extent[n]
        BY <3>2
      <4>2. i \in Nat /\ i <= NextFrom(n)
        BY <1>0 DEF NextFrom
      <4>3. ShowsFrom(store[n], log, i, extent[n])
        BY <1>0, <1>1, <1>3, <4>2, ShowsEarlier
      <4>4. LoadSnapshot(s.data).main = store[n].main
        BY <1>0, <4>1, Reloaded
      <4>5. ShowsFrom(LoadSnapshot(s.data), log, i, extent[n])
        BY <4>3, <4>4, SameMainShows
      <4> QED BY <4>1, <4>5
    <3> QED BY <1>6, <3>1, <3>2 DEF Saves
  <2> QED BY <1>1, <2>1, <2>2
<1>7. CASE Rewinds(n)
  <2>1. /\ store'[n] = store[n] /\ extent'[n] = extent[n] /\ NextFrom(n)' = 0
        /\ snap'[n] = snap[n]
    BY <1>7 DEF Rewinds, NextFrom
  <2>2. ShowsFrom(store[n], log, 0, extent[n])
    BY <1>0, <1>1, <1>3, ShowsEarlier
  <2> QED BY <1>2, <2>1, <2>2
<1>8. ASSUME NEW m \in Nodes, NEW s \in snap[m], Loads(n, s) PROVE Kept
  <2>1. /\ store'[n] = LoadSnapshot(s.data) /\ extent'[n] = s.extent /\ NextFrom(n)' = s.index
        /\ (snap'[n] = snap[n] \/ snap'[n] = {s})
    BY <1>8 DEF Loads, NextFrom
  <2> QED BY <1>2, <2>1
<1>9. ASSUME NEW m \in Nodes, NEW s \in snap[m], Fails(n, s) PROVE Kept
  <2>1. NextFrom(n)' = 0 /\ snap'[n] = {s}
    BY <1>9 DEF Fails, NextFrom
  <2>2. ShowsFrom(store[n], log, 0, extent[n])
    BY <1>0, <1>1, <1>3, ShowsEarlier
  <2>3. ShowsFrom(store'[n], log, 0, extent'[n])
    BY <1>9, <2>2, EmptyShows DEF Fails
  <2> QED BY <1>2, <2>1, <2>3
<1> QED BY <1>4, <1>5, <1>6, <1>7, <1>8, <1>9 DEF NodeMoves

\* Every step keeps what the stores show.
LEMMA NextShown ==
  ASSUME \A cmd \in Cmds : Plain(cmd)
  PROVE  ReplicaType /\ ShownInv /\ [Next]_vars => ShownInv'
<1> SUFFICES ASSUME ReplicaType, ShownInv, [Next]_vars PROVE ShownInv'
  OBVIOUS
<1>0. Len(log) \in Nat /\ \A i \in 1..Len(log) : log[i] = log'[i]
  BY LogExtends
<1>1. ASSUME NEW s, NEW i \in Nat, NEW j \in Nat, j <= Len(log), ShowsFrom(s, log, i, j)
      PROVE  ShowsFrom(s, log', i, j)
  <2>1. \A x \in 1..j : log[x] = log'[x]
    BY <1>0, <1>1
  <2> QED BY <1>1, <2>1, ShowsInLonger
<1>2. ASSUME NEW n \in Nodes, Stays(n)
      PROVE  /\ ShowsFrom(store'[n], log', NextFrom(n)', extent'[n])
             /\ \A s \in snap'[n] : ShowsFrom(LoadSnapshot(s.data), log', s.index, s.extent)
  <2>1. /\ store'[n] = store[n] /\ extent'[n] = extent[n] /\ NextFrom(n)' = NextFrom(n)
        /\ snap'[n] = snap[n]
    BY <1>2 DEF Stays, NextFrom
  <2>2. extent[n] \in Nat /\ extent[n] <= Len(log) /\ NextFrom(n) \in Nat
    BY DEF ReplicaType, NodeType, NextFrom
  <2>3. ShowsFrom(store[n], log', NextFrom(n), extent[n])
    BY <1>1, <2>2 DEF ShownInv
  <2>4. ASSUME NEW s \in snap[n]
        PROVE  ShowsFrom(LoadSnapshot(s.data), log', s.index, s.extent)
    <3>1. s.index \in Nat /\ s.extent \in Nat /\ s.extent <= Len(log)
      BY DEF ReplicaType, NodeType, SnapType
    <3>2. ShowsFrom(LoadSnapshot(s.data), log, s.index, s.extent)
      BY DEF ShownInv
    <3> QED BY <1>1, <3>1, <3>2
  <2> QED BY <2>1, <2>3, <2>4
<1>3. CASE \A n \in Nodes : Stays(n)
  BY <1>2, <1>3 DEF ShownInv
<1>4. ASSUME NEW n \in Nodes, OneMoves(n) PROVE ShownInv'
  <2>1. log' = log /\ NodeMoves(n)
    BY <1>4 DEF OneMoves
  <2>2. /\ ShowsFrom(store'[n], log', NextFrom(n)', extent'[n])
        /\ \A s \in snap'[n] : ShowsFrom(LoadSnapshot(s.data), log', s.index, s.extent)
    BY <2>1, MoveShown
  <2> QED BY <1>2, <1>4, <2>2 DEF ShownInv, OneMoves
<1> QED BY <1>3, <1>4, StepMoves

-----------------------------------------------------------------------------
(* The theorems *)

\* The first invariant holds always; the other two rest on it.
LEMMA ReplicaInvariant == Spec => []ReplicaType
BY InitReplica, NextReplica, PTL DEF Spec

\* ConfigraftStateMachine: however commands, compactions, snapshots, failed
\* loads and restarts interleave, every store is well formed, no node is ahead
\* of the log, a node that is not in error has in its store what braft has
\* applied, and a snapshot holds at least the commands up to its index.
THEOREM ReplicaTypeCorrect == Spec => []TypeOK
<1>1. ReplicaType => TypeOK
  <2> SUFFICES ASSUME ReplicaType PROVE TypeOK
    OBVIOUS
  <2>1. ASSUME NEW n \in Nodes
        PROVE  /\ 0 <= applied[n] /\ applied[n] <= last[n] /\ last[n] <= Len(log)
               /\ extent[n] \in 0..Len(log)
               /\ n \in failed \/ applied[n] <= extent[n]
               /\ saving[n] \subseteq 1..applied[n]
    BY DEF ReplicaType, NodeType
  <2>2. ASSUME NEW n \in Nodes PROVE IsStore(store[n])
    BY ImageIsStore DEF ReplicaType, NodeType
  <2>3. ASSUME NEW n \in Nodes, NEW s \in snap[n]
        PROVE  /\ 0 < s.index /\ s.index <= s.extent /\ s.extent <= Len(log)
               /\ s.data \in Snapshots
    BY DEF ReplicaType, NodeType, SnapType, IsExport
  <2> QED BY <2>1, <2>2, <2>3 DEF ReplicaType, TypeOK
<1> QED BY <1>1, ReplicaInvariant, PTL

\* on_apply, on_snapshot_save and on_snapshot_load, of commands that do not read
\* the configuration history: a node that has recovered and to whose store no
\* command was applied twice has the values, versions and revisions of the log
\* executed once, whatever it compacted and whoever its snapshot came from.
THEOREM StoresAreExact ==
  ASSUME \A cmd \in Cmds : cmd.op # "Rollback"
  PROVE  Spec => []ExactUnlessReplayed
<1>1. ReplicaType /\ ExactInv => ExactUnlessReplayed
  <2> SUFFICES ASSUME ReplicaType, ExactInv, NEW n \in Nodes, ~replayed[n], Recovered(n)
               PROVE  Agrees(store[n], Executed(log)[applied[n]].store)
    BY DEF ExactUnlessReplayed, Agrees
  <2>1. applied[n] = extent[n]
    BY DEF ReplicaType, NodeType, Recovered
  <2> QED BY <2>1 DEF ExactInv
<1>2. ReplicaType /\ ExactInv /\ [Next]_vars => ExactInv'
  BY NextExact
<1>3. Spec => []ExactInv
  BY <1>2, InitExact, ReplicaInvariant, PTL DEF Spec
<1> QED BY <1>1, <1>3, ReplicaInvariant, PTL

\* What the first i commands make of all keys.
OutcomeOf(l, i) == [k \in Keys |-> ValueAfter(l, i, k)]

\* It is the outcome the promise speaks of.
LEMMA SameOutcome == \A i : Promise!Outcome(i) = OutcomeOf(log, i)
BY SameMax DEF Promise!Outcome, OutcomeOf, ValueAfter

\* A store with nothing left to apply again shows it.
LEMMA ShowsOutcome ==
  ASSUME NEW s, NEW l, NEW i \in Nat, ShowsFrom(s, l, i, i)
  PROVE  Shown(s) = OutcomeOf(l, i)
<1>1. ASSUME NEW k \in Keys PROVE Shown(s)[k] = ValueAfter(l, i, k)
  <2>1. Settled(l, i, i, k)
    BY DEF Settled
  <2> QED BY <2>1 DEF ShowsFrom
<1>2. Shown(s) = [k \in Keys |-> Shown(s)[k]]
  BY DEF Shown
<1> QED BY <1>1, <1>2 DEF OutcomeOf

\* What the nodes show: the refinement mapping of Promise.
View == [n \in Nodes |-> IF Recovered(n) THEN {Shown(store[n])} ELSE {}]

\* A node that has not moved shows what it showed.
LEMMA StaysShows ==
  ASSUME NEW n \in Nodes, Stays(n)
  PROVE  last'[n] = last[n] /\ View'[n] = View[n]
<1>1. /\ last'[n] = last[n] /\ store'[n] = store[n] /\ applied'[n] = applied[n]
      /\ extent'[n] = extent[n] /\ (n \in failed' <=> n \in failed)
  BY DEF Stays
<1>2. Recovered(n)' <=> Recovered(n)
  BY <1>1 DEF Recovered
<1> QED BY <1>1, <1>2 DEF View

\* The prefix a node has had only grows, and stays within the log.
LEMMA LastGrows ==
  ASSUME ReplicaType, NEW n \in Nodes, OneMoves(n)
  PROVE  last'[n] \in Nat /\ last[n] <= last'[n]
<1>1. last[n] \in Nat /\ applied[n] \in Nat
  BY DEF ReplicaType
<1>2. CASE Applies(n)
  BY <1>1, <1>2, MaxOfTwo DEF Applies
<1>3. CASE Compacts(n) \/ Saves(n) \/ Rewinds(n)
  BY <1>1, <1>3 DEF Compacts, Saves, Rewinds
<1>4. ASSUME NEW m \in Nodes, NEW s \in snap[m], Loads(n, s) \/ Fails(n, s)
      PROVE  last'[n] \in Nat /\ last[n] <= last'[n]
  <2>1. s.index \in Nat
    BY DEF ReplicaType, NodeType, SnapType
  <2> QED BY <1>1, <1>4, <2>1, MaxOfTwo DEF Loads, Fails
<1> QED BY <1>2, <1>3, <1>4 DEF OneMoves, NodeMoves

\* Init of the cluster is Init of the promise.
LEMMA InitPromise == Init => Promise!Init
<1> SUFFICES ASSUME Init PROVE Promise!Init
  OBVIOUS
<1>1. ReplicaType /\ ShownInv
  BY InitReplica, InitShown
<1>2. ASSUME NEW n \in Nodes
      PROVE  Recovered(n) /\ NextFrom(n) = 0 /\ extent[n] = 0
  BY DEF Init, Recovered, NextFrom
<1>3. ASSUME NEW n \in Nodes PROVE Shown(store[n]) = Promise!Outcome(0)
  <2>1. ShowsFrom(store[n], log, 0, 0)
    BY <1>1, <1>2 DEF ShownInv
  <2> QED BY <2>1, ShowsOutcome, SameOutcome
<1>4. [n \in Nodes |-> IF Recovered(n) THEN {Shown(store[n])} ELSE {}]
        = [n \in Nodes |-> {Promise!Outcome(0)}]
  BY <1>2, <1>3
<1> QED BY <1>4 DEF Init, Promise!Init

\* Every step of the cluster is one of the promise, or changes nothing it speaks
\* of.
LEMMA NextPromise ==
  ASSUME ReplicaType, ReplicaType', ShownInv', [Next]_vars
  PROVE  [Promise!Next]_<<log, last, View>>
<1>0. last \in [Nodes -> Nat] /\ last' \in [Nodes -> Nat]
  BY DEF ReplicaType
<1>1. CASE \A n \in Nodes : Stays(n)
  <2>1. last' = last
    BY <1>0, <1>1, StaysShows
  <2>2. View' = View
    <3>1. \A n \in Nodes : View'[n] = View[n]
      BY <1>1, StaysShows
    <3> QED BY <3>1 DEF View
  <2>3. CASE log' = log
    BY <2>1, <2>2, <2>3
  <2>4. ASSUME NEW cmd \in Cmds, log' = Append(log, cmd) PROVE Promise!Next
    BY <2>1, <2>2, <2>4 DEF Promise!Next, Promise!Extend, View
  <2> QED BY <1>1, <2>3, <2>4, StepMoves DEF OneMoves
<1>2. ASSUME NEW n \in Nodes, OneMoves(n) PROVE Promise!Next
  <2>1. log' = log /\ \A m \in Nodes : m # n => last'[m] = last[m] /\ View'[m] = View[m]
    BY <1>2, StaysShows DEF OneMoves
  <2>2. last'[n] \in last[n]..Len(log)
    <3>1. last'[n] <= Len(log')
      BY DEF ReplicaType, NodeType
    <3> QED BY <1>0, <1>2, <2>1, <3>1, LastGrows DEF ReplicaType
  <2>3. last' = [last EXCEPT ![n] = last'[n]]
    BY <1>0, <2>1
  <2>4. View' = [View EXCEPT ![n] = View'[n]]
    BY <2>1 DEF View
  <2>5. CASE Recovered(n)'
    <3>1. View'[n] = {Shown(store'[n])}
      BY <2>5 DEF View
    <3>2. /\ n \notin failed' /\ applied'[n] = last'[n] /\ extent'[n] = last'[n]
          /\ last'[n] \in Nat
      BY <2>5 DEF ReplicaType, NodeType, Recovered
    <3>3. ShowsFrom(store'[n], log', last'[n], last'[n])
      BY <3>2 DEF ShownInv, NextFrom
    <3>4. Shown(store'[n]) = Promise!Outcome(last'[n])
      BY <2>1, <3>2, <3>3, ShowsOutcome, SameOutcome
    <3>5. Promise!Show(n, last'[n])
      BY <2>1, <2>3, <2>4, <3>1, <3>4 DEF Promise!Show, View
    <3> QED BY <2>2, <3>5 DEF Promise!Next
  <2>6. CASE ~Recovered(n)'
    <3>1. View'[n] = {}
      BY <2>6 DEF View
    <3>2. Promise!Recover(n, last'[n])
      BY <2>1, <2>3, <2>4, <3>1 DEF Promise!Recover, View
    <3> QED BY <2>2, <3>2 DEF Promise!Next
  <2> QED BY <2>5, <2>6
<1> QED BY <1>1, <1>2, StepMoves

\* on_apply, on_snapshot_save and on_snapshot_load, of commands that overwrite
\* whatever was there: restarted at any time, replaying what it already holds, and
\* with snapshots newer than their index, the cluster implements ReplicatedMap.
\* A node that has recovered shows the outcome of the prefix it has had, and that
\* prefix never shrinks.
THEOREM ClusterKeepsPromise ==
  ASSUME \A cmd \in Cmds : Plain(cmd)
  PROVE  Spec => KeepsPromise
<1>1. ReplicaType /\ ShownInv /\ [Next]_vars => ShownInv'
  BY NextShown
<1>2. Spec => []ShownInv
  BY <1>1, InitShown, ReplicaInvariant, PTL DEF Spec
<1>3. ReplicaType /\ ReplicaType' /\ ShownInv' /\ [Next]_vars
        => [Promise!Next]_<<log, last, View>>
  BY NextPromise
<1>4. Spec => Promise!Init
  BY InitPromise DEF Spec
<1>5. Spec => [][Promise!Next]_<<log, last, View>>
  BY <1>2, <1>3, ReplicaInvariant, PTL DEF Spec
<1> QED BY <1>4, <1>5, PTL DEF KeepsPromise, Promise!Spec, View
=============================================================================
