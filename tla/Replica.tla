------------------------------- MODULE Replica -------------------------------
(***************************************************************************)
(* The stores of a cluster (src/raft/state_machine.cpp over Store): every  *)
(* node applies the same committed log, compacts its own history on its    *)
(* own timer, saves snapshots of its own store, loads the snapshot of      *)
(* another node when it has fallen behind, and is restarted.               *)
(* braft is external:                                                      *)
(*   - it applies the log in order and counts in memory how far it is:     *)
(*     after a restart it begins again behind its last snapshot, or at the *)
(*     first entry, whatever LevelDB already holds;                        *)
(*   - it fixes the index of a snapshot when it calls on_snapshot_save,    *)
(*     and goes on applying while another bthread exports the store;       *)
(*   - it saves and loads one snapshot at a time;                          *)
(*   - a snapshot is sent to a node that lacks an entry it covers.         *)
(* A restart is that of a killed process: LevelDB and the raft log keep    *)
(* what was written.                                                       *)
(***************************************************************************)
EXTENDS Store, FiniteSetsExt

CONSTANTS
  Nodes,         \* the replicas
  Cmds,          \* the commands
  KeepVersions,  \* kKeepVersions
  LogBound,      \* bound: no command after this many
  RestartBound   \* bound: no restart after this many

ASSUME ReplicaAssumption ==
  /\ \A c \in Cmds : c \in Commands
  /\ KeepVersions \in Nat \ {0}
  /\ LogBound \in Nat /\ RestartBound \in Nat

VARIABLES
  log,       \* braft: the committed commands
  applied,   \* braft: the applied index of each node
  last,      \* braft: the last index each node has had, snapshots included
  failed,    \* braft: nodes in error, which apply nothing until a restart
  saving,    \* braft: the index of the snapshot being saved, if any
  snap,      \* the last snapshot of each node, if any
  store,     \* the store of each node
  extent,    \* history: the last index whose command is in the store
  replayed,  \* history: a command was applied to a store that had it
  restarts   \* restarts so far

braft == <<log, applied, last, failed, saving>>
content == <<store, extent, replayed>>
vars == <<braft, snap, content, restarts>>

Init ==
  /\ log = <<>>
  /\ applied = [n \in Nodes |-> 0]
  /\ last = [n \in Nodes |-> 0]
  /\ failed = {}
  /\ saving = [n \in Nodes |-> {}]
  /\ snap = [n \in Nodes |-> {}]
  /\ store = [n \in Nodes |-> EmptyStore]
  /\ extent = [n \in Nodes |-> 0]
  /\ replayed = [n \in Nodes |-> FALSE]
  /\ restarts = 0

-----------------------------------------------------------------------------

\* A command is committed: see RaftNode.
Commit(cmd) ==
  /\ Len(log) < LogBound
  /\ log' = Append(log, cmd)
  /\ UNCHANGED <<applied, last, failed, saving, snap, content, restarts>>

\* One entry of on_apply.  Whether the store has had this command before is
\* not looked at.
on_apply(n) ==
  LET i == applied[n] + 1
  IN  /\ n \notin failed
      /\ i <= Len(log)
      /\ applied' = [applied EXCEPT ![n] = i]
      /\ last' = [last EXCEPT ![n] = Max({@, i})]
      /\ store' = [store EXCEPT ![n] = ApplyCmdToStore(@, log[i], TRUE).store]
      /\ extent' = [extent EXCEPT ![n] = Max({@, i})]
      /\ replayed' = [replayed EXCEPT ![n] = @ \/ i <= extent[n]]
      /\ UNCHANGED <<log, failed, saving, snap, restarts>>

\* The compaction loop of this node.
Compaction(n) ==
  LET dropped == Excess(store[n].hist, KeepVersions)
  IN  /\ dropped # {}
      /\ store' = [store EXCEPT ![n] = CompactionWrite(@, dropped)]
      /\ UNCHANGED <<braft, snap, extent, replayed, restarts>>

\* braft calls on the applying thread, at the index it has applied; the export
\* is left to another bthread.
on_snapshot_save(n) ==
  /\ n \notin failed
  /\ saving[n] = {}
  /\ \A s \in snap[n] : applied[n] > s.index
  /\ applied[n] > 0
  /\ saving' = [saving EXCEPT ![n] = {applied[n]}]
  /\ UNCHANGED <<log, applied, last, failed, snap, content, restarts>>

\* save_snapshot: the store as it is now goes with the index that was fixed
\* before, unless the export or the file fails.
save_snapshot(n, ok) ==
  \E i \in saving[n] :
    /\ saving' = [saving EXCEPT ![n] = {}]
    /\ snap' = IF ~ok THEN snap
               ELSE [snap EXCEPT ![n] =
                       {[index |-> i, data |-> ExportSnapshot(store[n]),
                         extent |-> extent[n], replayed |-> replayed[n]]}]
    /\ UNCHANGED <<log, applied, last, failed, content, restarts>>

\* Mutant: on_snapshot_load reports success although the file was not read.
LoadNothing(n, s) ==
  /\ applied' = [applied EXCEPT ![n] = s.index]
  /\ last' = [last EXCEPT ![n] = Max({@, s.index})]
  /\ extent' = [extent EXCEPT ![n] = Max({@, s.index})]
  /\ UNCHANGED <<store, replayed>>

\* on_snapshot_load: the store is wiped and filled from the snapshot.
on_snapshot_load(n, s) ==
  /\ store' = [store EXCEPT ![n] = LoadSnapshot(s.data)]
  /\ applied' = [applied EXCEPT ![n] = s.index]
  /\ last' = [last EXCEPT ![n] = Max({@, s.index})]
  /\ extent' = [extent EXCEPT ![n] = s.extent]
  /\ replayed' = [replayed EXCEPT ![n] = s.replayed]

\* A node takes over the snapshot of another one and loads it.
InstallSnapshot(n, m) ==
  \E s \in snap[m] :
    /\ n \notin failed /\ saving[n] = {}
    /\ s.index > last[n]
    /\ snap' = [snap EXCEPT ![n] = {s}]
    /\ on_snapshot_load(n, s)
    /\ UNCHANGED <<log, failed, saving, restarts>>

\* on_snapshot_load fails, before LoadSnapshot has removed the old content or
\* after it: braft stops.
InstallFails(n, m) ==
  \E s \in snap[m] :
    /\ n \notin failed /\ saving[n] = {}
    /\ s.index > last[n]
    /\ snap' = [snap EXCEPT ![n] = {s}]
    /\ failed' = failed \cup {n}
    /\ \/ UNCHANGED content
       \/ /\ store' = [store EXCEPT ![n] = EmptyStore]
          /\ extent' = [extent EXCEPT ![n] = 0]
          /\ replayed' = [replayed EXCEPT ![n] = FALSE]
    /\ UNCHANGED <<log, applied, last, saving, restarts>>

\* Init of a killed process: Open, and braft's init, which loads the snapshot
\* if there is one.
Restart(n) ==
  /\ restarts < RestartBound
  /\ restarts' = restarts + 1
  /\ failed' = failed \ {n}
  /\ saving' = [saving EXCEPT ![n] = {}]
  /\ \/ /\ snap[n] = {}
        /\ applied' = [applied EXCEPT ![n] = 0]
        /\ UNCHANGED <<last, content>>
     \/ \E s \in snap[n] : on_snapshot_load(n, s)
  /\ UNCHANGED <<log, snap>>

Next ==
  \/ \E cmd \in Cmds : Commit(cmd)
  \/ \E n \in Nodes :
       \/ on_apply(n)
       \/ Compaction(n)
       \/ on_snapshot_save(n)
       \/ \E ok \in BOOLEAN : save_snapshot(n, ok)
       \/ \E m \in Nodes : InstallSnapshot(n, m) \/ InstallFails(n, m)
       \/ Restart(n)

Spec == Init /\ [][Next]_vars

\* braft applies what is committed.
FairSpec == Spec /\ \A n \in Nodes : WF_vars(on_apply(n))

-----------------------------------------------------------------------------
(* Properties *)

\* Types; a snapshot holds at least the commands up to its index.
TypeOK ==
  /\ log \in Seq(Cmds)
  /\ failed \subseteq Nodes
  /\ restarts \in 0..RestartBound
  /\ \A n \in Nodes :
       /\ 0 <= applied[n] /\ applied[n] <= last[n] /\ last[n] <= Len(log)
       /\ extent[n] \in 0..Len(log)
       /\ n \in failed \/ applied[n] <= extent[n]
       /\ saving[n] \subseteq 1..applied[n]
       /\ IsStore(store[n])
       /\ \A s \in snap[n] : /\ 0 < s.index /\ s.index <= s.extent
                             /\ s.extent <= Len(log)
                             /\ s.data \in Snapshots

\* Everything that is in the store has been applied since the last restart, and
\* everything the node ever had is in it again.
Recovered(n) ==
  /\ n \notin failed
  /\ applied[n] >= last[n]
  /\ applied[n] >= extent[n]

\* ConfigraftStateMachine: unless some command was applied to a store that had
\* it already, a node agrees with every other one on values, versions and
\* revisions, whatever was compacted, saved, loaded and restarted, and whoever
\* the snapshot came from.
ExactUnlessReplayed ==
  \A n \in Nodes :
    ~replayed[n] /\ Recovered(n) =>
      LET s == Executed(log)[applied[n]].store
      IN  /\ store[n].main = s.main
          /\ store[n].revision = s.revision
          /\ store[n].cfg \subseteq s.cfg

Shown(s) == [k \in Keys |-> IF Absent(s, k) THEN {} ELSE {s.main[k].value}]

\* The cluster as the promise of ReplicatedMap sees it.
Promise == INSTANCE ReplicatedMap WITH
  at   <- last,
  view <- [n \in Nodes |->
             IF Recovered(n) THEN {Shown(store[n])} ELSE {}]

\* The state machine, restarted at any time and with snapshots that are newer
\* than their index, keeps the promise of ReplicatedMap.
KeepsPromise == Promise!Spec

\* on_apply after a restart or a snapshot: a node that is not in error comes to
\* show the outcome of the whole log.
Converges ==
  \A n \in Nodes :
    <>[](n \notin failed) =>
      <>[](Recovered(n) /\ Shown(store[n]) = Promise!Outcome(Len(log)))

\* The review report on a restart without snapshot: the values still agree,
\* because writes are idempotent.
ValuesAgreeAfterReplay ==
  \A n \in Nodes : Recovered(n) => Shown(store[n]) = Shown(Executed(log)[applied[n]].store)
=============================================================================
