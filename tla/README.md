# Verification of configraft

configraft is a configuration centre: a replicated multi-version key-value
store with published configuration versions, and an HTTP long-polling Watch.
This directory holds its TLA+ models, the TLC runs that check them on small
instances, and the theorems that TLAPS proves for all instances. Paths below
are relative to the repository.

## 1. The system

| Component | State | Operations | Code |
|---|---|---|---|
| Store | LevelDB: `k/` main index, `v/` history, `cfg/` published versions, `meta/revision`, `meta/compact_rev` | Put, Delete, CompareAndSwap, BatchPut, Publish, Rollback, Get, GetConfig, GetHistory, Compaction, ReplayEvents, ExportSnapshot, LoadSnapshot | `src/store/store.cpp`, `src/common/storekey.cpp` |
| Command application | none | `ApplyCmdToStore`: one RaftCmd becomes one store write, a result and watch events | `src/store/store_ops.cpp` |
| WatchHub | `waiters_`; per call a Waiter with buffer and overflow flag | Register, Unregister, Broadcast, Watch | `src/watch/watch_hub.cpp` |
| LocalNode | the write mutex | Apply, Get, GetConfig, Watch | `src/raft/local_node.cpp` |
| State machine | the leader term | on_apply, snapshot save and load | `src/raft/state_machine.cpp` |
| RaftNode | braft node | Apply with completion handshake, linearizable Get, AddPeer, RemovePeer | `src/raft/raft_node.cpp` |
| Compaction loop | stop flag, its mutex | Compaction(10) every 60 s | `src/server/server.cpp` |
| Server assembly | the objects above and brpc's server | Init, RunUntilAskedToQuit, destruction | `src/server/server.cpp`, `src/main/server_main.cpp` |
| Services | none | route REST and rpc requests, check arguments, fill answers | `src/server/*_service_impl.cpp`, `rest_util.h` |
| Client | one call; the channel's count of retries | call, retry, time out | `client/client_main.cpp` |
| Dashboard | none | sends files; `web/app.js` polls Watch in a loop | `dashboard_service_impl.cpp`, `web/` |

How they interact. A write reaches `ApplyCmdToStore` from one thread at a time:
under LocalNode's mutex, or on braft's apply thread. The store is then shared
with the compaction thread, with any number of Watch calls, with the snapshot
thread and with plain reads; `db_mu_` only keeps all of these apart from
`LoadSnapshot`. After a write the same thread hands the events to the hub, which
copies its list of waiters and fills one after the other, while Watch calls
register, replay, wait, time out and unregister.

What is hard:

- every write is a read of the revision and of the key, then a separate batch;
- compaction decides from an iterator and deletes later;
- replay reads three things one after the other (revision, iterator, compact_rev);
- a snapshot is exported during writes, and loading one wipes the history;
- registration, replay, broadcast and timeout of Watch interleave freely with
  the store write that precedes each broadcast;
- a write waits for a completion that may come from on_apply, from a refusal or
  from a leader that steps down, while the entry itself may live on; a read
  checks the lease, waits and reads while leaders come and go;
- on several replicas: local compaction, snapshots that are exported after their
  index was fixed, and restarts that apply the log again must not change what the
  common log means;
- a membership call gives up after 60 s, while braft still holds its closure;
- requests, the compaction thread and braft's threads use objects that the main
  thread creates after the server has started and destroys when it ends;
- a request is sent again when its connection breaks, and INTERNAL does not say
  whether a write will be executed.

What makes the parts correct: revisions are dense and unique and the main index
is the image of the log (Store); the floor `compact_rev` is honest, so resuming
is exact or refused (Store, Watch); a published version stays readable while it
is retained (Store); an answer of Watch is a gapless piece of the stream, ends
at its anchor, and every call returns (WatchHub); an answered read is
linearizable and an answered write had the outcome it was answered with
(RaftNode); replicas agree and come to agree again after a restart (state
machine); an OK for a membership change is true; nothing is used before it is
there or after it is gone, and the process exits (server); an answer is the truth
about its request, however it was routed (services).

## 2. Modules

`Store.tla` holds the operators: a store value is a record
`[main, hist, cfg, revision, compact_rev]`, one operator per store function,
with the source's names. A write command is first turned into the WriteBatch
that it issues (`Prepare`), because the code computes the batch before it writes
it. LevelDB is external: a batch is atomic (`WriteBatch`), an iterator reads the
content at the time it was made. Keys and values are model values; the three key
encodings are injective, so `v/` and `cfg/` are sets of records. Two things of
the code are kept although they look odd: every entry of a BatchPut takes its
version from the committed main index, and a delete of an absent key writes a
tombstone.

`ConcurrentStore.tla` is one node's store under its threads.

| Variable | Code |
|---|---|
| `store` | content of LevelDB |
| `mu`, `writer` | LocalNode's mutex (or braft's single apply thread) and the command in progress |
| `comp` | the compaction thread between its scan and its write |
| `reader` | ReplayEvents between CurrentRevision, NewIterator and the read of compact_rev |
| `export` | ExportSnapshot between pinning a LevelDB snapshot and the end of its reads |
| `saved` | the last exported snapshot |
| `log`, `published`, `savedLog`, `savedPublished` | history variables |

A write is `BeginWrite`, then `CommitWrite` or `FailWrite`; compaction is
`CompactionScan`, then `CompactionCommit`, whose status the code ignores; a
replay is three steps. An export is `ExportBegin`, which pins the content, and
`ExportEnd`, with writes, compaction and restarts in between; `savedLog` is the
log as it was when the content was pinned. `InstallSnapshot` is on_snapshot_load
on a running follower, of a snapshot that is one command ahead; it needs
`NoSharedHolder`, the exclusive `db_mu_`. `Restart` loses all threads and keeps LevelDB;
`RestartFromSnapshot` goes back to the saved snapshot, after which braft applies
later entries again.

`WatchHub.tla` is long polling on one node: the applier (`Apply`,
`BroadcastSnapshot`, `Deliver`, `EndBroadcast`) against Watch calls, whose
program counter names the places of `WatchHub::Watch`:

| pc | next step of the code |
|---|---|
| `catchup` | (1.5) the loop that waits for the node to reach from_revision |
| `register`, `current`, `replay` | (2) Register, CurrentRevision, ReplayEvents |
| `wait`, `blocked` | (3) the head of the loop, and inside `wait_until` |
| `unregister` | Unregister, on each of its three paths |
| `overflow`, `take` | reading the Waiter without its lock |
| `anchor` | reading CurrentRevision for an answer without events |

Store writes, compaction and replay are single steps here; that is what
ConcurrentStore justifies (`RevisionsDense`, `ReplayExact`). A broadcast visits
the waiters in any order, where the code uses the order of registration. The
unlocked read of the buffer races with `Deliver`; after such a race `TakeEvents`
may see any prefix of the buffer. A returned call's weak_ptr cannot be locked:
`Returned` takes it off the broadcast's list. The two INTERNAL answers are told
apart as BEHIND and OVERFLOW. `inflight` and `installed` are history. An installed
snapshot is always ahead: replicas are taken to agree on revisions here. A node
whose revisions have drifted (Replica) may also be set back by a snapshot; then no
single log describes its stream, and this is left out.

`RaftNode.tla` is `RaftNode::Apply` and `RaftNode::Get` on several nodes, with
`ApplyClosure` and the callbacks of the state machine, over the stores of
`Store.tla`. braft is external and modelled by what the code relies on:

| Variable | Meaning |
|---|---|
| `chosen` | the entries that a majority has; a new leader has all of them (`ElectableLogs`) and perhaps more of some other leader's log |
| `role`, `term`, `log` | the term in which a node leads (`is_leader()`), the last term of all, a leader's log |
| `commit`, `applied` | `committed_index`, `known_applied_index` |
| `lease` | the lease status; nobody is elected while one is VALID, and it does not start before the configuration entry of the term (`NoOp`) is committed |
| `leader_term`, `store` | `leader_term_` and the store of each node's state machine |
| `write`, `read` | the call of each thread; `closure` is "held" by braft, then "due" to run |
| `answered` | history: the last index that a finished call has shown |

A deposed leader goes on until it steps down, and may still learn that its own
entries were committed. `StepDown` fails the closures that on_apply has not been
given. A write is `ApplyNotLeader` or `ApplyBegin`, `ReadLeaderTerm`, `ApplyTask`,
`Run`, `ApplyReturn`; a read is `GetBegin`, `WaitLeaderLease` (a lease that is not
ready is waited for, which is stuttering, or given up at the deadline),
`GetRefused`, `WaitAppliedCatchUp` or `CatchUpTimeout`, `ReadStore`. Nodes do not
crash here, a committed entry can always be parsed, and the redirect address of
NOT_LEADER is left out.

`Replica.tla` is the stores of a cluster: one committed log, and per node the
applied index, the store, the last snapshot and the index of one being saved.
`on_apply`, `on_snapshot_save` and `save_snapshot` (two steps, because another
bthread exports), `on_snapshot_load`, local `Compaction`, `InstallSnapshot` from
another node, `InstallFails` before or after the old content is gone, and
`Restart`, after which braft begins behind the last snapshot or at the first
entry, whatever LevelDB holds. History: `extent`, the last command in a store,
and `replayed`, whether one was applied to a store that had it. `Recovered` says
that a node has applied again all it ever had.

`ReplicatedMap.tla` is the abstract specification: a log, and replicas that each
show the outcome of a prefix of it or are recovering; they never show a shorter
prefix than before. `Replica!KeepsPromise` is the refinement: `at` is the last
index a node has had, `view` the values its store shows while it is `Recovered`.
It promises values only, and only for commands that do not depend on what they
overwrite: section 5 says why no more can be promised.

`Membership.tla` is AddPeer and RemovePeer with `ConfChangeClosure` and the
`ConfChangeOutcome` the two share: `ConfChange` (the checks), `Submit`, `Run`,
`WaitDone`, `WaitTimeout`. braft is external: it refuses a second change, lets a
new peer catch up, may leave the entry of a deposed leader to the next one
(`orphan`), and other leaders change the group as they like.

`Server.tla` extends it to one process: `main` walks through
`ConfigraftServer::Init`, `RaftNode::Init` and the destructors, one place per
early return or member; `loop` is the compaction thread with its mutex; brpc
hands out requests between Start and Stop; `applying` is braft's thread. What the
calls do is in the other modules: here a step only dereferences objects
(`Touch`), and `fault` collects every dereference of one that is not live. `node_`
is there (`CreateBraft`) before it runs (`InitBraft`), and requests find it in
between. A write is handed over (`RequestApply`) and then waits, without a
deadline, until braft runs its closure (`RequestReleased`).

`Services.tla` is the way of a request: the client's call and its channel (`Call`,
`Retry`, `Reply`, `Fail`), one handler for each time the request was sent, the
routing of both services (`KVRest`, `ConfigRest`, `KVRpc`, `ConfigRpc`), the checks, and the
node. Keys and paths are sequences of segments, so that reserved words and keys
below other keys are there; a body that does not parse leaves the fields empty.
`IsRequest` says what a request may be: any method and path, or any method of a
stub, about the keys of the instance or about an empty one.
The node refuses as a follower, executes, or steps down and answers INTERNAL with
the entry left in the log (`LateCommit`). GetConfig takes two steps, as its two
reads do; compaction, and the snapshot of a replica that may have compacted
(`InstallSnapshot`), can fall in between.

The `MC` modules give the commands, filters and requests of the instances.
Definitions whose comment starts with "Mutant" are plausible mistakes, one for each
property: replacing the named definition by it makes the property fail, so the
property depends on the code it is about.

The theorems about a module `M` are in `MProofs.tla`; `StoreProofs.tla` has the
lemmas about the operators of `Store.tla` that all of them use.

## 3. Runs

| Run | Checks | Instance |
|---|---|---|
| store_writes | TypeOK, RevisionsDense, MainIsLatest, NewestRetained, SnapshotConsistent, PublishedReadable, CasAtomic, KeepsVersions | 2 writers, 2 keys, every kind of command, rollback to a version and to the current value, a batch that repeats a key, keep 1, 4 revisions |
| store_replay | NoHoleAboveCompactRev, ReplayExact | 1 writer, 1 replay of at most 2 events with or without a filter, keep 1 |
| watch_stream | TypeOK, ResponseExact, OnlyInFlightRepeated, NoLeakedWaiter, WatchTerminates, WokenByEvent | 1 watcher, from_revision -1 to 4, with or without a filter, buffer of 2, deletions and batches of 2, keep 1, 4 revisions |
| raft_reads | TypeOK, ReadsLinearizable, ApplyReturns | 2 nodes, 2 terms, a write and a read on any nodes, linearizable or not |
| raft_writes | AnswerMatchesOutcome | 2 nodes, 2 terms, two writes: a put, or a creation that is refused after another write |
| replica_agree | TypeOK, ExactUnlessReplayed, KeepsPromise, Converges | 2 nodes, 2 commands out of a publication, a deletion and a batch that repeats a key, keep 1, 1 restart |
| membership | MemberTypeOK, OkMeansCommitted, OutcomeOutlivesCall, ConfChangeReturns | 2 calls, 3 peers, a malformed address, 2 changes of the leader |
| server | TypeOK, UsesLiveObjects, ShutdownCompletes | both modes, every early return, 1 request and 1 membership call at a time, compaction, on_apply |
| services | TypeOK, AnswersTrue, ConfigAnswerCoherent | 3 clients: one makes any of 16 requests and may send it twice, two publish; compaction and snapshot installs; keys `app` and `app/db` next to paths with reserved words, keep 1 |
| watch_timeout_loss, raft_silent_failure, replica_cas | one documented statement each, found violated (section 5) | the smallest instance with the case in it |

Bounds. `RevisionBound` ends a behaviour's writes: four revisions give a batch,
a compaction that drops something and a write before, between and after each
read of a replay. Two writers are enough because any violation of exclusion is
between two. `KeepVersions` is 1 instead of 10 and `MaxEvents` and
`MaxWatchEvents` 1 or 2 instead of 1024, so that compaction, the cut of a replay
and overflow happen within the bound; with four revisions a buffer that has
overflowed is also filled again. One watcher is enough for the safety of
its own answer: a call reads and writes only the store, its own Waiter and its
own entry of the hub's list. In RaftNode two nodes are enough for a deposed
leader next to the one that replaced it, because the rest of the group is not
told apart, and two terms for a node that loses and regains leadership within a
call. Nodes and the two writers of raft_writes are interchangeable: their
symmetry is used there. In Replica two commands are enough for a snapshot whose
export holds one more than its index, and one restart for commands that are
applied twice on the node or behind an installed snapshot. In Membership two
calls are enough for a change that meets another one, and two changes of the
leader for one that is deposed and comes back. In Services three clients are
needed for two publications and a read of the history between them, and
`MaxRetry` is 1 instead of brpc's 3: a second sending already overtakes the first.
Deadlock is checked in the runs of ConcurrentStore and WatchHub; in the others
calls, logs and terms are bounded and a process exits, so behaviours end.

Fairness. The scheduler runs every thread: weak fairness of the broadcast and of
the steps that a call takes by itself (`SchedulerFairness`). Catch-up has a
deadline, so it counts among those steps. Deadlines of `wait_until` are absolute,
so a call that is woken over and over still times out: strong fairness of
`Timeout` (`TimeoutFairness`), which is a premise of WatchTerminates and not part
of the specification. WokenByEvent does without it. ApplyReturns
assumes that bthreads run (`ThreadFairness`) and of braft (`BraftFairness`) that
the leader elected last reaches a majority, that a deposed one steps down, and
that nodes learn what is committed and apply it: braft heartbeats, and makes a
leader that lost its majority step down. Elections are not assumed. Converges
assumes only that braft applies what is committed, and speaks of nodes that are
not in error for good. ConfChangeReturns assumes that the calls' threads run and
their deadlines pass, and nothing of braft. ShutdownCompletes assumes that
threads run, that the destructor gets a mutex that is free again and again
(strong fairness) and that braft runs the closure of every write it was given,
which is what ApplyReturns shows for the paths of a closure; the timer of the compaction loop may never fire again. Nothing
assumes that commands arrive, that clients cancel, or that wakeups are spurious.

## 4. Theorems

Every invariant and safety property that a passing run checks is also proved, for
any sets of keys, values, commands (of the six kinds), threads, nodes, peers,
clients and requests and any bounds. What TLC adds is the liveness properties, the
three violations, and the evidence that the instances reach the interesting cases.

| Module | Theorem | Property | Under |
|---|---|---|---|
| ConcurrentStoreProofs | TypeCorrect | TypeOK | |
| | DenseRevisions | RevisionsDense | |
| | CompactRevIsFloor | NoHoleAboveCompactRev | |
| | MainIndexCorrect | MainIsLatest | |
| | NewestIsKept | NewestRetained | |
| | SnapshotIsPoint | SnapshotConsistent | |
| | CasIsAtomic | CasAtomic | |
| | ReplayIsExact | ReplayExact | |
| | PublishedStaysReadable | PublishedReadable | |
| | CompactionKeepsVersions | KeepsVersions | |
| WatchHubProofs | HubTypeCorrect | TypeOK | |
| | WaitersAreFreed | NoLeakedWaiter | |
| | RepeatsAreInFlight | OnlyInFlightRepeated | |
| | AnswersAreExact | ResponseExact | |
| RaftNodeProofs | RaftTypeCorrect | TypeOK | |
| | ReadsAreLinearizable | ReadsLinearizable | `~StoreMayFail` |
| | AnswersMatchOutcomes | AnswerMatchesOutcome | `~StoreMayFail` |
| ReplicaProofs | ReplicaTypeCorrect | TypeOK | |
| | StoresAreExact | ExactUnlessReplayed | no Rollback among `Cmds` |
| | ClusterKeepsPromise | KeepsPromise | all `Cmds` are `Plain` |
| MembershipProofs | MemberTypeCorrect | MemberTypeOK | |
| | OkIsTrue | OkMeansCommitted | |
| | OutcomeLifetime | OutcomeOutlivesCall | |
| ServerProofs | ProcessTypeCorrect | TypeOK | |
| | NoUseOfFreedObjects | UsesLiveObjects | |
| | MembershipInProcess | OkMeansCommitted and OutcomeOutlivesCall of the process | |
| ServicesProofs | ServicesTypeCorrect | TypeOK | |
| | AnswersAreTrue | AnswersTrue | |
| | ConfigAnswersAreCoherent | ConfigAnswerCoherent | |

**Assumptions.** Of the constants the proofs use only the named assumptions of the
modules, which TLC evaluates in every run: the empty string is a value
(`ValuesAssumption`), commands are well formed, bounds are numbers and numbers of
kept versions are what the code passes, the markers for "nobody" are nobody, and
a node belongs to its own group (`ConstantsAssumption`, `WatchAssumption`,
`RaftAssumption`, `ReplicaAssumption`, `MembershipAssumption`,
`ServicesAssumption`). `RequestsAssumption` says that requests are requests
(`IsRequest`), that keys are sequences of strings and that no key is empty; that the
services keep empty keys away from the store is then what TypeOK states. The three
hypotheses in the table cannot be dropped. A write that LevelDB refuses on one
node makes its store differ for good (raft_silent_failure). A rollback reads `cfg/`,
which each node compacts by itself (section 5). A CAS that is applied again may see
what it has written (replica_cas); `Plain` commands are Put, Publish, Delete and
BatchPut.

**The arguments.** No property is inductive alone. Each proof module begins its
proof with the invariant that is, in named parts with a comment each; then follow a
lemma for each action or group of actions, and the theorems.

- *Store.* A store value is described by `Image(store, log)`: dense revisions, no
  hole above the floor, main index equal to the newest records, and these in
  history. `StoreProofs` shows once and for all that writing a batch
  (`WriteBatchImage`), deleting what a scan found in excess (`CompactionImage`) and
  loading a snapshot (`LoadSnapshotImage`) preserve it.
- *ConcurrentStore*, `IInv`. A prepared batch must still fit the store when it is
  written (`WriterInv`: its writer holds the mutex, its revisions follow the
  store's, a CAS still matches); what a compaction or a replay saw must be part of
  the log, and a replay's iterator must hold everything above the compact_rev of
  *now*, not of when it was made (`ScanInv`); the saved snapshot must be the image
  of the log it was taken from (`SavedInv`), and so must the pinned content of an
  export that is still read (`ExportInv`). A second invariant on top of it,
  `RetainInv`, says that versions grow along the log, that `cfg/` has what was
  published and is still in history (here, in the pinned content and in the saved
  snapshot), that a
  prepared batch still carries the next versions, and that nothing which a
  compaction has scanned leaves history before it commits.
- *WatchHub*, `HubInv`. The part that matters is `BufferOf`: while a call is
  registered there is a revision up to which its buffer is the stream without a
  gap, and this is the log's end, or short of it by just the events that the
  applier still owes it (`Given`). Before the replay it is complete only after
  `cur`, which is why the replay's range and the buffer join without a gap. The
  unlocked read is covered because a prefix of a gapless piece is one.
- *RaftNode*, `RaftInv`. Elections: entries are in the order of their terms, the
  leader of the last term has all that is chosen, and nobody learns that an entry
  of its term is committed before it does (`FirstToKnow`). Hence a leader whose
  lease has begun, which takes a committed entry of its own term, knows all that
  was ever shown (`LeaseKnowsAll`), and a read that waits for its commit index
  cannot be stale. For writes: a call is in any log at most once and not before its
  task (`OnceInv`), and from then on closure, code and log tell the same
  (`OutcomeInv`).
- *Replica.* `ReplicaType` makes every store an image of some log, with
  duplicates or without. `ExactInv`: as long as nothing was applied twice a store,
  and what a snapshot will be loaded into, agrees with the log executed once up to
  its `extent`. `ShownInv` is what survives a second application: a store that has
  j commands and is to apply those after i again shows the outcome of every key
  that these do not name. Each step of Replica then maps to a step of
  ReplicatedMap or changes nothing of it (`NextPromise`).
- *Membership*, `MemberInv`: at most one change is under way, and it belongs to the
  one call whose closure braft holds; an "ok" on its way to a closure or left in
  an outcome is that of a call whose change has been committed since (`StatusInv`).
  *Server*, `ServerInv`, is `MemberInv` together with what each place of `main`
  implies about the objects and about who may still use them.
- *Services*, `ServicesInv`: each handler has written nothing before it answers
  or while its entry is left behind, its answer is what it wrote, and the version
  that the first read of GetConfig found stays in `cfg/` until compaction or an
  installed snapshot takes it away.
  `RankSorts` shows that ordering records by how many are below each sorts them;
  replay, broadcast and the history of GetConfig rest on it.

What the log makes of a store is a recursive function (`Executed`). The library's
induction theorems cannot be used by the installed provers, so that it exists and
that it depends on the prefix alone is proved by minimal counterexample
(`MinExists`, `RunsExist`, `RunsAgree`).

**Only model-checked** are the liveness properties, which are out of the prover's
reach: WatchTerminates, WokenByEvent, ApplyReturns, Converges, ConfChangeReturns
and ShutdownCompletes; and the three violations of section 5, which are
counterexamples.

## 5. Where code and documentation disagree

- **An empty answer can skip events** (watch_timeout_loss). A command is written
  after the replay of a call and before its broadcast; the call times out and
  takes the store's revision as its anchor, past the event. `node.h:42-43`
  promises that resuming there loses nothing.
- **A failed apply is silent** (raft_silent_failure). The comment at
  `state_machine.cpp:49-50` wants a LevelDB error during on_apply to be noticed,
  but only entries with a closure report it: a follower counts the entry as
  applied and lacks it from then on. This is why raft_reads assumes that LevelDB
  does not refuse writes.
- **Applying the log again can change values** (replica_cas). After a restart
  without a snapshot the log is applied to a store that has it. The log "CAS v1 to
  v2, CAS absent to v1" leaves v1, and v2 the second time. `docs/raft-and-braft.md:310`
  calls this idempotent, and the review report, which knows that revisions drift,
  says that values still agree (`docs/安全审查报告.md:50`).

Others, seen while modelling and without a run of their own:

- *An overflow skips events.* The buffer is cleared and the anchor is read from the
  store afterwards, so the replay that `docs/watch.md:67` counts on starts behind
  the dropped events.
- *Unlocked reads race with a broadcast*, against the comment at
  `watch_hub.cpp:193-194`: until Watch returns it holds the Waiter, so an older
  copy of the list can still lock it. The model has the race; ResponseExact holds
  for whatever prefix of the buffer is seen.
- *A snapshot install opens a gap*: it moves the store ahead without a broadcast,
  and a waiting call answers with the next event. ResponseExact leaves these calls
  out, and so does EmptyLosesNothing. A snapshot that sets a drifted node back is
  not in the model.
- *A late export makes revisions diverge.* `state_machine.cpp:99-101` and
  `store.cpp:601` say that the single LevelDB snapshot keeps the numbering equal
  across nodes. It makes a snapshot consistent, but not with the index that braft
  fixed before: entries in between are applied again on load. KeepsPromise holds
  nevertheless, since values converge; ExactUnlessReplayed says that applying twice
  is the only cause.
- *Rollback depends on local compaction.* It reads `cfg/`, which each node compacts
  on its own timer, so one entry may succeed on one replica and be refused on
  another, against "各副本天然一致" in `docs/notes/05`.
- *Reads before RaftNode::Init.* The server is started before the node has a store;
  a serializable read, GetConfig or Watch in this window dereferences a null
  pointer. UsesLiveObjects names it as the only such case.
- A call that registers between the store write and the broadcast of a command it
  already knows gets it again, although `watch_hub.cpp:140` calls replay and
  broadcast disjoint (OnlyInFlightRepeated says that this one command is all that
  can be repeated); when catch-up times out, current_revision is below
  from_revision, against `watch_hub.cpp:119` and `docs/m7.md:64`; a key that occurs
  twice in a batch gets the same version twice, against
  `proto/configraft.proto:31`; a node elected between IsLeader and LeaderId
  redirects to itself.

## 6. Not modelled, and the plan

Not modelled, and why:

- braft, LevelDB and brpc inside: external, modelled by what the code relies on;
- the dashboard: it reads a file and sends it. The polling loop of `web/app.js`
  keeps one number, from_revision, and WatchHub lets it be any;
- the redirect address of NOT_LEADER and the numbers of Health: text for the
  reader of an answer, which nothing in the code uses;
- errors of LevelDB reads: the code takes them for an empty store, so a property
  would only restate that;
- wording, headers, flags, query strings, authentication.

Plan:

1. The safety property beneath each liveness property (what a waiting call waits
   for is there or still to come), which would leave fairness as the only thing
   that TLC shows alone.
2. That WatchHub's single-step store writes and replays are what ConcurrentStore
   implements, as a refinement instead of the two properties that justify it now.
3. ReadsLinearizable with a LevelDB that may refuse writes, for nodes on which it
   has not done so.
