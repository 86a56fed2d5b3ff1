------------------------------ MODULE WatchHub ------------------------------
(***************************************************************************)
(* Long polling (src/watch/watch_hub.cpp) on one node: the thread that     *)
(* applies commands and broadcasts their events, against the threads that  *)
(* sit in WatchHub::Watch.                                                 *)
(*   - The applier is on_apply of the state machine, or LocalNode::Apply   *)
(*     under its mutex.  It writes the store, then copies the list of      *)
(*     waiters, then fills one waiter after the other.                     *)
(*   - A watcher runs one Watch call at a time.  Each read of the store,   *)
(*     each use of the hub's list and each section under the waiter's      *)
(*     mutex is a step of its own.                                         *)
(* Writes, compaction and replay are atomic here: ConcurrentStore takes    *)
(* them apart and shows (RevisionsDense, ReplayExact) that this is sound.  *)
(* log is a history variable: log[r] is the record written at revision r.  *)
(***************************************************************************)
EXTENDS Store

CONSTANTS
  Watchers,       \* threads that serve Watch calls
  Cmds,           \* the commands that get applied
  Froms,          \* the values of from_revision that clients send
  Filters,        \* the key filters of Watch calls ({}: any key)
  KeepVersions,   \* keep_versions of the compaction loop
  MaxWatchEvents, \* max_events_per_waiter_
  RevisionBound   \* bound: no command is applied that would exceed it

ASSUME WatchAssumption ==
  /\ \A c \in Cmds : c \in Commands
  /\ Froms \subseteq Int
  /\ KeepVersions \in Int /\ MaxWatchEvents \in Nat \ {0} /\ RevisionBound \in Nat

VARIABLES
  store,    \* the content of LevelDB
  log,      \* history: the records by revision
  applier,  \* the applying thread: events to broadcast, waiters still to fill
  waiters,  \* waiters_: the watchers that are registered
  watch     \* the Watch call of each watcher

vars == <<store, log, applier, waiters, watch>>

Events == [key: Keys, value: Values, version: Nat \ {0}, revision: Nat \ {0},
           type: {"PUT", "DELETE"}]

IdleApplier == [pc |-> "idle", events |-> <<>>, todo |-> {}]

\* A call's locals (from, filter, cur), its Waiter (buf, overflow) and its
\* result (code, events, current).  Code INTERNAL comes with two messages, that
\* the node is behind and that the buffer overflowed: the code is BEHIND or
\* OVERFLOW here.
\*   canceled   the client was found to be gone
\*   raced      a broadcast changed the Waiter while the call reads it unlocked
\*   inflight   history: the revisions of the command that was written but not
\*              yet handed to the waiters when this one registered
\*   installed  history: a snapshot was installed since it registered
NewCall(pc, from, filter) ==
  [pc |-> pc, from |-> from, filter |-> filter, cur |-> 0,
   buf |-> <<>>, overflow |-> FALSE, raced |-> FALSE,
   canceled |-> FALSE, inflight |-> {}, installed |-> FALSE,
   code |-> "OK", events |-> <<>>, current |-> 0]

Init ==
  /\ store = EmptyStore
  /\ log = <<>>
  /\ applier = IdleApplier
  /\ waiters = {}
  /\ watch = [w \in Watchers |-> NewCall("idle", 0, {})]

-----------------------------------------------------------------------------
(* The applying thread *)

\* Apply one command; ok is the status of the LevelDB write.
Apply(cmd, ok) ==
  LET res == ApplyCmdToStore(store, cmd, ok)
  IN  /\ applier.pc = "idle"
      /\ res.store.revision <= RevisionBound
      /\ store' = res.store
      /\ log' = IF res.events = <<>> THEN log ELSE log \o Prepare(store, cmd).kvs
      /\ applier' = IF res.events = <<>> THEN IdleApplier
                    ELSE [pc |-> "broadcast", events |-> res.events, todo |-> {}]
      /\ UNCHANGED <<waiters, watch>>

\* Broadcast copies waiters_ under mu_.
BroadcastSnapshot ==
  /\ applier.pc = "broadcast"
  /\ applier' = [applier EXCEPT !.pc = "deliver", !.todo = waiters]
  /\ UNCHANGED <<store, log, waiters, watch>>

Matches(filter, e) == filter = {} \/ e.key \in filter

\* The events of a command come in the order of their revisions.
Matching(events, filter) ==
  ByRevision({e \in RecordsOf(events) : Matches(filter, e)})

\* Mutant: one event more than the limit fits.
FilledOffByOne(c, events) ==
  LET more == Matching(events, c.filter)
  IN  IF Len(c.buf) + Len(more) <= MaxWatchEvents + 1
      THEN [c EXCEPT !.buf = c.buf \o more]
      ELSE [c EXCEPT !.buf = <<>>, !.overflow = TRUE]

\* The waiter's buffer after a broadcast; full: cleared and marked overflow.
Filled(c, events) ==
  LET more == Matching(events, c.filter)
  IN  IF Len(c.buf) + Len(more) <= MaxWatchEvents
      THEN [c EXCEPT !.buf = c.buf \o more]
      ELSE [c EXCEPT !.buf = <<>>, !.overflow = TRUE]

\* The places where Watch reads its waiter without the waiter's mutex.
Unlocked == {"overflow", "take"}

\* Mutant: notify_all is missing.
DeliverSilently(w) ==
  LET c == Filled(watch[w], applier.events)
  IN  /\ applier.pc = "deliver"
      /\ w \in applier.todo
      /\ applier' = [applier EXCEPT !.todo = @ \ {w}]
      /\ watch' = [watch EXCEPT ![w] = [c EXCEPT !.raced = @ \/ c.pc \in Unlocked]]
      /\ UNCHANGED <<store, log, waiters>>

\* Fill one waiter under its mutex and notify it.  The weak_ptr of a call that
\* has returned cannot be locked any more: see Returned.
Deliver(w) ==
  LET c == Filled(watch[w], applier.events)
  IN  /\ applier.pc = "deliver"
      /\ w \in applier.todo
      /\ applier' = [applier EXCEPT !.todo = @ \ {w}]
      /\ watch' = [watch EXCEPT ![w] =
                     [c EXCEPT !.pc = IF c.pc = "blocked" THEN "wait" ELSE c.pc,
                               !.raced = @ \/ c.pc \in Unlocked]]
      /\ UNCHANGED <<store, log, waiters>>

EndBroadcast ==
  /\ applier.pc = "deliver"
  /\ applier.todo = {}
  /\ applier' = IdleApplier
  /\ UNCHANGED <<store, log, waiters, watch>>

\* The compaction loop.
Compact ==
  /\ Excess(store.hist, KeepVersions) # {}
  /\ store' = CompactionWrite(store, Excess(store.hist, KeepVersions))
  /\ UNCHANGED <<log, applier, waiters, watch>>

\* on_snapshot_load on a running follower, on the thread of on_apply: the
\* snapshot is one command ahead, and its events are never broadcast.  Replicas
\* are taken to agree on revisions here: a node that has drifted (see Replica)
\* could also be set back by a snapshot, after which log would mean nothing.
InstallSnapshot(cmd) ==
  LET ahead == ApplyCmdToStore(store, cmd, TRUE).store
  IN  /\ applier.pc = "idle"
      /\ ahead.revision <= RevisionBound
      /\ ahead.revision > store.revision
      /\ store' = LoadSnapshot(ExportSnapshot(ahead))
      /\ log' = log \o Prepare(store, cmd).kvs
      /\ watch' = [w \in Watchers |->
                     IF w \in waiters THEN [watch[w] EXCEPT !.installed = TRUE]
                     ELSE watch[w]]
      /\ UNCHANGED <<applier, waiters>>

-----------------------------------------------------------------------------
(* WatchHub::Watch *)

\* One step of the call of w.
Step(w, c) ==
  /\ watch' = [watch EXCEPT ![w] = c]
  /\ UNCHANGED <<store, log>>

\* The call of w returns and its Waiter is freed.
Returned(w, code, events, current) ==
  /\ Step(w, [watch[w] EXCEPT !.pc = "idle", !.buf = <<>>, !.overflow = FALSE,
                 !.raced = FALSE, !.cur = 0, !.code = code, !.events = events,
                 !.current = current])
  /\ applier' = [applier EXCEPT !.todo = @ \ {w}]

\* Entry, and (1) the fast check against compact_rev.
WatchBegin(w, from_revision, filter) ==
  LET from == IF from_revision < 0 THEN 0 ELSE from_revision
  IN  /\ watch[w].pc = "idle"
      /\ Step(w, IF from > 0 /\ store.compact_rev > from
                 THEN [NewCall("anchor", from, filter) EXCEPT !.code = "COMPACTED"]
                 ELSE NewCall(IF from > 0 THEN "catchup" ELSE "register",
                              from, filter))
      /\ UNCHANGED <<applier, waiters>>

\* Mutant: the call does not wait for the node to catch up.
CatchUpSkipped(w) ==
  /\ watch[w].pc = "catchup"
  /\ Step(w, [watch[w] EXCEPT !.pc = "register"])
  /\ UNCHANGED <<applier, waiters>>

\* (1.5) The node has caught up with the client's anchor.
CatchUp(w) ==
  /\ watch[w].pc = "catchup"
  /\ store.revision >= watch[w].from
  /\ Step(w, [watch[w] EXCEPT !.pc = "register"])
  /\ UNCHANGED <<applier, waiters>>

\* It has not, and the client is gone: the empty result, current_revision 0.
CatchUpCanceled(w) ==
  /\ watch[w].pc = "catchup"
  /\ store.revision < watch[w].from
  /\ Step(w, [watch[w] EXCEPT !.pc = "idle", !.canceled = TRUE])
  /\ UNCHANGED <<applier, waiters>>

\* It has not, and the deadline is over.
CatchUpTimeout(w) ==
  /\ watch[w].pc = "catchup"
  /\ store.revision < watch[w].from
  /\ Step(w, [watch[w] EXCEPT !.pc = "anchor", !.code = "BEHIND"])
  /\ UNCHANGED <<applier, waiters>>

\* (2) Register first, replay afterwards.
Register(w) ==
  /\ watch[w].pc = "register"
  /\ waiters' = waiters \cup {w}
  /\ Step(w, [watch[w] EXCEPT
                !.pc = IF watch[w].from > 0 THEN "current" ELSE "wait",
                !.inflight = IF applier.pc = "broadcast"
                             THEN {e.revision : e \in RecordsOf(applier.events)}
                             ELSE {}])
  /\ UNCHANGED applier

ReadCurrent(w) ==
  /\ watch[w].pc = "current"
  /\ Step(w, [watch[w] EXCEPT !.pc = "replay", !.cur = store.revision])
  /\ UNCHANGED <<applier, waiters>>

\* Mutant: replayed events are returned without Unregister.
ReplayStaysRegistered(w) ==
  LET c   == watch[w]
      res == ReplayEventsLocked(store.hist, store.compact_rev, c.from, c.cur,
                                c.filter, MaxWatchEvents)
  IN  /\ c.pc = "replay"
      /\ IF res.events # <<>>
         THEN Returned(w, "OK", res.events, res.events[Len(res.events)].revision)
         ELSE /\ Step(w, [c EXCEPT !.code = res.code,
                            !.pc = IF res.code = "OK" THEN "wait" ELSE "unregister"])
              /\ UNCHANGED applier
      /\ UNCHANGED waiters

Replay(w) ==
  LET c   == watch[w]
      res == ReplayEventsLocked(store.hist, store.compact_rev, c.from, c.cur,
                                c.filter, MaxWatchEvents)
  IN  /\ c.pc = "replay"
      /\ Step(w, [c EXCEPT !.code = res.code, !.events = res.events,
                    !.pc = IF res.code = "OK" /\ res.events = <<>> THEN "wait"
                           ELSE "unregister"])
      /\ UNCHANGED <<applier, waiters>>

\* (3) The head of the waiting loop, under the waiter's mutex.
WaitCheck(w) ==
  LET c == watch[w]
  IN  /\ c.pc = "wait"
      /\ Step(w, [c EXCEPT !.pc = IF c.buf # <<>> \/ c.overflow THEN "unregister"
                                  ELSE "blocked"])
      /\ UNCHANGED <<applier, waiters>>

\* The client is found to be gone at the head of the loop.
WaitCanceled(w) ==
  /\ watch[w].pc = "wait"
  /\ watch[w].buf = <<>> /\ ~watch[w].overflow
  /\ Step(w, [watch[w] EXCEPT !.pc = "unregister", !.canceled = TRUE])
  /\ UNCHANGED <<applier, waiters>>

\* Mutant: ETIMEDOUT is taken for a spurious wakeup.
TimeoutAsSpurious(w) ==
  /\ watch[w].pc = "blocked"
  /\ Step(w, [watch[w] EXCEPT !.pc = "wait"])
  /\ UNCHANGED <<applier, waiters>>

\* wait_until returns ETIMEDOUT.
Timeout(w) ==
  /\ watch[w].pc = "blocked"
  /\ Step(w, [watch[w] EXCEPT !.pc = "unregister"])
  /\ UNCHANGED <<applier, waiters>>

\* wait_until returns without a reason.
SpuriousWake(w) ==
  /\ watch[w].pc = "blocked"
  /\ Step(w, [watch[w] EXCEPT !.pc = "wait"])
  /\ UNCHANGED <<applier, waiters>>

\* Unregister on each of the three paths.  Replayed events are returned at
\* once; COMPACTED still has to read its anchor.
Unregister(w) ==
  LET c == watch[w]
  IN  /\ c.pc = "unregister"
      /\ waiters' = waiters \ {w}
      /\ IF c.events # <<>>
         THEN Returned(w, "OK", c.events, c.events[Len(c.events)].revision)
         ELSE /\ Step(w, [c EXCEPT !.pc = IF c.code = "OK" THEN "overflow"
                                          ELSE "anchor"])
              /\ UNCHANGED applier

\* Mutant: what came into the buffer after it was cleared is answered as if
\* nothing were missing before it.
ReadOverflowIgnored(w) ==
  /\ watch[w].pc = "overflow"
  /\ Step(w, [watch[w] EXCEPT !.pc = "take"])
  /\ UNCHANGED <<applier, waiters>>

\* A buffer that has overflowed is not answered, even if it was filled again.
ReadOverflow(w) ==
  LET c == watch[w]
  IN  /\ c.pc = "overflow"
      /\ Step(w, IF c.overflow THEN [c EXCEPT !.pc = "anchor", !.code = "OVERFLOW"]
                 ELSE [c EXCEPT !.pc = "take"])
      /\ UNCHANGED <<applier, waiters>>

\* Move the buffer into the result, without the mutex.  If a broadcast has
\* been changing the deque meanwhile, any prefix of it may be what is seen.
TakeEvents(w, n) ==
  LET c == watch[w]
      taken == SubSeq(c.buf, 1, n)
  IN  /\ c.pc = "take"
      /\ n = Len(c.buf) \/ c.raced
      /\ IF taken # <<>>
         THEN Returned(w, "OK", taken, taken[n].revision)
         ELSE /\ Step(w, [c EXCEPT !.pc = "anchor"])
              /\ UNCHANGED applier
      /\ UNCHANGED waiters

\* Every answer without events reads CurrentRevision last.
Anchor(w) ==
  /\ watch[w].pc = "anchor"
  /\ Returned(w, watch[w].code, <<>>, store.revision)
  /\ UNCHANGED waiters

-----------------------------------------------------------------------------

\* The steps that a call takes by itself, sooner or later.
WatcherStep(w) ==
  \/ CatchUp(w)
  \/ CatchUpTimeout(w)
  \/ Register(w)
  \/ ReadCurrent(w)
  \/ Replay(w)
  \/ WaitCheck(w)
  \/ Unregister(w)
  \/ ReadOverflow(w)
  \/ \E n \in 0..Len(watch[w].buf) : TakeEvents(w, n)
  \/ Anchor(w)

BroadcastStep ==
  \/ BroadcastSnapshot
  \/ \E w \in Watchers : Deliver(w)
  \/ EndBroadcast

Next ==
  \/ \E cmd \in Cmds, ok \in BOOLEAN : Apply(cmd, ok)
  \/ BroadcastStep
  \/ Compact
  \/ \E cmd \in Cmds : InstallSnapshot(cmd)
  \/ \E w \in Watchers, from \in Froms, f \in Filters : WatchBegin(w, from, f)
  \/ \E w \in Watchers : WatcherStep(w)
  \/ \E w \in Watchers : CatchUpCanceled(w)
  \/ \E w \in Watchers : WaitCanceled(w)
  \/ \E w \in Watchers : Timeout(w)
  \/ \E w \in Watchers : SpuriousWake(w)

Spec == Init /\ [][Next]_vars

\* Threads run and mutexes are handed over: nothing else is assumed.
SchedulerFairness ==
  /\ WF_vars(BroadcastStep)
  /\ \A w \in Watchers : WF_vars(WatcherStep(w))

FairSpec == Spec /\ SchedulerFairness

-----------------------------------------------------------------------------
(* Properties *)

Active(w) == watch[w].pc # "idle"

\* The client of w got an answer with this code to a call that resumes.
Answered(w, code) ==
  ~Active(w) /\ ~watch[w].canceled /\ watch[w].from > 0 /\ watch[w].code = code

\* The changes after lo, up to and including hi, that the call of w asks for.
Wanted(w, lo, hi) == InRange(RecordsOf(log), lo, hi, watch[w].filter)

\* Every variable has its type; a waiter's buffer never exceeds its limit.
TypeOK ==
  /\ IsStore(store)
  /\ log \in Seq(KVs)
  /\ applier \in [pc: {"idle", "broadcast", "deliver"}, events: Seq(Events),
                   todo: SUBSET Watchers]
  /\ waiters \subseteq Watchers
  /\ DOMAIN watch = Watchers
  /\ \A w \in Watchers :
       /\ watch[w].pc \in {"idle", "catchup", "register", "current", "replay",
                           "wait", "blocked", "unregister", "anchor"} \cup Unlocked
       /\ watch[w].from \in Nat /\ watch[w].cur \in Nat /\ watch[w].current \in Nat
       /\ watch[w].buf \in Seq(Events) /\ Len(watch[w].buf) <= MaxWatchEvents
       /\ watch[w].events \in Seq(Events)
       /\ Len(watch[w].events) <= MaxWatchEvents

\* An answer with events is the exact stream: in the order of the log, without
\* a gap up to its anchor current_revision, starting right after from_revision
\* (or where the call registered, for from_revision 0 or a repeated event).
\* Register-before-replay, the delivery order of Broadcast and the anchor taken
\* from the last event all have to be right for this.
ResponseExact ==
  \A w \in Watchers :
    LET c  == watch[w]
        lo == IF c.from > 0 /\ c.events[1].revision > c.from THEN c.from
              ELSE c.events[1].revision - 1
    IN  ~Active(w) /\ c.events # <<>> /\ ~c.installed
        => c.events = FirstEvents(Wanted(w, lo, c.current), Len(log))

\* The only events at or below from_revision that a call may see are those of
\* the one command that was already written but not yet broadcast when the call
\* registered: waiting for the node to catch up keeps out everything older.
OnlyInFlightRepeated ==
  \A w \in Watchers : \A e \in RecordsOf(watch[w].buf \o watch[w].events) :
    e.revision > watch[w].from \/ e.revision \in watch[w].inflight

\* Every way out of Watch removes the waiter from the hub.
NoLeakedWaiter == \A w \in Watchers : ~Active(w) => w \notin waiters

\* The deadline of wait_until is absolute, so a call that is woken again and
\* again still times out: strong fairness.
TimeoutFairness == \A w \in Watchers : SF_vars(Timeout(w))

\* Every call returns, whatever is or is not written meanwhile.
WatchTerminates ==
  TimeoutFairness => \A w \in Watchers : Active(w) ~> ~Active(w)

\* A call that is blocked when an event it asked for is broadcast returns
\* because of it: no wakeup is lost, even if no deadline ever fires.
Pending(w) ==
  /\ watch[w].pc = "blocked"
  /\ Matching(applier.events, watch[w].filter) # <<>>
  /\ \/ applier.pc = "broadcast" /\ w \in waiters
     \/ applier.pc = "deliver" /\ w \in applier.todo

WokenByEvent == \A w \in Watchers : Pending(w) ~> ~Active(w)

-----------------------------------------------------------------------------
(* What the documentation promises and the code does not keep: the README   *)
(* describes the counterexample.                                            *)

\* docs/watch.md:42: without events, current_revision is the revision to resume
\* from.  So no change that the call asked for lies between from_revision and
\* the anchor of an empty answer.
EmptyLosesNothing ==
  \A w \in Watchers :
    Answered(w, "OK") /\ watch[w].events = <<>> /\ ~watch[w].installed
    => Wanted(w, watch[w].from, watch[w].current) = {}
=============================================================================
