------------------------------ MODULE RaftNode ------------------------------
(***************************************************************************)
(* Writes and reads of a cluster (src/raft/raft_node.cpp, with the state   *)
(* machine and ApplyClosure of src/raft/state_machine):                    *)
(* RaftNode::Apply, which hands a command to braft and waits for its       *)
(* ApplyClosure, and RaftNode::Get, which checks the leader lease, waits   *)
(* until the node has applied what it knows to be committed, and reads its *)
(* own store.                                                              *)
(* braft is external.  Nodes are some of the members of the group: votes   *)
(* and replicas of the others are not told apart.                          *)
(*   - chosen is what a majority has: no leader ever lacks it.  A leader   *)
(*     learns later that its entries are chosen, a follower after it.      *)
(*   - A leader is not told that another one has been elected, but nobody  *)
(*     is elected while some lease is valid.                               *)
(*   - on_leader_start and on_leader_stop run on the applying thread, some *)
(*     time after is_leader() has changed.                                 *)
(* Crashes, snapshots and membership changes are left out.                 *)
(***************************************************************************)
EXTENDS Store, SequencesExt

CONSTANTS
  Nodes,         \* members that serve the calls
  Writers,       \* threads with one call of Apply each
  Readers,       \* threads with one call of Get each
  Cmds,          \* the commands of writes
  ReadKeys,      \* the keys of reads
  StoreMayFail,  \* whether LevelDB may refuse a write while a node applies
  TermBound,     \* bound: no election after this term
  NoOp           \* the configuration entry a new leader begins its term with

ASSUME RaftAssumption ==
  /\ \A c \in Cmds : c \in Commands
  /\ ReadKeys \subseteq Keys
  /\ StoreMayFail \in BOOLEAN
  /\ TermBound \in Nat
  /\ NoOp \notin Writers

VARIABLES
  term,         \* braft: the last term in which someone was elected
  role,         \* braft: the term in which the node leads, 0 if it does not
  log,          \* braft: the log of the node in the last term it led
  chosen,       \* braft: the entries that a majority has
  commit,       \* braft: committed_index of each node
  lease,        \* braft: LeaderLeaseStatus of each node
  leader_term,  \* leader_term_ of each state machine
  applied,      \* known_applied_index of each node
  store,        \* the store of each node
  write,        \* the call of Apply of each writer
  read,         \* the call of Get of each reader
  answered      \* history: the last index that a finished call has shown

braft == <<term, role, log, chosen, commit, lease>>
fsm == <<leader_term, applied, store>>
vars == <<braft, fsm, write, read, answered>>

Entries == [term: Nat \ {0}, call: Writers \cup {NoOp}]

Leads(n) == role[n] > 0

\* out is ApplyResult::code; failed: status() of the closure is not ok;
\* done is WaitState::done.  braft holds the closure until it is due to run.
\* node, and key of a read, are sets of at most one element.
NewWrite == [pc |-> "idle", node |-> {}, cmd |-> [op |-> "Unknown"], expected |-> -1,
             closure |-> "none", failed |-> FALSE, done |-> FALSE, code |-> "OK"]

\* at and floor are history: the index the answer shows, and the last index
\* that had been shown when the call began.
NewRead == [pc |-> "idle", node |-> {}, key |-> {}, serializable |-> FALSE,
            code |-> "OK", found |-> {}, at |-> 0, floor |-> 0]

Init ==
  /\ term = 0
  /\ role = [n \in Nodes |-> 0]
  /\ log = [n \in Nodes |-> <<>>]
  /\ chosen = <<>>
  /\ commit = [n \in Nodes |-> 0]
  /\ lease = [n \in Nodes |-> "EXPIRED"]
  /\ leader_term = [n \in Nodes |-> -1]
  /\ applied = [n \in Nodes |-> 0]
  /\ store = [n \in Nodes |-> EmptyStore]
  /\ write = [c \in Writers |-> NewWrite]
  /\ read = [c \in Readers |-> NewRead]
  /\ answered = 0

-----------------------------------------------------------------------------
(* braft, as the code uses it *)

\* The logs a new leader may have: all that is chosen and some of what a leader
\* has sent out on top of it.
ElectableLogs ==
  {chosen} \cup UNION {{SubSeq(log[m], 1, i) : i \in Len(chosen)..Len(log[m])} :
                         m \in {m \in Nodes : IsPrefix(chosen, log[m])}}

Elect(n) ==
  /\ ~Leads(n)
  /\ term < TermBound
  /\ \A m \in Nodes : lease[m] # "VALID"
  /\ term' = term + 1
  /\ role' = [role EXCEPT ![n] = term']
  /\ \E l \in ElectableLogs :
       log' = [log EXCEPT ![n] = Append(l, [term |-> term', call |-> NoOp])]
  /\ lease' = [lease EXCEPT ![n] = "NOT_READY"]
  /\ UNCHANGED <<chosen, commit, fsm, write, read, answered>>

\* An entry of the last leader's term, and all before it, reach a majority.
Choose(n) ==
  /\ Leads(n) /\ role[n] = term
  /\ \E i \in (Len(chosen) + 1)..Len(log[n]) :
       /\ log[n][i].term = term
       /\ chosen' = SubSeq(log[n], 1, i)
  /\ UNCHANGED <<term, role, log, commit, lease, fsm, write, read, answered>>

\* A leader, deposed or not, has the answers of a majority.
Commit(n) ==
  /\ Leads(n)
  /\ \E i \in (commit[n] + 1)..Len(chosen) :
       /\ IsPrefix(SubSeq(chosen, 1, i), log[n])
       /\ chosen[i].term = role[n]
       /\ commit' = [commit EXCEPT ![n] = i]
  /\ UNCHANGED <<term, role, log, chosen, lease, fsm, write, read, answered>>

\* A follower hears from a leader what is committed.
Follow(n) ==
  /\ ~Leads(n)
  /\ \E m \in Nodes : /\ Leads(m) /\ commit[m] > commit[n]
                      /\ commit' = [commit EXCEPT ![n] = commit[m]]
  /\ UNCHANGED <<term, role, log, chosen, lease, fsm, write, read, answered>>

Occurrences(l, c) == {i \in DOMAIN l : l[i].call = c}

Position(l, c) == Max({0} \cup Occurrences(l, c))

\* The node stops leading.  Closures of entries that on_apply has not been
\* given yet (those after i) are run with an error.
StepDown(n) ==
  /\ Leads(n)
  /\ role' = [role EXCEPT ![n] = 0]
  /\ lease' = [lease EXCEPT ![n] = "EXPIRED"]
  /\ \E i \in applied[n]..commit[n] :
       write' = [c \in Writers |->
                   IF /\ write[c].closure = "held" /\ write[c].node = {n}
                      /\ Position(log[n], c) > i
                   THEN [write[c] EXCEPT !.closure = "due", !.failed = TRUE]
                   ELSE write[c]]
  /\ UNCHANGED <<term, log, chosen, commit, fsm, read, answered>>

\* A lease that has begun and ended is renewed by the answers of a majority.
LeaseRenew(n) ==
  /\ Leads(n) /\ role[n] = term
  /\ lease[n] = "EXPIRED"
  /\ lease' = [lease EXCEPT ![n] = "VALID"]
  /\ UNCHANGED <<term, role, log, chosen, commit, fsm, write, read, answered>>

LeaseExpire(n) ==
  /\ lease[n] = "VALID"
  /\ lease' = [lease EXCEPT ![n] = "EXPIRED"]
  /\ UNCHANGED <<term, role, log, chosen, commit, fsm, write, read, answered>>

-----------------------------------------------------------------------------
(* ConfigraftStateMachine *)

\* The configuration entry of the term is committed: braft starts the lease
\* (which is over at once if another node was elected) and calls back.
on_leader_start(n) ==
  /\ Leads(n) /\ lease[n] = "NOT_READY" /\ leader_term[n] = -1
  /\ \E i \in 1..commit[n] : log[n][i].term = role[n]
  /\ lease' = [lease EXCEPT ![n] = IF role[n] = term THEN "VALID" ELSE "EXPIRED"]
  /\ leader_term' = [leader_term EXCEPT ![n] = role[n]]
  /\ UNCHANGED <<term, role, log, chosen, commit, applied, store, write, read, answered>>

on_leader_stop(n) ==
  /\ leader_term[n] \notin {-1, role[n]}
  /\ leader_term' = [leader_term EXCEPT ![n] = -1]
  /\ UNCHANGED <<braft, applied, store, write, read, answered>>

\* Finish, the status of the closure, and AsyncClosureGuard.
Finished(c, code) ==
  [write EXCEPT ![c].closure = "due", ![c].failed = code # "OK", ![c].code = code]

\* One entry.  The configuration entry is braft's own.  Events go to the hub:
\* see WatchHub.
on_apply(n, ok) ==
  LET e   == chosen[applied[n] + 1]
      c   == e.call
      res == ApplyCmdToStore(store[n], write[c].cmd, ok)
  IN  /\ applied[n] < commit[n]
      /\ applied' = [applied EXCEPT ![n] = @ + 1]
      /\ IF c = NoOp THEN UNCHANGED <<store, write>>
         ELSE /\ store' = [store EXCEPT ![n] = res.store]
              /\ write' = IF write[c].closure = "held" /\ write[c].node = {n}
                          THEN Finished(c, res.code) ELSE write
      /\ UNCHANGED <<braft, leader_term, read, answered>>

\* Mutant: an error of braft does not show in the answer.
RunIgnoringStatus(c) ==
  /\ write[c].closure = "due"
  /\ write' = [write EXCEPT ![c].closure = "none", ![c].done = TRUE]
  /\ UNCHANGED <<braft, fsm, read, answered>>

\* Mutant: the closure is not released when it has run.
RunKeepsClosure(c) ==
  /\ write[c].closure = "due"
  /\ write' = [write EXCEPT ![c].done = TRUE,
                            ![c].code = IF write[c].failed /\ @ = "OK"
                                        THEN "INTERNAL" ELSE @]
  /\ UNCHANGED <<braft, fsm, read, answered>>

\* Mutant: the waiter is only woken for a command that was applied.
RunWakesSuccessOnly(c) ==
  /\ write[c].closure = "due"
  /\ write' = [write EXCEPT ![c].closure = "none", ![c].done = ~write[c].failed]
  /\ UNCHANGED <<braft, fsm, read, answered>>

\* ApplyClosure::Run, in a bthread of its own.
Run(c) ==
  /\ write[c].closure = "due"
  /\ write' = [write EXCEPT ![c].closure = "none", ![c].done = TRUE,
                            ![c].code = IF write[c].failed /\ @ = "OK"
                                        THEN "INTERNAL" ELSE @]
  /\ UNCHANGED <<braft, fsm, read, answered>>

-----------------------------------------------------------------------------
(* RaftNode::Apply *)

ApplyNotLeader(c, n) ==
  /\ write[c].pc = "idle"
  /\ ~Leads(n)
  /\ write' = [write EXCEPT ![c].pc = "done", ![c].code = "NOT_LEADER"]
  /\ UNCHANGED <<braft, fsm, read, answered>>

ApplyBegin(c, n, cmd) ==
  /\ write[c].pc = "idle"
  /\ Leads(n)
  /\ write' = [write EXCEPT ![c].pc = "term", ![c].node = {n}, ![c].cmd = cmd]
  /\ UNCHANGED <<braft, fsm, read, answered>>

\* term = fsm_->leader_term(); braft takes -1 for no expectation.
ReadLeaderTerm(c, n) ==
  /\ write[c].pc = "term" /\ write[c].node = {n}
  /\ write' = [write EXCEPT ![c].pc = "apply", ![c].expected = leader_term[n]]
  /\ UNCHANGED <<braft, fsm, read, answered>>

\* node_->apply(task): in the log, or the closure is run with an error.
ApplyTask(c, n) ==
  LET accepted == Leads(n) /\ write[c].expected \in {-1, role[n]}
  IN  /\ write[c].pc = "apply" /\ write[c].node = {n}
      /\ log' = IF accepted
                THEN [log EXCEPT ![n] = Append(@, [term |-> role[n], call |-> c])]
                ELSE log
      /\ write' = [write EXCEPT ![c].pc = "wait", ![c].expected = -1,
                                ![c].failed = ~accepted,
                                ![c].closure = IF accepted THEN "held" ELSE "due"]
      /\ UNCHANGED <<term, role, chosen, commit, lease, fsm, read, answered>>

\* WaitFor returns; of the call, its command and its answer are kept.
ApplyReturn(c) ==
  /\ write[c].pc = "wait" /\ write[c].done
  /\ write' = [write EXCEPT ![c] = [NewWrite EXCEPT !.pc = "done", !.cmd = write[c].cmd,
                                                    !.code = write[c].code]]
  /\ answered' = IF write[c].code = "INTERNAL" THEN answered
                 ELSE Max({answered, Position(chosen, c)})
  /\ UNCHANGED <<braft, fsm, read>>

-----------------------------------------------------------------------------
(* RaftNode::Get *)

GetBegin(c, n, key, serializable) ==
  /\ read[c].pc = "idle"
  /\ read' = [read EXCEPT ![c] =
                [NewRead EXCEPT !.pc = IF serializable THEN "store" ELSE "lease",
                                !.node = {n}, !.key = {key}, !.floor = answered,
                                !.serializable = serializable]]
  /\ UNCHANGED <<braft, fsm, write, answered>>

\* The read goes from one place of Get to the next.
Goto(c, pc) ==
  /\ read' = [read EXCEPT ![c].pc = pc]
  /\ UNCHANGED <<braft, fsm, write, answered>>

GetFails(c, code) ==
  /\ read' = [read EXCEPT ![c] = [NewRead EXCEPT !.pc = "done", !.code = code]]
  /\ UNCHANGED <<braft, fsm, write, answered>>

\* Mutant: being the leader is enough.
WaitLeaderLeaseUnready(c, n) ==
  /\ read[c].pc = "lease" /\ read[c].node = {n}
  /\ Goto(c, IF Leads(n) THEN "catchup" ELSE "refused")

\* One round of WaitLeaderLease: not ready is a failure at the deadline only.
WaitLeaderLease(c, n) ==
  /\ read[c].pc = "lease" /\ read[c].node = {n}
  /\ Goto(c, IF lease[n] = "VALID" THEN "catchup" ELSE "refused")

\* The lease was not valid: is it that another node leads?
GetRefused(c, n) ==
  /\ read[c].pc = "refused" /\ read[c].node = {n}
  /\ GetFails(c, IF Leads(n) THEN "INTERNAL" ELSE "NOT_LEADER")

WaitAppliedCatchUp(c, n) ==
  /\ read[c].pc = "catchup" /\ read[c].node = {n}
  /\ applied[n] >= commit[n]
  /\ Goto(c, "store")

CatchUpTimeout(c, n) ==
  /\ read[c].pc = "catchup" /\ read[c].node = {n}
  /\ applied[n] < commit[n]
  /\ GetFails(c, "INTERNAL")

\* store_->Get on this node.
ReadStore(c, n, key) ==
  LET got == GetLocked(store[n], key)
  IN  /\ read[c].pc = "store" /\ read[c].node = {n} /\ read[c].key = {key}
      /\ read' = [read EXCEPT ![c].pc = "done", ![c].node = {}, ![c].code = got.code,
                              ![c].found = got.found, ![c].at = applied[n]]
      /\ answered' = Max({answered, applied[n]})
      /\ UNCHANGED <<braft, fsm, write>>

-----------------------------------------------------------------------------

WriterStep(c) ==
  \/ \E n \in Nodes : ReadLeaderTerm(c, n) \/ ApplyTask(c, n)
  \/ Run(c)
  \/ ApplyReturn(c)

ReaderStep(c) ==
  \E n \in Nodes :
    \/ WaitLeaderLease(c, n)
    \/ GetRefused(c, n)
    \/ WaitAppliedCatchUp(c, n)
    \/ CatchUpTimeout(c, n)
    \/ \E key \in ReadKeys : ReadStore(c, n, key)

NodeStep(n) ==
  \/ Elect(n) \/ Choose(n) \/ Commit(n) \/ Follow(n) \/ StepDown(n)
  \/ LeaseRenew(n) \/ LeaseExpire(n)
  \/ on_leader_start(n) \/ on_leader_stop(n)
  \/ \E ok \in {TRUE, ~StoreMayFail} : on_apply(n, ok)

Next ==
  \/ \E n \in Nodes : NodeStep(n)
  \/ \E c \in Writers : WriterStep(c)
  \/ \E c \in Readers : ReaderStep(c)
  \/ \E c \in Writers, n \in Nodes, cmd \in Cmds :
       ApplyNotLeader(c, n) \/ ApplyBegin(c, n, cmd)
  \/ \E c \in Readers, n \in Nodes, key \in ReadKeys, serializable \in BOOLEAN :
       GetBegin(c, n, key, serializable)

Spec == Init /\ [][Next]_vars

-----------------------------------------------------------------------------
(* Properties *)

\* Types, and what braft promises: everything committed is chosen, and a log is
\* never applied beyond what is committed.
TypeOK ==
  /\ term \in 0..TermBound
  /\ role \in [Nodes -> 0..term] /\ leader_term \in [Nodes -> {-1} \cup 1..term]
  /\ chosen \in Seq(Entries) /\ \A n \in Nodes : log[n] \in Seq(Entries)
  /\ \A n \in Nodes : 0 <= applied[n] /\ applied[n] <= commit[n] /\ commit[n] <= Len(chosen)
  /\ lease \in [Nodes -> {"EXPIRED", "NOT_READY", "VALID"}]
  /\ \A n \in Nodes : IsStore(store[n])
  /\ answered \in 0..Len(chosen)
  /\ \A c \in Writers :
       /\ write[c].pc \in {"idle", "term", "apply", "wait", "done"}
       /\ write[c].node \subseteq Nodes
       /\ write[c].pc \in {"term", "apply", "wait"} => write[c].cmd \in Cmds
       /\ write[c].closure \in {"none", "held", "due"}
       /\ write[c].closure # "none" => write[c].pc = "wait" /\ ~write[c].done
  /\ \A c \in Readers :
       /\ read[c].pc \in {"idle", "lease", "refused", "catchup", "store", "done"}
       /\ read[c].node \subseteq Nodes /\ read[c].key \subseteq ReadKeys
       /\ read[c].at \in 0..Len(chosen) /\ read[c].floor \in 0..answered

\* The commands of a sequence of entries.  A configuration entry changes no store,
\* like an unknown command.
CommandsOf(l) ==
  [i \in DOMAIN l |->
     IF l[i].call = NoOp THEN [op |-> "Unknown"] ELSE write[l[i].call].cmd]

\* A single store that executes the chosen entries.
Outcomes == Executed(CommandsOf(chosen))

\* RaftNode::Get: an answer is what a single store would give at some point of
\* the log, and for a linearizable read this point is not before anything that
\* a call has shown that ended before this one began, on whatever node.
ReadsLinearizable ==
  \A c \in Readers :
    LET r == read[c]
    IN  r.pc = "done" /\ r.code \in {"OK", "KEY_NOT_FOUND"} =>
          /\ \A key \in r.key : [code |-> r.code, found |-> r.found] =
                                  GetLocked(Outcomes[r.at].store, key)
          /\ r.serializable \/ r.at >= r.floor

\* RaftNode::Apply: a write that is answered with its outcome is in the log
\* exactly once and had this outcome there; one that is answered NOT_LEADER is
\* in no log and never will be; nothing is in the log twice, whoever was elected.
AnswerMatchesOutcome ==
  \A c \in Writers :
    LET w == write[c]
    IN  /\ Cardinality(Occurrences(chosen, c)) <= 1
        /\ w.pc = "done" /\ w.code \notin {"INTERNAL", "NOT_LEADER"} =>
             \E i \in Occurrences(chosen, c) : Outcomes[i].code = w.code
        /\ w.code = "NOT_LEADER" =>
             \A n \in Nodes : Occurrences(log[n], c) = {}

\* on_apply, "a failure on this node has to be noticed above": a node that lacks
\* a write it has applied has made some call end with an error.
ApplyFailureSurfaces ==
  \A n \in Nodes :
    store[n] = Outcomes[applied[n]].store
      \/ \E c \in Writers : write[c].pc # "done" \/ write[c].code # "OK"

\* bthreads are scheduled.
ThreadFairness == \A c \in Writers : WF_vars(WriterStep(c))

\* braft: a leader reaches a majority, or gives up once it is no longer the last
\* one elected; it learns what is committed, and applies it.
BraftFairness ==
  \A n \in Nodes :
    /\ WF_vars(Choose(n))
    /\ WF_vars(Commit(n))
    /\ WF_vars(StepDown(n) /\ role[n] < term)
    /\ WF_vars(\E ok \in BOOLEAN : on_apply(n, ok))

FairSpec == Spec /\ ThreadFairness /\ BraftFairness

\* Apply has no deadline: that its thread returns rests on the closure being run
\* exactly once on each path (applied, refused by braft, leader stepped down).
ApplyReturns ==
  \A c \in Writers : write[c].pc # "idle" ~> write[c].pc = "done"
=============================================================================
