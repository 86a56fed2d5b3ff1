-------------------------------- MODULE Server --------------------------------
(***************************************************************************)
(* One process from start to exit (src/server/server.cpp, main, and the    *)
(* constructors and destructors of LocalNode and RaftNode): Init with its  *)
(* early returns, the requests that are served once brpc has started, the  *)
(* compaction loop, braft's applying thread, and the destruction of        *)
(* everything in the order of ~ConfigraftServer and its members.           *)
(* What the calls do with the objects is in the other modules; here only   *)
(* which object a step dereferences matters.  A step on an object that is  *)
(* not there would be the end of the process; it is noted, and the model   *)
(* goes on.                                                                *)
(* brpc is external: it hands out requests between Start and Stop, and     *)
(* Join waits for those that it has handed out.                            *)
(***************************************************************************)
EXTENDS Membership

CONSTANT Handlers   \* brpc workers with one request each

VARIABLES
  mode,      \* cluster or local: node_name is given or not
  main,      \* where the main thread is
  brpc,      \* server_: none, running, stopping, stopped
  object,    \* hub, node, services, store, fsm: unset, live or freed
  loop,      \* where the compaction thread is
  mu,        \* compaction_mu_: free, or held by the loop
  stop,      \* stop_compaction_
  applying,  \* braft's applying thread is in on_apply
  request,   \* the request of each handler
  fault      \* history: who touched what when it was not there

threads == <<mode, main, brpc, object, loop, mu, stop, applying, request>>
vars == <<memberVars, threads, fault>>

Objects == {"hub", "node", "services", "store", "fsm"}

Calls == {"Write", "Read", "LocalRead", "Health"}

NoRequest == [pc |-> "idle", call |-> "Write"]

Init ==
  /\ MemberInit
  /\ mode \in {"cluster", "local"}
  /\ main = "open"
  /\ brpc = "none"
  /\ object = [o \in Objects |-> "unset"]
  /\ loop = "none"
  /\ mu = "free"
  /\ stop = FALSE
  /\ applying = FALSE
  /\ request = [h \in Handlers |-> NoRequest]
  /\ fault = {}

\* A step that dereferences these objects.
Touch(who, objs) ==
  fault' = fault \cup {<<who, o, object[o], main>> : o \in {o \in objs : object[o] # "live"}}

\* The main thread goes on to another place and sets objects to a state.
Goto(pc, objs, state) ==
  /\ main' = pc
  /\ object' = [o \in Objects |-> IF o \in objs THEN state ELSE object[o]]

-----------------------------------------------------------------------------
(* ConfigraftServer::Init.  Every early return leads to the destructor.      *)

OpenStore(ok) ==
  /\ main = "open"
  /\ Goto(IF ok THEN "node" ELSE "destroy", {}, "live")
  /\ UNCHANGED <<memberVars, mode, brpc, loop, mu, stop, applying, request, fault>>

\* The local node owns the store; the cluster's gets it later.
CreateNode(ok) ==
  /\ main = "node"
  /\ ok \/ mode = "cluster"
  /\ Goto(IF ok THEN "services" ELSE "destroy",
          {"hub"} \cup (IF ~ok THEN {} ELSE IF mode = "local" THEN {"node", "store"}
                        ELSE {"node"}), "live")
  /\ UNCHANGED <<memberVars, mode, brpc, loop, mu, stop, applying, request, fault>>

AddServices(ok) ==
  /\ main = "services"
  /\ Goto(IF ok THEN "start" ELSE "destroy", {"services"}, "live")
  /\ UNCHANGED <<memberVars, mode, brpc, loop, mu, stop, applying, request, fault>>

\* From here on requests come in.
StartServer(ok) ==
  /\ main = "start"
  /\ Goto(IF ~ok THEN "destroy" ELSE IF mode = "cluster" THEN "raft_store" ELSE "loop",
          {}, "live")
  /\ brpc' = IF ok THEN "running" ELSE brpc
  /\ UNCHANGED <<memberVars, mode, loop, mu, stop, applying, request, fault>>

\* RaftNode::Init, in the order of its assignments: store_, fsm_, node_.
InitStore ==
  /\ main = "raft_store"
  /\ Goto("raft_fsm", {"store"}, "live")
  /\ UNCHANGED <<memberVars, mode, brpc, loop, mu, stop, applying, request, fault>>

InitFsm(ok) ==
  /\ main = "raft_fsm"
  /\ Goto(IF ok THEN "raft_node" ELSE "destroy", {"fsm"}, "live")
  /\ UNCHANGED <<memberVars, mode, brpc, loop, mu, stop, applying, request, fault>>

\* node_ is there for IsLeader, AddPeer and the others, but does not run yet: it
\* leads nothing.
CreateBraft ==
  /\ main = "raft_node"
  /\ Goto("raft_init", {}, "live")
  /\ braft' = "down"
  /\ UNCHANGED <<group, call, closure, outcome, reached, mode, brpc, loop, mu, stop,
                 applying, request, fault>>

\* A node whose init fails stays so.
InitBraft(ok) ==
  /\ main = "raft_init"
  /\ Goto(IF ok THEN "loop" ELSE "destroy", {}, "live")
  /\ braft' = IF ok THEN "up" ELSE "down"
  /\ UNCHANGED <<group, call, closure, outcome, reached, mode, brpc, loop, mu, stop,
                 applying, request, fault>>

StartCompactionLoop ==
  /\ main = "loop"
  /\ Goto("run", {}, "live")
  /\ loop' = "lock"
  /\ UNCHANGED <<memberVars, mode, brpc, mu, stop, applying, request, fault>>

-----------------------------------------------------------------------------
(* RunUntilAskedToQuit and destruction *)

\* Stop on a signal; the destructor of server_ stops it if nothing else has.
StopServer ==
  /\ brpc = "running"
  /\ main \in {"run", "free_server"}
  /\ brpc' = "stopping"
  /\ main' = IF main = "run" THEN "join" ELSE main
  /\ UNCHANGED <<memberVars, mode, object, loop, mu, stop, applying, request, fault>>

Quiet == /\ \A h \in Handlers : request[h].pc = "idle"
         /\ \A c \in Callers : ~Running(c)

\* Join, in RunUntilAskedToQuit and again in the destructor of server_.
JoinServer ==
  /\ brpc # "running"
  /\ Quiet
  /\ \/ main = "join" /\ main' = "destroy"
     \/ main = "free_server" /\ main' = "free_services"
  /\ brpc' = "stopped"
  /\ UNCHANGED <<memberVars, mode, object, loop, mu, stop, applying, request, fault>>

\* Mutant: the flag is set without the mutex.
StopCompactionUnlocked ==
  /\ main = "destroy"
  /\ stop' = TRUE
  /\ main' = "notify"
  /\ UNCHANGED <<memberVars, mode, brpc, object, loop, mu, applying, request, fault>>

\* ~ConfigraftServer: the flag is set under the mutex,
StopCompaction ==
  /\ main = "destroy"
  /\ mu = "free"
  /\ stop' = TRUE
  /\ main' = "notify"
  /\ UNCHANGED <<memberVars, mode, brpc, object, loop, mu, applying, request, fault>>

\* the loop is woken if it waits,
NotifyLoop ==
  /\ main = "notify"
  /\ main' = "join_loop"
  /\ loop' = IF loop = "wait" THEN "woken" ELSE loop
  /\ UNCHANGED <<memberVars, mode, brpc, object, mu, stop, applying, request, fault>>

\* and joined if it was started.
JoinLoop ==
  /\ main = "join_loop"
  /\ loop \in {"none", "ended"}
  /\ main' = "free_server"
  /\ UNCHANGED <<memberVars, mode, brpc, object, loop, mu, stop, applying, request, fault>>

FreeServices ==
  /\ main = "free_services"
  /\ Goto("free_node", {"services"}, "freed")
  /\ UNCHANGED <<memberVars, mode, brpc, loop, mu, stop, applying, request, fault>>

\* ~RaftNode: shutdown fails what braft still holds,
ShutdownBraft ==
  /\ main = "free_node"
  /\ Goto("free_members", {}, "freed")
  /\ braft' = "down"
  /\ GiveUpChange
  /\ UNCHANGED <<conf, elections, call, outcome, reached, mode, brpc, loop, mu, stop,
                 applying, request, fault>>

\* Mutant: shutdown is not followed by join.
FreeNodeEarly ==
  /\ main = "free_members"
  /\ Goto("free_hub", {"node", "fsm", "store"}, "freed")
  /\ UNCHANGED <<memberVars, mode, brpc, loop, mu, stop, applying, request, fault>>

\* join waits for the applying thread, and then the members go.
FreeNode ==
  /\ main = "free_members"
  /\ ~applying
  /\ Goto("free_hub", {"node", "fsm", "store"}, "freed")
  /\ UNCHANGED <<memberVars, mode, brpc, loop, mu, stop, applying, request, fault>>

FreeHub ==
  /\ main = "free_hub"
  /\ Goto("exit", {"hub"}, "freed")
  /\ UNCHANGED <<memberVars, mode, brpc, loop, mu, stop, applying, request, fault>>

-----------------------------------------------------------------------------
(* The compaction loop *)

\* The thread starts with the mutex.
LoopLock ==
  /\ loop = "lock" /\ mu = "free"
  /\ loop' = "check" /\ mu' = "loop"
  /\ UNCHANGED <<memberVars, mode, main, brpc, object, stop, applying, request, fault>>

LoopCheck ==
  /\ loop = "check"
  /\ loop' = IF stop THEN "ended" ELSE "sleep"
  /\ mu' = IF stop THEN "free" ELSE mu
  /\ UNCHANGED <<memberVars, mode, main, brpc, object, stop, applying, request, fault>>

\* Mutant: the loop sleeps with the mutex.
LoopSleepLocked ==
  /\ loop = "sleep"
  /\ loop' = "wait"
  /\ UNCHANGED <<memberVars, mode, main, brpc, object, mu, stop, applying, request, fault>>

\* wait_for gives the mutex up while it waits.
LoopSleep ==
  /\ loop = "sleep"
  /\ loop' = "wait" /\ mu' = "free"
  /\ UNCHANGED <<memberVars, mode, main, brpc, object, stop, applying, request, fault>>

\* kCompactionIntervalSeconds have passed, or the wakeup is spurious.
LoopTimer ==
  /\ loop = "wait"
  /\ loop' = "woken"
  /\ UNCHANGED <<memberVars, mode, main, brpc, object, mu, stop, applying, request, fault>>

LoopWoken ==
  /\ loop = "woken" /\ mu = "free"
  /\ loop' = IF stop THEN "ended" ELSE "compact"
  /\ mu' = IF stop THEN "free" ELSE "loop"
  /\ UNCHANGED <<memberVars, mode, main, brpc, object, stop, applying, request, fault>>

\* node_->Compaction, with the mutex.
Compaction ==
  /\ loop = "compact"
  /\ Touch("loop", {"node", "store"})
  /\ loop' = "check"
  /\ UNCHANGED <<memberVars, mode, main, brpc, object, mu, stop, applying, request>>

-----------------------------------------------------------------------------
(* Requests, and braft's applying thread *)

RequestBegin(h, c) ==
  /\ brpc = "running"
  /\ request[h].pc = "idle"
  /\ request' = [request EXCEPT ![h] = [pc |-> "service", call |-> c]]
  /\ UNCHANGED <<memberVars, mode, main, brpc, object, loop, mu, stop, applying, fault>>

\* GetHealth asks the node, which answers without braft too.
RequestHealth(h) ==
  /\ request[h].pc = "service" /\ request[h].call = "Health"
  /\ Touch("Health", {"services", "node"})
  /\ request' = [request EXCEPT ![h] = NoRequest]
  /\ UNCHANGED <<memberVars, mode, main, brpc, object, loop, mu, stop, applying>>

\* The service calls the node, whose guards keep a call from going on before
\* node_ is set (IsLeader, WaitLeaderLease), except a local read: Get with
\* serializable, GetConfig, Watch.
RequestEnter(h) ==
  LET c    == request[h].call
      next == IF mode = "local" \/ c = "LocalRead" THEN {"store"}
              ELSE IF c = "Read" /\ braft = "up" THEN {"store", "idle"}
              ELSE IF c = "Write" /\ leads THEN {"apply"} ELSE {"idle"}
  IN  /\ request[h].pc = "service" /\ c # "Health"
      /\ Touch(c, {"services", "node"})
      /\ \E pc \in next :
           request' = [request EXCEPT ![h] = IF pc = "idle" THEN NoRequest
                                             ELSE [@ EXCEPT !.pc = pc]]
      /\ UNCHANGED <<memberVars, mode, main, brpc, object, loop, mu, stop, applying>>

\* fsm_->leader_term() and node_->apply; then it waits for the closure, without a
\* deadline.
RequestApply(h) ==
  /\ request[h].pc = "apply"
  /\ Touch(request[h].call, {"node", "fsm"})
  /\ request' = [request EXCEPT ![h].pc = "wait"]
  /\ UNCHANGED <<memberVars, mode, main, brpc, object, loop, mu, stop, applying>>

\* braft runs the closure, because the entry is applied or the leader steps down,
\* and the write returns.  It uses nothing but the state it shares with its closure.
RequestReleased(h) ==
  /\ request[h].pc = "wait"
  /\ request' = [request EXCEPT ![h] = NoRequest]
  /\ UNCHANGED <<memberVars, mode, main, brpc, object, loop, mu, stop, applying, fault>>

\* store_ is read, or in local mode written; Watch and a local write use the hub.
RequestStore(h) ==
  /\ request[h].pc = "store"
  /\ Touch(request[h].call, {"node", "store", "hub"})
  /\ request' = [request EXCEPT ![h] = NoRequest]
  /\ UNCHANGED <<memberVars, mode, main, brpc, object, loop, mu, stop, applying>>

ApplyBegin ==
  /\ braft = "up" /\ ~applying
  /\ applying' = TRUE
  /\ UNCHANGED <<memberVars, mode, main, brpc, object, loop, mu, stop, request, fault>>

\* on_apply: store and broadcast.
ApplyEnd ==
  /\ applying
  /\ Touch("braft", {"fsm", "store", "hub"})
  /\ applying' = FALSE
  /\ UNCHANGED <<memberVars, mode, main, brpc, object, loop, mu, stop, request>>

\* The admin service hands a membership change to the node.
AdminCall(c, op, peer) ==
  /\ brpc = "running"
  /\ ConfChange(c, op, peer)
  /\ Touch("Admin", {"services", "node"})
  /\ UNCHANGED threads

-----------------------------------------------------------------------------

MainStep ==
  \/ \E ok \in BOOLEAN : OpenStore(ok) \/ CreateNode(ok) \/ AddServices(ok)
                           \/ StartServer(ok) \/ InitFsm(ok) \/ InitBraft(ok)
  \/ InitStore \/ CreateBraft \/ StartCompactionLoop
  \/ JoinServer \/ StopCompaction \/ NotifyLoop \/ JoinLoop
  \/ FreeServices \/ ShutdownBraft \/ FreeNode \/ FreeHub

LoopStep == LoopLock \/ LoopCheck \/ LoopSleep \/ LoopWoken \/ Compaction

RequestStep(h) == RequestHealth(h) \/ RequestEnter(h) \/ RequestApply(h) \/ RequestStore(h)

MemberStep(c) == CallStep(c) /\ UNCHANGED <<threads, fault>>

Next ==
  \/ MainStep
  \/ StopServer
  \/ LoopStep
  \/ LoopTimer
  \/ \E h \in Handlers : RequestStep(h)
  \/ \E h \in Handlers : RequestReleased(h)
  \/ \E h \in Handlers, c \in Calls : RequestBegin(h, c)
  \/ ApplyBegin
  \/ ApplyEnd
  \/ \E c \in Callers : MemberStep(c)
  \/ \E c \in Callers, op \in {"add", "remove"}, peer \in Peers \cup {Invalid} :
       AdminCall(c, op, peer)
  \/ GroupStep /\ UNCHANGED <<threads, fault>>

Spec == Init /\ [][Next]_vars

\* Threads run, a mutex that is free again and again is got, and the deadlines of
\* membership calls pass.  Of braft it is assumed that it runs the closure of every
\* write that it was given (RequestReleased): the wait for it has no deadline, and
\* ApplyReturns of RaftNode is where that is checked.  Nothing is assumed of the
\* timer of the compaction loop, of the rest of braft's group, or of when the
\* process is asked to quit.
FairSpec ==
  /\ Spec
  /\ WF_vars(MainStep)
  /\ SF_vars(StopCompaction)
  /\ WF_vars(StopServer /\ main = "free_server")
  /\ WF_vars(LoopStep)
  /\ WF_vars(ApplyEnd)
  /\ \A h \in Handlers : WF_vars(RequestStep(h)) /\ WF_vars(RequestReleased(h))
  /\ \A c \in Callers : WF_vars(MemberStep(c))

-----------------------------------------------------------------------------
(* Properties *)

\* Types; the loop holds the mutex exactly while it does not wait.
TypeOK ==
  /\ MemberTypeOK
  /\ mode \in {"cluster", "local"}
  /\ main \in {"open", "node", "services", "start", "raft_store", "raft_fsm", "raft_node",
               "raft_init", "loop", "run", "join", "destroy", "notify", "join_loop", "free_server",
               "free_services", "free_node", "free_members", "free_hub", "exit"}
  /\ brpc \in {"none", "running", "stopping", "stopped"}
  /\ object \in [Objects -> {"unset", "live", "freed"}]
  /\ loop \in {"none", "lock", "check", "sleep", "wait", "woken", "compact", "ended"}
  /\ mu = (IF loop \in {"check", "sleep", "compact"} THEN "loop" ELSE "free")
  /\ stop \in BOOLEAN /\ applying \in BOOLEAN
  /\ \A h \in Handlers : /\ request[h].pc \in {"idle", "service", "apply", "wait", "store"}
                         /\ request[h].call \in Calls

\* Init and ~ConfigraftServer: no request, no compaction and no on_apply ever
\* touches an object that is freed, and none touches one that is not there yet,
\* but for a local read that comes in between server_.Start and RaftNode::Init.
\* The order of the members of ConfigraftServer and RaftNode, the joins and the
\* guards on node_ all have to be right for this.
UsesLiveObjects == fault \subseteq {<<"LocalRead", "store", "unset", "raft_store">>}

\* server.cpp, "notify, so that join does not wait for the interval": once the
\* process is asked to quit, or Init has failed, it exits, even if the timer of
\* the compaction loop never fires again.
ShutdownCompletes ==
  main \in {"join", "destroy"} ~> main = "exit"
==============================================================================
