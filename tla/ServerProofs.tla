----------------------------- MODULE ServerProofs -----------------------------
(***************************************************************************)
(* Proofs about Server: no thread of the process ever touches an object    *)
(* that is not there.                                                      *)
(***************************************************************************)
EXTENDS Server, MembershipProofs

Starting == {"open", "node", "services", "start"}
Raft     == {"raft_store", "raft_fsm", "raft_node", "raft_init"}
Serving  == {"loop", "run", "join"}
Ending   == {"destroy", "notify", "join_loop", "free_server"}

Live(objs) == \A o \in objs : object[o] = "live"

\* What the place of the main thread says about the objects, braft and the loop.
MainInv ==
  /\ main \in {"services", "start"} \cup Raft \cup Serving => Live({"hub", "node"})
  /\ main \in {"start"} \cup Raft \cup Serving => Live({"services"})
  /\ main \in {"services", "start"} /\ mode = "local" => Live({"store"})
  /\ main \in Starting /\ mode = "cluster" => object["store"] = "unset"
  /\ main \in Raft => mode = "cluster"
  /\ main = "raft_store" => object["store"] = "unset"
  /\ main \in (Raft \ {"raft_store"}) \cup Serving => Live({"store"})
  /\ main \in {"raft_node", "raft_init"} => Live({"fsm"})
  /\ main \in Starting \cup (Raft \ {"raft_init"}) => braft = "unset"
  /\ main = "raft_init" => braft = "down"
  /\ main \in Starting \cup Raft => ~applying
  /\ main \in Starting => brpc = "none"
  /\ main \in Starting \cup Raft \cup {"loop"} => loop = "none"
  /\ main \in {"free_members", "free_hub", "exit"} => braft = "down"
  /\ main \in {"free_hub", "exit"} => ~applying

\* While brpc may hand requests out or still runs some, what every request needs
\* is there; what only some need is there for those.
ServingInv ==
  /\ brpc \in {"running", "stopping"} =>
       /\ main \in Raft \cup Serving \cup Ending
       /\ Live({"hub", "node", "services"})
       /\ main # "raft_store" => Live({"store"})
  /\ \A h \in Handlers : request[h].pc # "idle" => brpc \in {"running", "stopping"}
  /\ \A h \in Handlers : request[h].pc = "apply" => Live({"fsm"})
  /\ \A h \in Handlers : request[h].pc = "store" =>
       Live({"store"}) \/ request[h].call = "LocalRead"

\* braft is up, or is being shut down in the middle of on_apply: what on_apply
\* needs is there.
ApplierInv == braft = "up" \/ applying => Live({"hub", "node", "store", "fsm"})

\* The compaction thread runs between its start and its join.
LoopInv ==
  loop \notin {"none", "ended"} =>
    main \in Serving \cup {"destroy", "notify", "join_loop"} /\ Live({"node", "store"})

\* The types of the process, without those of the membership calls.
ProcessType ==
  /\ mode \in {"cluster", "local"}
  /\ main \in Starting \cup Raft \cup Serving \cup Ending \cup
                {"free_services", "free_node", "free_members", "free_hub", "exit"}
  /\ brpc \in {"none", "running", "stopping", "stopped"}
  /\ object \in [Objects -> {"unset", "live", "freed"}]
  /\ loop \in {"none", "lock", "check", "sleep", "wait", "woken", "compact", "ended"}
  /\ mu = (IF loop \in {"check", "sleep", "compact"} THEN "loop" ELSE "free")
  /\ stop \in BOOLEAN /\ applying \in BOOLEAN
  /\ request \in [Handlers -> [pc: {"idle", "service", "apply", "wait", "store"}, call: Calls]]

ProcessInv ==
  /\ ProcessType
  /\ MainInv
  /\ ServingInv
  /\ ApplierInv
  /\ LoopInv
  /\ UsesLiveObjects

\* The inductive invariant of the process.
ServerInv == MemberInv /\ ProcessInv

USE DEF Starting, Raft, Serving, Ending, Live, Objects

-----------------------------------------------------------------------------

\* Init: the invariant holds at first.
LEMMA InitServerInv == Init => ServerInv
  <1> SUFFICES ASSUME Init PROVE ServerInv
    OBVIOUS
  <1>1. MemberInv
    BY MemberInitInv DEF Init
  <1>2. ProcessType
    BY DEF Init, ProcessType, NoRequest, Calls
  <1>3. braft = "unset"
    BY DEF Init, MemberInit
  <1>4. MainInv /\ ServingInv /\ ApplierInv /\ LoopInv /\ UsesLiveObjects
    BY <1>3 DEF Init, MainInv, ServingInv, ApplierInv, LoopInv, UsesLiveObjects, NoRequest
  <1>5. QED
    BY <1>1, <1>2, <1>4 DEF ServerInv, ProcessInv

\* ConfigraftServer::Init, from opening the store to starting brpc.
LEMMA StartUpInv ==
  ASSUME ServerInv, NEW ok \in BOOLEAN,
         OpenStore(ok) \/ CreateNode(ok) \/ AddServices(ok) \/ StartServer(ok)
  PROVE  ProcessInv'
  <1> USE DEF Goto, ServerInv, ProcessInv, memberVars
  <1>1. ProcessType'
    BY DEF OpenStore, CreateNode, AddServices, StartServer, ProcessType
  <1>2. MainInv'
    BY DEF OpenStore, CreateNode, AddServices, StartServer, ProcessType, MainInv
  <1>3. ServingInv'
    BY DEF OpenStore, CreateNode, AddServices, StartServer, ProcessType, MainInv, ServingInv
  <1>4. ApplierInv' /\ LoopInv'
    BY DEF OpenStore, CreateNode, AddServices, StartServer, ProcessType, MainInv,
           ApplierInv, LoopInv
  <1>5. UsesLiveObjects'
    BY DEF OpenStore, CreateNode, AddServices, StartServer, UsesLiveObjects
  <1>6. QED
    BY <1>1, <1>2, <1>3, <1>4, <1>5

\* RaftNode::Init and the start of the compaction loop, with requests coming in.
LEMMA RaftInitInv ==
  ASSUME ServerInv, NEW ok \in BOOLEAN,
         InitStore \/ InitFsm(ok) \/ CreateBraft \/ InitBraft(ok) \/ StartCompactionLoop
  PROVE  ProcessInv'
  <1> USE DEF Goto, ServerInv, ProcessInv, memberVars
  <1>1. ProcessType'
    BY DEF InitStore, InitFsm, CreateBraft, InitBraft, StartCompactionLoop, ProcessType, MainInv
  <1>2. MainInv'
    BY DEF InitStore, InitFsm, CreateBraft, InitBraft, StartCompactionLoop, ProcessType, MainInv
  <1>3. ServingInv'
    BY DEF InitStore, InitFsm, CreateBraft, InitBraft, StartCompactionLoop, ProcessType, MainInv,
           ServingInv
  <1>4. ApplierInv' /\ LoopInv'
    BY DEF InitStore, InitFsm, CreateBraft, InitBraft, StartCompactionLoop, ProcessType, MainInv,
           ApplierInv, LoopInv
  <1>5. UsesLiveObjects'
    BY DEF InitStore, InitFsm, CreateBraft, InitBraft, StartCompactionLoop, UsesLiveObjects
  <1>6. QED
    BY <1>1, <1>2, <1>3, <1>4, <1>5

\* Stop, the joins and the end of the compaction loop: nothing is freed yet.
LEMMA JoinsInv ==
  ASSUME ServerInv, StopServer \/ JoinServer \/ StopCompaction \/ NotifyLoop \/ JoinLoop
  PROVE  ProcessInv'
  <1> USE DEF StopServer, JoinServer, StopCompaction, NotifyLoop, JoinLoop,
              ServerInv, ProcessInv, memberVars
  <1>1. ProcessType'
    <2>1. CASE StopServer
      BY <2>1 DEF ProcessType
    <2>2. CASE JoinServer
      <3>1. main' \in {"destroy", "free_services"}
        BY <2>2
      <3> QED BY <2>2, <3>1 DEF ProcessType
    <2>3. CASE StopCompaction
      BY <2>3 DEF ProcessType
    <2>4. CASE NotifyLoop
      BY <2>4 DEF ProcessType
    <2>5. CASE JoinLoop
      BY <2>5 DEF ProcessType
    <2> QED BY <2>1, <2>2, <2>3, <2>4, <2>5
  <1>2. MainInv'
    BY DEF ProcessType, MainInv
  <1>3. ServingInv'
    BY DEF ProcessType, MainInv, ServingInv, Quiet
  <1>4. ApplierInv' /\ LoopInv'
    BY DEF ProcessType, MainInv, ApplierInv, LoopInv
  <1>5. UsesLiveObjects'
    BY DEF UsesLiveObjects
  <1>6. QED
    BY <1>1, <1>2, <1>3, <1>4, <1>5

\* Destruction: brpc is stopped, the loop has been joined, and braft is down
\* before what its thread uses goes.
LEMMA FreeInv ==
  ASSUME ServerInv, FreeServices \/ ShutdownBraft \/ FreeNode \/ FreeHub
  PROVE  ProcessInv'
  <1> USE DEF FreeServices, ShutdownBraft, FreeNode, FreeHub, Goto,
              ServerInv, ProcessInv, memberVars
  <1>1. ProcessType'
    BY DEF ProcessType
  <1>2. MainInv'
    BY DEF ProcessType, MainInv
  <1>3. ServingInv'
    BY DEF ProcessType, MainInv, ServingInv
  <1>4. ApplierInv' /\ LoopInv'
    BY DEF ProcessType, MainInv, ApplierInv, LoopInv
  <1>5. UsesLiveObjects'
    BY DEF UsesLiveObjects
  <1>6. QED
    BY <1>1, <1>2, <1>3, <1>4, <1>5

\* The compaction loop, whose one use of the node finds it there.
LEMMA LoopStepInv ==
  ASSUME ServerInv, LoopStep \/ LoopTimer
  PROVE  ProcessInv'
  <1> USE DEF LoopStep, LoopTimer, LoopLock, LoopCheck, LoopSleep, LoopWoken, Compaction,
              ServerInv, ProcessInv, memberVars
  <1>1. ProcessType'
    BY DEF ProcessType
  <1>2. MainInv'
    BY DEF ProcessType, MainInv
  <1>3. ServingInv'
    BY DEF ProcessType, ServingInv
  <1>4. ApplierInv' /\ LoopInv'
    BY DEF ProcessType, ApplierInv, LoopInv
  <1>5. UsesLiveObjects'
    BY DEF UsesLiveObjects, LoopInv, Touch
  <1>6. QED
    BY <1>1, <1>2, <1>3, <1>4, <1>5

\* A request, from its arrival to its answer.
LEMMA RequestInv ==
  ASSUME ServerInv, NEW h \in Handlers,
         RequestStep(h) \/ RequestReleased(h) \/ \E c \in Calls : RequestBegin(h, c)
  PROVE  ProcessInv'
  <1> USE DEF RequestStep, RequestBegin, RequestHealth, RequestEnter, RequestApply,
              RequestReleased, RequestStore, NoRequest, ServerInv, ProcessInv, memberVars
  <1>1. ProcessType'
    BY DEF ProcessType, Calls
  <1>2. MainInv' /\ ApplierInv' /\ LoopInv'
    BY DEF MainInv, ApplierInv, LoopInv
  <1>3. ServingInv'
    BY DEF ProcessType, MainInv, ServingInv, ApplierInv, MemberInv, MemberTypeOK
  <1>4. UsesLiveObjects'
    BY DEF ProcessType, MainInv, ServingInv, UsesLiveObjects, Touch
  <1>5. QED
    BY <1>1, <1>2, <1>3, <1>4

\* braft's applying thread.
LEMMA ApplyInv ==
  ASSUME ServerInv, ApplyBegin \/ ApplyEnd
  PROVE  ProcessInv'
  <1> USE DEF ApplyBegin, ApplyEnd, ServerInv, ProcessInv, memberVars
  <1>1. ProcessType'
    BY DEF ProcessType
  <1>2. MainInv' /\ ServingInv' /\ ApplierInv' /\ LoopInv'
    BY DEF ProcessType, MainInv, ServingInv, ApplierInv, LoopInv
  <1>3. UsesLiveObjects'
    BY DEF ApplierInv, UsesLiveObjects, Touch
  <1>4. QED
    BY <1>1, <1>2, <1>3

\* The admin service: a call that comes in finds the service and the node.
LEMMA AdminCallInv ==
  ASSUME ServerInv, NEW c \in Callers, NEW op, NEW peer, AdminCall(c, op, peer)
  PROVE  ProcessInv'
  <1> USE DEF AdminCall, ConfChange, threads, ServerInv, ProcessInv
  <1>1. ProcessType' /\ MainInv' /\ ServingInv' /\ ApplierInv' /\ LoopInv'
    BY DEF ProcessType, MainInv, ServingInv, ApplierInv, LoopInv
  <1>2. UsesLiveObjects'
    BY DEF ServingInv, UsesLiveObjects, Touch
  <1>3. QED
    BY <1>1, <1>2

\* A step of braft's group or of a membership call leaves the process alone.
LEMMA GroupLeavesBraft ==
  ASSUME GroupStep \/ \E c \in Callers : CallStep(c)
  PROVE  UNCHANGED braft
  BY DEF GroupStep, Elected, OtherChange, StepDown, CommitChange, CatchUp, Run,
         CallStep, Submit, WaitDone, WaitTimeout, Returns

\* A step that changes nothing of the process.
LEMMA ProcessStutterInv ==
  ASSUME ServerInv, UNCHANGED <<braft, threads, fault>>
  PROVE  ProcessInv'
  BY DEF threads, ServerInv, ProcessInv, ProcessType, MainInv, ServingInv, ApplierInv,
         LoopInv, UsesLiveObjects

-----------------------------------------------------------------------------

\* The part of the invariant about membership calls, in every step of the process.
LEMMA NextMemberInv ==
  ASSUME ServerInv, [Next]_vars
  PROVE  MemberInv'
  <1> USE DEF ServerInv
  <1>1. CASE CreateBraft \/ \E ok \in BOOLEAN : InitBraft(ok)
    BY <1>1, BraftInv
    DEF CreateBraft, InitBraft, ProcessInv, MainInv, MemberInv, MemberTypeOK
  <1>2. CASE ShutdownBraft
    BY <1>2, GiveUpInv DEF ShutdownBraft
  <1>3. CASE \E c \in Callers : MemberStep(c)
    BY <1>3, CallStepInv DEF MemberStep
  <1>4. CASE \E c \in Callers, op \in {"add", "remove"}, peer \in Peers \cup {Invalid} :
               AdminCall(c, op, peer)
    BY <1>4, ConfChangeInv DEF AdminCall
  <1>5. CASE GroupStep
    BY <1>5, GroupStepInv
  <1>6. CASE UNCHANGED memberVars
    BY <1>6, BraftInv DEF memberVars, MemberInv, MemberTypeOK
  <1>7. QED
    BY <1>1, <1>2, <1>3, <1>4, <1>5, <1>6
    DEF Next, MainStep, OpenStore, CreateNode, AddServices, StartServer, InitStore, InitFsm,
        StartCompactionLoop, StopServer, JoinServer, StopCompaction, NotifyLoop, JoinLoop,
        FreeServices, FreeNode, FreeHub, LoopStep, LoopTimer, LoopLock, LoopCheck, LoopSleep,
        LoopWoken, Compaction, RequestStep, RequestBegin, RequestHealth, RequestEnter,
        RequestApply, RequestReleased, RequestStore, ApplyBegin, ApplyEnd, vars

\* Every step of the process preserves the invariant.
LEMMA NextServerInv == ServerInv /\ [Next]_vars => ServerInv'
  <1> SUFFICES ASSUME ServerInv, [Next]_vars PROVE ProcessInv'
    BY NextMemberInv DEF ServerInv
  <1>1. CASE MainStep
    BY <1>1, StartUpInv, RaftInitInv, JoinsInv, FreeInv DEF MainStep
  <1>2. CASE StopServer
    BY <1>2, JoinsInv
  <1>3. CASE LoopStep \/ LoopTimer
    BY <1>3, LoopStepInv
  <1>4. CASE \E h \in Handlers :
               RequestStep(h) \/ RequestReleased(h) \/ \E c \in Calls : RequestBegin(h, c)
    BY <1>4, RequestInv
  <1>5. CASE ApplyBegin \/ ApplyEnd
    BY <1>5, ApplyInv
  <1>6. CASE \E c \in Callers, op \in {"add", "remove"}, peer \in Peers \cup {Invalid} :
               AdminCall(c, op, peer)
    BY <1>6, AdminCallInv
  <1>7. CASE (GroupStep \/ \E c \in Callers : CallStep(c)) /\ UNCHANGED <<threads, fault>>
    BY <1>7, GroupLeavesBraft, ProcessStutterInv
  <1>8. CASE UNCHANGED vars
    BY <1>8, ProcessStutterInv DEF vars, memberVars
  <1>9. QED
    BY <1>1, <1>2, <1>3, <1>4, <1>5, <1>6, <1>7, <1>8 DEF Next, MemberStep

\* The invariant of the process.
LEMMA ServerInvariance == Spec => []ServerInv
  BY InitServerInv, NextServerInv, PTL DEF Spec

\* Types; and the compaction loop holds the mutex exactly while it does not wait.
THEOREM ProcessTypeCorrect == Spec => []TypeOK
  <1>1. ServerInv => TypeOK
    BY DEF ServerInv, ProcessInv, ProcessType, MemberInv, TypeOK
  <1>2. QED
    BY <1>1, ServerInvariance, PTL

\* Init, the joins and ~ConfigraftServer: for any number of workers and admin
\* calls, no thread touches an object that is freed, nor one that is not there yet,
\* but for a local read between server_.Start and RaftNode::Init.
THEOREM NoUseOfFreedObjects == Spec => []UsesLiveObjects
  <1>1. ServerInv => UsesLiveObjects
    BY DEF ServerInv, ProcessInv
  <1>2. QED
    BY <1>1, ServerInvariance, PTL

\* AddPeer and RemovePeer keep their promises in the process as well: a node that
\* is not set yet, or shut down with a change under way, makes no OK untrue and
\* leaves no closure without its outcome.
THEOREM MembershipInProcess == Spec => [](OkMeansCommitted /\ OutcomeOutlivesCall)
  <1>1. ServerInv => OkMeansCommitted /\ OutcomeOutlivesCall
    BY DEF ServerInv, MemberInv
  <1>2. QED
    BY <1>1, ServerInvariance, PTL
==============================================================================
