------------------------------ MODULE Membership ------------------------------
(***************************************************************************)
(* Membership changes (RaftNode::AddPeer and RemovePeer with               *)
(* ConfChangeClosure, src/raft/raft_node.cpp, called by the admin          *)
(* service): the call hands the change to braft and waits 60 seconds for   *)
(* its closure.  The result of the closure goes to a ConfChangeOutcome     *)
(* that the call and the closure share, because either may end first.      *)
(* braft is external, seen from the one member Self that serves the calls: *)
(*   - it refuses a change when it does not lead or another change is      *)
(*     under way, and accepts at once what would change nothing;           *)
(*   - a peer that is added has to catch up first;                         *)
(*   - a leader that steps down fails the closure, but the entry may be in *)
(*     the log of the next leader;                                         *)
(*   - while another member leads, it changes the group as it likes.       *)
(***************************************************************************)
EXTENDS Integers, FiniteSets

CONSTANTS
  Peers,          \* the well-formed addresses
  Self,           \* the address of this member
  InitialConf,    \* the group at first
  Callers,        \* threads with one call each
  Invalid,        \* an address that PeerId::parse refuses
  ElectionBound   \* bound: no change of the leader after this many

ASSUME MembershipAssumption ==
  /\ Self \in InitialConf /\ InitialConf \subseteq Peers
  /\ Invalid \notin Peers
  /\ ElectionBound \in Nat

VARIABLES
  braft,      \* node_: unset, up, or set but not running: down
  leads,      \* braft: this member leads
  conf,       \* braft: the committed group
  change,     \* braft: the change under way here, {} or {[call, stage]}
  orphan,     \* braft: a change that a leader left in the log, {} or {call}
  elections,  \* braft: changes of the leader so far
  call,       \* the call of each caller
  closure,    \* ConfChangeClosure of each call: none, held, or due with a status
  outcome,    \* ConfChangeOutcome of each call, as long as someone refers to it
  reached     \* history: calls whose goal was the committed group since they began

group == <<leads, conf, change, orphan, elections>>
memberVars == <<braft, group, call, closure, outcome, reached>>

NewCall == [pc |-> "idle", op |-> "add", peer |-> Self, code |-> "OK"]

NewOutcome == [done |-> FALSE, ok |-> FALSE]

MemberInit ==
  /\ braft = "unset"
  /\ leads = FALSE
  /\ conf = InitialConf
  /\ change = {}
  /\ orphan = {}
  /\ elections = 0
  /\ call = [c \in Callers |-> NewCall]
  /\ closure = [c \in Callers |-> "none"]
  /\ outcome = [c \in Callers |-> {}]
  /\ reached = {}

-----------------------------------------------------------------------------
(* braft, as the code uses it *)

\* The group that a call asks for.
Changed(c, g) == IF call[c].op = "add" THEN g \cup {call[c].peer} ELSE g \ {call[c].peer}

Running(c) == call[c].pc \in {"submit", "wait"}

\* The committed group becomes g.
Committed(g) ==
  /\ conf' = g
  /\ reached' = reached \cup {c \in Callers : Running(c) /\ Changed(c, g) = g}

\* The closure of a change under way is handed over with its status.
Due(c, ok) == [closure EXCEPT ![c] = IF ok THEN "ok" ELSE "error"]

\* A leader is elected, here or elsewhere, and commits what its log says: with
\* the change that was left over, or without.
Elected(here) ==
  /\ braft = "up" /\ ~leads
  /\ elections < ElectionBound
  /\ elections' = elections + 1
  /\ \E g \in {conf} \cup {Changed(c, conf) : c \in orphan} :
       /\ here => Self \in g
       /\ Committed(g)
  /\ leads' = here
  /\ orphan' = {}
  /\ UNCHANGED <<braft, change, call, closure, outcome>>

\* The leader elsewhere changes the group.
OtherChange(p) ==
  /\ braft = "up" /\ ~leads /\ elections > 0
  /\ \E g \in {conf \cup {p}, conf \ {p}} : g # {} /\ g # conf /\ Committed(g)
  /\ orphan' = {}
  /\ UNCHANGED <<braft, leads, change, elections, call, closure, outcome>>

\* This member stops leading: a change that is in its log may survive it.
GiveUpChange ==
  /\ leads' = FALSE
  /\ change' = {}
  /\ orphan' = {x.call : x \in {x \in change : x.stage = "log"}} \cup orphan
  /\ closure' = [c \in Callers |-> IF closure[c] = "held" THEN "error" ELSE closure[c]]

StepDown ==
  /\ leads
  /\ GiveUpChange
  /\ UNCHANGED <<braft, conf, elections, call, outcome, reached>>

\* The new peer has what the leader has, or does not get there.
CatchUp(x, ok) ==
  /\ x \in change /\ x.stage = "catchup"
  /\ change' = IF ok THEN {[x EXCEPT !.stage = "log"]} ELSE {}
  /\ closure' = IF ok THEN closure ELSE Due(x.call, FALSE)
  /\ UNCHANGED <<braft, leads, conf, orphan, elections, call, outcome, reached>>

\* The entry of the change is committed.  A leader that has removed itself
\* gives way.
CommitChange(x) ==
  /\ x \in change /\ x.stage = "log"
  /\ Committed(Changed(x.call, conf))
  /\ change' = {}
  /\ closure' = Due(x.call, TRUE)
  /\ leads' = (Self \in conf')
  /\ UNCHANGED <<braft, orphan, elections, call, outcome>>

-----------------------------------------------------------------------------
(* AddPeer and RemovePeer *)

\* Mutant: the address is not checked.
ConfChangeUnparsed(c, op, peer) ==
  LET refusal == IF braft = "unset" THEN "INTERNAL"
                 ELSE IF ~leads THEN "NOT_LEADER" ELSE "OK"
  IN  /\ call[c].pc = "idle"
      /\ call' = [call EXCEPT ![c] =
                    IF refusal # "OK" THEN [NewCall EXCEPT !.pc = "done", !.code = refusal]
                    ELSE [NewCall EXCEPT !.pc = "submit", !.op = op, !.peer = peer]]
      /\ UNCHANGED <<braft, group, closure, outcome, reached>>

\* The checks before the change is handed over, in the order of the code.
ConfChange(c, op, peer) ==
  LET refusal == IF braft = "unset" THEN "INTERNAL"
                 ELSE IF ~leads THEN "NOT_LEADER"
                 ELSE IF peer = Invalid THEN "INTERNAL" ELSE "OK"
  IN  /\ call[c].pc = "idle"
      /\ call' = [call EXCEPT ![c] =
                    IF refusal # "OK" THEN [NewCall EXCEPT !.pc = "done", !.code = refusal]
                    ELSE [NewCall EXCEPT !.pc = "submit", !.op = op, !.peer = peer]]
      /\ UNCHANGED <<braft, group, closure, outcome, reached>>

\* node_->add_peer or remove_peer, with a new outcome and its closure.
Submit(c) ==
  /\ call[c].pc = "submit"
  /\ call' = [call EXCEPT ![c].pc = "wait"]
  /\ outcome' = [outcome EXCEPT ![c] = {NewOutcome}]
  /\ IF ~leads \/ change # {}
     THEN closure' = Due(c, FALSE) /\ UNCHANGED <<change, reached>>
     ELSE IF Changed(c, conf) = conf
     THEN closure' = Due(c, TRUE) /\ reached' = reached \cup {c} /\ UNCHANGED change
     ELSE /\ closure' = [closure EXCEPT ![c] = "held"]
          /\ change' = {[call |-> c, stage |-> IF call[c].op = "add" THEN "catchup"
                                               ELSE "log"]}
          /\ UNCHANGED reached
  /\ UNCHANGED <<braft, leads, conf, orphan, elections>>

\* Mutant: the status of the closure is not passed on.
RunWithoutStatus(c) ==
  /\ closure[c] \in {"ok", "error"}
  /\ closure' = [closure EXCEPT ![c] = "none"]
  /\ outcome' = [outcome EXCEPT ![c] =
                   IF call[c].pc = "wait" THEN {[done |-> TRUE, ok |-> TRUE]} ELSE {}]
  /\ UNCHANGED <<braft, group, call, reached>>

\* ConfChangeClosure::Run.  The outcome goes with the last one who refers to it.
Run(c) ==
  /\ closure[c] \in {"ok", "error"}
  /\ closure' = [closure EXCEPT ![c] = "none"]
  /\ outcome' = [outcome EXCEPT ![c] =
                   IF call[c].pc = "wait"
                   THEN {[done |-> TRUE, ok |-> closure[c] = "ok"]} ELSE {}]
  /\ UNCHANGED <<braft, group, call, reached>>

\* Mutant: the outcome is a local variable of the call.
ReturnsWithOutcome(c, code) ==
  /\ call' = [call EXCEPT ![c].pc = "done", ![c].code = code]
  /\ outcome' = [outcome EXCEPT ![c] = {}]
  /\ UNCHANGED <<braft, group, closure, reached>>

\* The call returns and no longer refers to its outcome.
Returns(c, code) ==
  /\ call' = [call EXCEPT ![c].pc = "done", ![c].code = code]
  /\ outcome' = [outcome EXCEPT ![c] = IF closure[c] = "none" THEN {} ELSE @]
  /\ UNCHANGED <<braft, group, closure, reached>>

\* The waiting loop ends because the closure has run.
WaitDone(c) ==
  /\ call[c].pc = "wait"
  /\ \E o \in outcome[c] : o.done /\ Returns(c, IF o.ok THEN "OK" ELSE "INTERNAL")

\* Mutant: the loop has no deadline.
WaitForever(c) ==
  /\ call[c].pc = "wait"
  /\ \E o \in outcome[c] : o.done /\ Returns(c, "INTERNAL")

\* The waiting loop ends at its deadline; what braft does goes on.
WaitTimeout(c) ==
  /\ call[c].pc = "wait"
  /\ \E o \in outcome[c] : ~o.done /\ Returns(c, "INTERNAL")

-----------------------------------------------------------------------------

CallStep(c) == Submit(c) \/ WaitDone(c) \/ WaitTimeout(c)

GroupStep ==
  \/ \E here \in BOOLEAN : Elected(here)
  \/ \E p \in Peers : OtherChange(p)
  \/ StepDown
  \/ \E x \in change : CommitChange(x) \/ \E ok \in BOOLEAN : CatchUp(x, ok)
  \/ \E c \in Callers : Run(c)

\* The calls on their own: RaftNode::Init has given them a node, or not yet.
StartBraft ==
  /\ braft = "unset"
  /\ braft' = "up"
  /\ UNCHANGED <<group, call, closure, outcome, reached>>

MemberNext ==
  \/ StartBraft
  \/ GroupStep
  \/ \E c \in Callers : CallStep(c)
  \/ \E c \in Callers, op \in {"add", "remove"}, peer \in Peers \cup {Invalid} :
       ConfChange(c, op, peer)

\* The threads of the calls run and their deadlines pass; braft may do nothing.
MemberSpec ==
  /\ MemberInit
  /\ [][MemberNext]_memberVars
  /\ \A c \in Callers : WF_memberVars(CallStep(c))

-----------------------------------------------------------------------------
(* Properties *)

\* Types; braft holds a closure for the change under way and for no other.
MemberTypeOK ==
  /\ braft \in {"unset", "up", "down"}
  /\ leads \in BOOLEAN /\ (leads => braft = "up")
  /\ conf \subseteq Peers
  /\ change \subseteq [call: Callers, stage: {"catchup", "log"}]
  /\ Cardinality(change) <= 1 /\ (change # {} => leads)
  /\ orphan \subseteq Callers
  /\ elections \in 0..ElectionBound
  /\ call \in [Callers -> [pc: {"idle", "submit", "wait", "done"}, op: {"add", "remove"},
                            peer: Peers, code: {"OK", "NOT_LEADER", "INTERNAL"}]]
  /\ closure \in [Callers -> {"none", "held", "ok", "error"}]
  /\ reached \subseteq Callers
  /\ \A c \in Callers : closure[c] = "held" <=> \E x \in change : x.call = c

\* AddPeer and RemovePeer: an OK is true.  Since the change was handed over, a
\* group as it was asked for was committed, whatever leaders came and went and
\* whoever else was changing the group.
OkMeansCommitted ==
  \A c \in Callers : call[c].pc = "done" /\ call[c].code = "OK" => c \in reached

\* ConfChangeOutcome: whenever braft runs a closure, after the deadline of the
\* call too, the outcome it writes to is still there; and nobody keeps it alive
\* once the call has returned and the closure has run.
OutcomeOutlivesCall ==
  \A c \in Callers :
    outcome[c] # {} <=> closure[c] # "none" \/ call[c].pc = "wait"

\* The loop with a deadline: the call returns, whatever braft does or fails to do.
ConfChangeReturns == \A c \in Callers : Running(c) ~> call[c].pc = "done"
==============================================================================
