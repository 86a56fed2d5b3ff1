--------------------------- MODULE MembershipProofs ---------------------------
(***************************************************************************)
(* Proofs about Membership, for any number of callers, peers and           *)
(* elections.  The lemmas about single steps do not assume that the step   *)
(* is one of MemberNext: ServerProofs uses them again for the process.     *)
(***************************************************************************)
EXTENDS Membership, TLAPS, FiniteSetTheorems

\* The type invariant without cardinality: at most one change is under way.
OneChange == change = {} \/ \E x : change = {x}

\* A call has no closure and no outcome before it hands its change over.
FreshInv ==
  \A c \in Callers : call[c].pc \in {"idle", "submit"} => closure[c] = "none"

\* What the call will answer OK for has been reached: the status on its way to
\* the closure, and the status that the closure has left in the outcome.
StatusInv ==
  /\ outcome \in [Callers -> SUBSET [done: BOOLEAN, ok: BOOLEAN]]
  /\ \A c \in Callers : call[c].pc = "wait" =>
       /\ closure[c] = "ok" => c \in reached
       /\ \A o \in outcome[c] : o.done /\ o.ok => c \in reached

\* The inductive invariant.
MemberInv ==
  /\ MemberTypeOK
  /\ OneChange
  /\ FreshInv
  /\ StatusInv
  /\ OkMeansCommitted
  /\ OutcomeOutlivesCall

-----------------------------------------------------------------------------

\* Asking twice for the same change asks for nothing more.
LEMMA ChangedTwice ==
  ASSUME NEW c \in Callers, NEW g
  PROVE  Changed(c, Changed(c, g)) = Changed(c, g)
  BY DEF Changed

\* A change leads from a group of peers to a group of peers.
LEMMA ChangedType ==
  ASSUME MemberTypeOK, NEW c \in Callers, NEW g \in SUBSET Peers
  PROVE  Changed(c, g) \in SUBSET Peers
  BY DEF Changed, MemberTypeOK

\* At most one element, said with cardinality.
LEMMA AtMostOne ==
  ASSUME NEW S, S = {} \/ \E x : S = {x}
  PROVE  Cardinality(S) <= 1
  <1>1. CASE S = {}
    BY <1>1, FS_EmptySet
  <1>2. CASE \E x : S = {x}
    <2>1. PICK x : S = {x}
      BY <1>2
    <2>2. Cardinality({x}) = 1
      BY FS_Singleton
    <2>3. QED
      BY <2>1, <2>2
  <1>3. QED
    BY <1>1, <1>2

\* MemberInit: the invariant holds at first.
LEMMA MemberInitInv == MemberInit => MemberInv
  <1> SUFFICES ASSUME MemberInit PROVE MemberInv
    OBVIOUS
  <1> USE MembershipAssumption DEF MemberInit, NewCall
  <1>1. OneChange
    BY DEF OneChange
  <1>2. MemberTypeOK
    <2>1. Cardinality(change) <= 1
      BY AtMostOne
    <2>2. call \in [Callers -> [pc: {"idle", "submit", "wait", "done"}, op: {"add", "remove"},
                                peer: Peers, code: {"OK", "NOT_LEADER", "INTERNAL"}]]
      OBVIOUS
    <2>3. elections \in 0..ElectionBound
      OBVIOUS
    <2>4. QED
      BY <2>1, <2>2, <2>3 DEF MemberTypeOK
  <1>3. FreshInv /\ StatusInv /\ OkMeansCommitted /\ OutcomeOutlivesCall
    BY DEF FreshInv, StatusInv, OkMeansCommitted, OutcomeOutlivesCall
  <1>4. QED
    BY <1>1, <1>2, <1>3 DEF MemberInv

\* Committing a group only ever adds to the calls that reached their goal.
LEMMA CommittedGrows ==
  ASSUME NEW g, Committed(g)
  PROVE  reached \subseteq reached'
  BY DEF Committed

\* Elected: calls, closures and outcomes are left alone.
LEMMA ElectedInv ==
  ASSUME MemberInv, NEW here \in BOOLEAN, Elected(here)
  PROVE  MemberInv'
  <1> USE DEF Elected
  <1>1. PICK g \in {conf} \cup {Changed(c, conf) : c \in orphan} : Committed(g)
    OBVIOUS
  <1>2. g \in SUBSET Peers
    BY ChangedType DEF MemberInv, MemberTypeOK
  <1>3. OneChange' /\ Cardinality(change)' <= 1
    BY AtMostOne DEF MemberInv, OneChange
  <1>4. elections' \in 0..ElectionBound
    BY MembershipAssumption DEF MemberInv, MemberTypeOK
  <1>5. MemberTypeOK'
    BY <1>1, <1>2, <1>3, <1>4 DEF MemberInv, MemberTypeOK, Committed
  <1>6. FreshInv' /\ StatusInv' /\ OkMeansCommitted' /\ OutcomeOutlivesCall'
    BY <1>1, CommittedGrows
    DEF MemberInv, FreshInv, StatusInv, OkMeansCommitted, OutcomeOutlivesCall
  <1>7. QED
    BY <1>3, <1>5, <1>6 DEF MemberInv

\* OtherChange: likewise.
LEMMA OtherChangeInv ==
  ASSUME MemberInv, NEW p \in Peers, OtherChange(p)
  PROVE  MemberInv'
  <1> USE DEF OtherChange
  <1>1. PICK g \in {conf \cup {p}, conf \ {p}} : Committed(g)
    OBVIOUS
  <1>2. g \in SUBSET Peers
    BY DEF MemberInv, MemberTypeOK
  <1>3. OneChange' /\ Cardinality(change)' <= 1
    BY AtMostOne DEF MemberInv, OneChange
  <1>5. MemberTypeOK'
    BY <1>1, <1>2, <1>3 DEF MemberInv, MemberTypeOK, Committed
  <1>6. FreshInv' /\ StatusInv' /\ OkMeansCommitted' /\ OutcomeOutlivesCall'
    BY <1>1, CommittedGrows
    DEF MemberInv, FreshInv, StatusInv, OkMeansCommitted, OutcomeOutlivesCall
  <1>7. QED
    BY <1>3, <1>5, <1>6 DEF MemberInv

\* GiveUpChange, when braft steps down or is shut down: every closure that is
\* held becomes due with an error.
LEMMA GiveUpInv ==
  ASSUME MemberInv, GiveUpChange, braft' \in {"unset", "up", "down"},
         UNCHANGED <<conf, elections, call, outcome, reached>>
  PROVE  MemberInv'
  <1> USE DEF GiveUpChange
  <1>1. OneChange' /\ Cardinality(change)' <= 1
    BY AtMostOne DEF OneChange
  <1>2. orphan' \subseteq Callers
    BY DEF MemberInv, MemberTypeOK
  <1>3. MemberTypeOK'
    BY <1>1, <1>2 DEF MemberInv, MemberTypeOK
  <1>4. FreshInv' /\ StatusInv' /\ OkMeansCommitted' /\ OutcomeOutlivesCall'
    BY DEF MemberInv, MemberTypeOK, FreshInv, StatusInv, OkMeansCommitted, OutcomeOutlivesCall
  <1>5. QED
    BY <1>1, <1>3, <1>4 DEF MemberInv

\* CatchUp: if it fails, the closure is due with an error.
LEMMA CatchUpInv ==
  ASSUME MemberInv, NEW x \in change, NEW ok \in BOOLEAN, CatchUp(x, ok)
  PROVE  MemberInv'
  <1> USE DEF CatchUp, Due
  <1>1. change = {x} /\ x \in [call: Callers, stage: {"catchup", "log"}]
    BY DEF MemberInv, OneChange, MemberTypeOK
  <1>2. OneChange' /\ Cardinality(change)' <= 1
    BY AtMostOne DEF OneChange
  <1>3. MemberTypeOK'
    <2>1. CASE ok
      BY <1>1, <1>2, <2>1 DEF MemberInv, MemberTypeOK
    <2>2. CASE ~ok
      BY <1>1, <1>2, <2>2 DEF MemberInv, MemberTypeOK
    <2>3. QED
      BY <2>1, <2>2
  <1>4. FreshInv' /\ StatusInv' /\ OkMeansCommitted' /\ OutcomeOutlivesCall'
    BY <1>1
    DEF MemberInv, MemberTypeOK, FreshInv, StatusInv, OkMeansCommitted, OutcomeOutlivesCall
  <1>5. QED
    BY <1>2, <1>3, <1>4 DEF MemberInv

\* CommitChange: the closure is due with OK and the goal of its call is reached.
LEMMA CommitChangeInv ==
  ASSUME MemberInv, NEW x \in change, CommitChange(x)
  PROVE  MemberInv'
  <1> USE DEF CommitChange, Due
  <1>1. change = {x} /\ x \in [call: Callers, stage: {"catchup", "log"}]
    BY DEF MemberInv, OneChange, MemberTypeOK
  <1>2. OneChange' /\ Cardinality(change)' <= 1
    BY AtMostOne DEF OneChange
  <1>3. Changed(x.call, conf) \in SUBSET Peers
    BY <1>1, ChangedType DEF MemberInv, MemberTypeOK
  <1>4. MemberTypeOK'
    BY <1>1, <1>2, <1>3 DEF MemberInv, MemberTypeOK, Committed
  <1>5. Running(x.call) => x.call \in reached'
    BY <1>1, ChangedTwice DEF Committed
  <1>6. reached \subseteq reached'
    BY CommittedGrows
  <1>7. FreshInv' /\ StatusInv' /\ OkMeansCommitted' /\ OutcomeOutlivesCall'
    BY <1>1, <1>5, <1>6
    DEF MemberInv, MemberTypeOK, FreshInv, StatusInv, OkMeansCommitted, OutcomeOutlivesCall,
        Running
  <1>8. QED
    BY <1>2, <1>4, <1>7 DEF MemberInv

\* ConfChangeClosure::Run leaves the status in the outcome of a call that waits.
LEMMA RunInv ==
  ASSUME MemberInv, NEW c \in Callers, Run(c)
  PROVE  MemberInv'
  <1> USE DEF Run, group
  <1>1. OneChange' /\ Cardinality(change)' <= 1
    BY AtMostOne DEF MemberInv, OneChange
  <1>2. MemberTypeOK'
    BY <1>1 DEF MemberInv, MemberTypeOK
  <1>3. FreshInv' /\ OkMeansCommitted'
    BY DEF MemberInv, MemberTypeOK, FreshInv, OkMeansCommitted
  <1>4. StatusInv'
    BY DEF MemberInv, MemberTypeOK, StatusInv, OutcomeOutlivesCall
  <1>5. OutcomeOutlivesCall'
    BY DEF MemberInv, MemberTypeOK, StatusInv, OutcomeOutlivesCall
  <1>6. QED
    BY <1>1, <1>2, <1>3, <1>4, <1>5 DEF MemberInv

\* ConfChange answers with an error or gets as far as handing the change over.
LEMMA ConfChangeInv ==
  ASSUME MemberInv, NEW c \in Callers, NEW op \in {"add", "remove"},
         NEW peer \in Peers \cup {Invalid}, ConfChange(c, op, peer)
  PROVE  MemberInv'
  <1> USE DEF ConfChange, group, NewCall
  <1>1. OneChange' /\ Cardinality(change)' <= 1
    BY AtMostOne DEF MemberInv, OneChange
  <1>2. Self \in Peers
    BY MembershipAssumption
  <1>3. MemberTypeOK'
    BY <1>1, <1>2 DEF MemberInv, MemberTypeOK
  <1>4. FreshInv' /\ StatusInv' /\ OkMeansCommitted' /\ OutcomeOutlivesCall'
    BY DEF MemberInv, MemberTypeOK, FreshInv, StatusInv, OkMeansCommitted, OutcomeOutlivesCall
  <1>5. QED
    BY <1>1, <1>3, <1>4 DEF MemberInv

\* Submit: refused, accepted as it stands, or under way.
LEMMA SubmitInv ==
  ASSUME MemberInv, NEW c \in Callers, Submit(c)
  PROVE  MemberInv'
  <1> USE DEF Submit, NewOutcome, Due
  <1>1. closure[c] = "none" /\ ~ \E x \in change : x.call = c
    BY DEF MemberInv, FreshInv, MemberTypeOK
  <1>2. OneChange' /\ Cardinality(change)' <= 1
    BY AtMostOne DEF MemberInv, OneChange
  <1>3. MemberTypeOK'
    <2>1. call' \in [Callers -> [pc: {"idle", "submit", "wait", "done"},
                                 op: {"add", "remove"}, peer: Peers,
                                 code: {"OK", "NOT_LEADER", "INTERNAL"}]]
      BY DEF MemberInv, MemberTypeOK
    <2>2. /\ closure' \in [Callers -> {"none", "held", "ok", "error"}]
          /\ \A d \in Callers \ {c} : closure'[d] = closure[d]
          /\ change' = change => closure'[c] # "held"
          /\ change' # change => closure'[c] = "held"
      BY DEF MemberInv, MemberTypeOK
    <2>3. change' = change \/ \E x \in [call: {c}, stage: {"catchup", "log"}] :
                                leads /\ change = {} /\ change' = {x}
      OBVIOUS
    <2>4. reached' \subseteq Callers
      BY DEF MemberInv, MemberTypeOK
    <2>5. \A d \in Callers : closure'[d] = "held" <=> \E x \in change' : x.call = d
      BY <1>1, <2>2, <2>3 DEF MemberInv, MemberTypeOK
    <2>6. change' \subseteq [call: Callers, stage: {"catchup", "log"}] /\ (change' # {} => leads)
      BY <2>3 DEF MemberInv, MemberTypeOK
    <2>7. QED
      BY <1>2, <2>1, <2>2, <2>4, <2>5, <2>6 DEF MemberInv, MemberTypeOK
  <1>4. /\ \A d \in Callers \ {c} : call'[d] = call[d] /\ closure'[d] = closure[d]
                                     /\ outcome'[d] = outcome[d]
        /\ call'[c].pc = "wait" /\ closure'[c] # "none"
        /\ closure'[c] = "ok" => c \in reached'
        /\ outcome'[c] = {NewOutcome}
        /\ reached \subseteq reached'
    <2>1. /\ DOMAIN call = Callers /\ DOMAIN closure = Callers /\ DOMAIN outcome = Callers
          /\ \A d \in Callers : call[d] \in [pc: {"idle", "submit", "wait", "done"},
                                             op: {"add", "remove"}, peer: Peers,
                                             code: {"OK", "NOT_LEADER", "INTERNAL"}]
      BY DEF MemberInv, MemberTypeOK, StatusInv
    <2>2. \A d \in Callers \ {c} : call'[d] = call[d] /\ closure'[d] = closure[d]
                                     /\ outcome'[d] = outcome[d]
      BY <2>1
    <2>3. call'[c].pc = "wait" /\ outcome'[c] = {NewOutcome}
      BY <2>1
    <2>4. /\ closure'[c] # "none" /\ (closure'[c] = "ok" => c \in reached')
          /\ reached \subseteq reached'
      BY <2>1
    <2> QED BY <2>2, <2>3, <2>4
  <1>5. FreshInv' /\ OkMeansCommitted' /\ OutcomeOutlivesCall'
    <2>1. FreshInv'
      BY <1>4 DEF MemberInv, FreshInv
    <2>2. OkMeansCommitted'
      BY <1>4 DEF MemberInv, OkMeansCommitted
    <2>3. ASSUME NEW d \in Callers
          PROVE  outcome'[d] # {} <=> closure'[d] # "none" \/ call'[d].pc = "wait"
      <3>1. CASE d = c
        BY <1>4, <3>1
      <3>2. CASE d # c
        BY <1>4, <3>2 DEF MemberInv, OutcomeOutlivesCall
      <3> QED BY <3>1, <3>2
    <2> QED BY <2>1, <2>2, <2>3 DEF OutcomeOutlivesCall
  <1>6. outcome' \in [Callers -> SUBSET [done: BOOLEAN, ok: BOOLEAN]]
    BY DEF MemberInv, StatusInv
  <1>7. StatusInv'
    BY <1>4, <1>6 DEF MemberInv, StatusInv
  <1>8. QED
    BY <1>2, <1>3, <1>5, <1>7 DEF MemberInv

\* The call returns OK only for an outcome that says so.
LEMMA WaitInv ==
  ASSUME MemberInv, NEW c \in Callers, WaitDone(c) \/ WaitTimeout(c)
  PROVE  MemberInv'
  <1>1. PICK o \in outcome[c], code \in {"OK", "INTERNAL"} :
          Returns(c, code) /\ (code = "OK" => o.done /\ o.ok)
    BY DEF WaitDone, WaitTimeout
  <1>2. call[c].pc = "wait"
    BY DEF WaitDone, WaitTimeout
  <1> USE <1>1, <1>2 DEF Returns, group
  <1>3. OneChange' /\ Cardinality(change)' <= 1
    BY AtMostOne DEF MemberInv, OneChange
  <1>4. MemberTypeOK'
    <2>1. call' \in [Callers -> [pc: {"idle", "submit", "wait", "done"}, op: {"add", "remove"},
                                peer: Peers, code: {"OK", "NOT_LEADER", "INTERNAL"}]]
      <3> DEFINE R == [pc: {"idle", "submit", "wait", "done"}, op: {"add", "remove"},
                       peer: Peers, code: {"OK", "NOT_LEADER", "INTERNAL"}]
                 r == [call[c] EXCEPT !.pc = "done", !.code = code]
      <3>1. call \in [Callers -> R] /\ call' = [call EXCEPT ![c] = r]
        BY DEF MemberInv, MemberTypeOK
      <3>2. r \in R
        BY <3>1
      <3> HIDE DEF R, r
      <3> QED BY <3>1, <3>2 DEF R
    <2> QED BY <1>3, <2>1 DEF MemberInv, MemberTypeOK
  <1>5. FreshInv' /\ StatusInv' /\ OkMeansCommitted' /\ OutcomeOutlivesCall'
    BY DEF MemberInv, MemberTypeOK, FreshInv, StatusInv, OkMeansCommitted, OutcomeOutlivesCall
  <1>6. QED
    BY <1>3, <1>4, <1>5 DEF MemberInv

\* Nothing but braft itself changes, and not while this member leads.
LEMMA BraftInv ==
  ASSUME MemberInv, braft' \in {"unset", "up", "down"}, leads => braft' = "up",
         UNCHANGED <<group, call, closure, outcome, reached>>
  PROVE  MemberInv'
  <1> USE DEF group
  <1>1. OneChange' /\ Cardinality(change)' <= 1
    BY AtMostOne DEF MemberInv, OneChange
  <1>2. MemberTypeOK'
    BY <1>1 DEF MemberInv, MemberTypeOK
  <1>3. FreshInv' /\ StatusInv' /\ OkMeansCommitted' /\ OutcomeOutlivesCall'
    BY DEF MemberInv, FreshInv, StatusInv, OkMeansCommitted, OutcomeOutlivesCall
  <1>4. QED
    BY <1>1, <1>2, <1>3 DEF MemberInv

-----------------------------------------------------------------------------

\* Every step of a call preserves the invariant.
LEMMA CallStepInv ==
  ASSUME MemberInv, NEW c \in Callers, CallStep(c)
  PROVE  MemberInv'
  BY SubmitInv, WaitInv DEF CallStep

\* Every step of braft preserves the invariant.
LEMMA GroupStepInv ==
  ASSUME MemberInv, GroupStep
  PROVE  MemberInv'
  <1>1. CASE StepDown
    BY <1>1, GiveUpInv DEF StepDown, MemberInv, MemberTypeOK
  <1>2. CASE ~StepDown
    BY <1>2, ElectedInv, OtherChangeInv, CommitChangeInv, CatchUpInv, RunInv DEF GroupStep
  <1>3. QED
    BY <1>1, <1>2

\* MemberNext preserves the invariant.
LEMMA MemberNextInv == MemberInv /\ [MemberNext]_memberVars => MemberInv'
  <1> SUFFICES ASSUME MemberInv, [MemberNext]_memberVars PROVE MemberInv'
    OBVIOUS
  <1>1. CASE StartBraft \/ UNCHANGED memberVars
    BY <1>1, BraftInv DEF StartBraft, memberVars, MemberInv, MemberTypeOK
  <1>2. CASE GroupStep
    BY <1>2, GroupStepInv
  <1>3. CASE \E c \in Callers : CallStep(c)
    BY <1>3, CallStepInv
  <1>4. CASE \E c \in Callers, op \in {"add", "remove"}, peer \in Peers \cup {Invalid} :
               ConfChange(c, op, peer)
    BY <1>4, ConfChangeInv
  <1>5. QED
    BY <1>1, <1>2, <1>3, <1>4 DEF MemberNext

\* The invariant of the membership calls.
LEMMA MemberInvariance == MemberSpec => []MemberInv
  BY MemberInitInv, MemberNextInv, PTL DEF MemberSpec

\* Types; and braft holds a closure for the change under way and for no other.
THEOREM MemberTypeCorrect == MemberSpec => []MemberTypeOK
  <1>1. MemberInv => MemberTypeOK
    BY DEF MemberInv
  <1>2. QED
    BY <1>1, MemberInvariance, PTL

\* AddPeer and RemovePeer: an OK is true, for every number of calls, peers and
\* elections.
THEOREM OkIsTrue == MemberSpec => []OkMeansCommitted
  <1>1. MemberInv => OkMeansCommitted
    BY DEF MemberInv
  <1>2. QED
    BY <1>1, MemberInvariance, PTL

\* ConfChangeOutcome: it is there when a closure runs, and gone when the call and
\* the closure are.
THEOREM OutcomeLifetime == MemberSpec => []OutcomeOutlivesCall
  <1>1. MemberInv => OutcomeOutlivesCall
    BY DEF MemberInv
  <1>2. QED
    BY <1>1, MemberInvariance, PTL
==============================================================================
