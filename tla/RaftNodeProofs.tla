--------------------------- MODULE RaftNodeProofs ---------------------------
(***************************************************************************)
(* Proofs about RaftNode, for any members, calls, commands, keys and terms *)
(* and any order of elections, leases and closures.                        *)
(***************************************************************************)
EXTENDS RaftNode, StoreProofs

-----------------------------------------------------------------------------
(* Types *)

WriteCalls ==
  [pc: {"idle", "term", "apply", "wait", "done"}, node: SUBSET Nodes, cmd: Commands,
   expected: Int, closure: {"none", "held", "due"}, failed: BOOLEAN, done: BOOLEAN,
   code: {"OK", "CAS_FAILED", "VERSION_NOT_FOUND", "INTERNAL", "NOT_LEADER"}]

ReadCalls ==
  [pc: {"idle", "lease", "refused", "catchup", "store", "done"}, node: SUBSET Nodes,
   key: SUBSET ReadKeys, serializable: BOOLEAN,
   code: {"OK", "KEY_NOT_FOUND", "INTERNAL", "NOT_LEADER"}, found: SUBSET KVs,
   at: Nat, floor: Nat]

\* The state of braft.
BraftType ==
  /\ term \in Nat /\ term <= TermBound
  /\ role \in [Nodes -> Nat] /\ \A n \in Nodes : role[n] <= term
  /\ log \in [Nodes -> Seq(Entries)]
  /\ chosen \in Seq(Entries)
  /\ commit \in [Nodes -> Nat] /\ \A n \in Nodes : commit[n] <= Len(chosen)
  /\ lease \in [Nodes -> {"EXPIRED", "NOT_READY", "VALID"}]

\* The state of the state machines.
FsmType ==
  /\ leader_term \in [Nodes -> Int]
  /\ \A n \in Nodes : leader_term[n] \in {-1} \cup 1..term
  /\ applied \in [Nodes -> Nat] /\ \A n \in Nodes : applied[n] <= commit[n]
  /\ DOMAIN store = Nodes /\ \A n \in Nodes : IsStore(store[n])

\* Before its task is handed over a call has no outcome.
Fresh(w) == ~w.done /\ ~w.failed /\ w.code = "OK"

\* The calls of Apply.
WriteType ==
  /\ write \in [Writers -> WriteCalls]
  /\ \A c \in Writers :
       /\ write[c].pc \in {"term", "apply", "wait"} => write[c].cmd \in Cmds
       /\ write[c].closure # "none" => write[c].pc = "wait" /\ ~write[c].done
       /\ write[c].pc \in {"idle", "term", "apply"} => Fresh(write[c])

\* The calls of Get, and what calls have shown.
ReadType ==
  /\ read \in [Readers -> ReadCalls]
  /\ answered \in Nat /\ answered <= Len(chosen)
  /\ \A c \in Readers : read[c].at <= Len(chosen) /\ read[c].floor <= answered

RaftType == BraftType /\ FsmType /\ WriteType /\ ReadType

-----------------------------------------------------------------------------
(* Sequences and positions *)

\* The greater of two naturals.
LEMMA MaxOfTwo ==
  ASSUME NEW a \in Nat, NEW b \in Nat
  PROVE  Max({a, b}) = IF a >= b THEN a ELSE b
<1>1. \E x \in {a, b} : \A y \in {a, b} : x >= y
  OBVIOUS
<1> QED BY <1>1 DEF Max

\* The position of a call in a log: its last occurrence, or 0.
LEMMA PositionIsLast ==
  ASSUME NEW l \in Seq(Entries), NEW c
  PROVE  /\ Position(l, c) \in 0..Len(l)
         /\ \A i \in Occurrences(l, c) : i <= Position(l, c)
         /\ Position(l, c) # 0 => Position(l, c) \in Occurrences(l, c)
<1> DEFINE S == {0} \cup Occurrences(l, c)
<1>1. DOMAIN l = 1..Len(l) /\ Len(l) \in Nat
  OBVIOUS
<1>2. S \in SUBSET Nat /\ S # {} /\ \A x \in S : x <= Len(l)
  BY <1>1 DEF Occurrences
<1>3. \A i \in Occurrences(l, c) : i \in 1..Len(l)
  BY <1>1 DEF Occurrences
<1>4. Position(l, c) = Max(S)
  BY DEF Position
<1> HIDE DEF S
<1>5. \E m \in S : \A x \in S : x <= m
  BY <1>1, <1>2, MaxExists
<1>6. \E m \in S : \A x \in S : m >= x
  BY <1>2, <1>5
<1>7. Max(S) \in S /\ \A x \in S : Max(S) >= x
  BY <1>6 DEF Max
<1>8. Position(l, c) \in S /\ Position(l, c) \in Nat /\ Position(l, c) <= Len(l)
  BY <1>2, <1>4, <1>7
<1>9. \A i \in Occurrences(l, c) : i <= Position(l, c)
  <2>1. \A i \in Occurrences(l, c) : i \in S
    BY DEF S
  <2> QED BY <2>1, <1>2, <1>4, <1>7
<1>10. Position(l, c) # 0 => Position(l, c) \in Occurrences(l, c)
  BY <1>8 DEF S
<1> QED BY <1>1, <1>8, <1>9, <1>10

\* The first entries of a log.
LEMMA SubSeqOfLog ==
  ASSUME NEW l \in Seq(Entries), NEW i \in 0..Len(l)
  PROVE  /\ SubSeq(l, 1, i) \in Seq(Entries)
         /\ Len(SubSeq(l, 1, i)) = i
         /\ \A j \in 1..i : SubSeq(l, 1, i)[j] = l[j]
  OBVIOUS

\* A longer log.
LEMMA AppendToLog ==
  ASSUME NEW l \in Seq(Entries), NEW e \in Entries
  PROVE  /\ Append(l, e) \in Seq(Entries)
         /\ Len(Append(l, e)) = Len(l) + 1
         /\ \A j \in 1..Len(l) : Append(l, e)[j] = l[j]
         /\ Append(l, e)[Len(l) + 1] = e
  OBVIOUS

\* What IsPrefix says of two logs.
LEMMA PrefixOfLog ==
  ASSUME NEW p \in Seq(Entries), NEW l \in Seq(Entries), IsPrefix(p, l)
  PROVE  Len(p) <= Len(l) /\ \A i \in 1..Len(p) : p[i] = l[i]
<1>1. Len(p) <= Len(l) /\ SubSeq(p, 1, Len(p)) = SubSeq(l, 1, Len(p))
  BY DEF IsPrefix
<1>2. Len(p) \in 0..Len(p) /\ Len(p) \in 0..Len(l)
  BY <1>1
<1>3. /\ \A i \in 1..Len(p) : SubSeq(p, 1, Len(p))[i] = p[i]
      /\ \A i \in 1..Len(p) : SubSeq(l, 1, Len(p))[i] = l[i]
  BY <1>2, SubSeqOfLog
<1> QED BY <1>1, <1>3

\* A log that a new leader may have begins with all that is chosen, and is that
\* or the beginning of a log that someone has.
LEMMA ElectableLog ==
  ASSUME BraftType, NEW l \in ElectableLogs
  PROVE  /\ l \in Seq(Entries)
         /\ Len(chosen) <= Len(l) /\ \A i \in 1..Len(chosen) : l[i] = chosen[i]
         /\ \/ l = chosen
            \/ \E m \in Nodes : /\ Len(l) <= Len(log[m])
                               /\ \A i \in 1..Len(l) : l[i] = log[m][i]
<1>1. CASE l = chosen
  BY <1>1 DEF BraftType
<1>2. CASE l # chosen
  <2>1. PICK m \in Nodes : /\ IsPrefix(chosen, log[m])
                           /\ l \in {SubSeq(log[m], 1, i) : i \in Len(chosen)..Len(log[m])}
    BY <1>2 DEF ElectableLogs
  <2>2. PICK i \in Len(chosen)..Len(log[m]) : l = SubSeq(log[m], 1, i)
    BY <2>1
  <2>3. log[m] \in Seq(Entries) /\ chosen \in Seq(Entries) /\ i \in 0..Len(log[m])
    BY <2>2 DEF BraftType
  <2>4. l \in Seq(Entries) /\ Len(l) = i /\ \A j \in 1..i : l[j] = log[m][j]
    BY <2>2, <2>3, SubSeqOfLog
  <2>5. \A j \in 1..Len(chosen) : chosen[j] = log[m][j]
    BY <2>1, <2>3, PrefixOfLog
  <2>6. Len(chosen) <= Len(l) /\ Len(l) <= Len(log[m]) /\ Len(chosen) \in Nat
    BY <2>2, <2>3, <2>4
  <2>7. \A j \in 1..Len(chosen) : j \in 1..i
    BY <2>2, <2>3
  <2> QED BY <2>4, <2>5, <2>6, <2>7
<1> QED BY <1>1, <1>2

-----------------------------------------------------------------------------
(* Every state is well typed. *)

\* A call of Apply that has not begun is well typed.
LEMMA NewWriteType ==
  /\ NewWrite \in WriteCalls /\ NewWrite.pc = "idle" /\ NewWrite.closure = "none"
  /\ Fresh(NewWrite)
BY DEF NewWrite, WriteCalls, Commands, Fresh

\* Init is well typed.
LEMMA InitType == Init => RaftType
<1> SUFFICES ASSUME Init PROVE RaftType
  OBVIOUS
<1>1. BraftType
  BY RaftAssumption DEF Init, BraftType
<1>2. FsmType
  BY EmptyImage DEF Init, FsmType, Image
<1>3. WriteType
  BY DEF Init, WriteType, NewWrite, WriteCalls, Commands, Fresh
<1>4. ReadType
  BY DEF Init, ReadType, NewRead, ReadCalls
<1> QED BY <1>1, <1>2, <1>3, <1>4 DEF RaftType

\* Elect: a new leader in a new term.
LEMMA ElectType ==
  ASSUME RaftType, NEW n \in Nodes, Elect(n)
  PROVE  RaftType'
<1> USE DEF RaftType
<1>1. PICK l \in ElectableLogs :
        log' = [log EXCEPT ![n] = Append(l, [term |-> term', call |-> NoOp])]
  BY DEF Elect
<1>2. l \in Seq(Entries)
  BY ElectableLog
<1>3. term \in Nat /\ term' = term + 1 /\ term' <= TermBound
  BY RaftAssumption DEF Elect, BraftType
<1>4. [term |-> term', call |-> NoOp] \in Entries
  BY <1>3 DEF Entries
<1>5. Append(l, [term |-> term', call |-> NoOp]) \in Seq(Entries)
  BY <1>2, <1>4
<1>6. BraftType'
  <2>1. log' \in [Nodes -> Seq(Entries)]
    BY <1>1, <1>5 DEF BraftType
  <2>2. role' \in [Nodes -> Nat] /\ \A m \in Nodes : role'[m] <= term'
    BY <1>3 DEF BraftType, Elect
  <2>3. lease' \in [Nodes -> {"EXPIRED", "NOT_READY", "VALID"}]
    BY DEF BraftType, Elect
  <2>4. chosen' = chosen /\ commit' = commit
    BY DEF Elect
  <2> QED BY <1>3, <2>1, <2>2, <2>3, <2>4 DEF BraftType
<1>7. FsmType'
  BY <1>3 DEF FsmType, Elect, fsm
<1>8. WriteType' /\ ReadType'
  BY DEF WriteType, ReadType, Elect
<1> QED BY <1>6, <1>7, <1>8

\* Choose: what is chosen grows.
LEMMA ChooseType ==
  ASSUME RaftType, NEW n \in Nodes, Choose(n)
  PROVE  RaftType'
<1> USE DEF RaftType
<1>1. PICK i \in (Len(chosen) + 1)..Len(log[n]) : chosen' = SubSeq(log[n], 1, i)
  BY DEF Choose
<1>2. log[n] \in Seq(Entries) /\ Len(chosen) \in Nat /\ i \in 0..Len(log[n])
  BY <1>1 DEF BraftType
<1>3. chosen' \in Seq(Entries) /\ Len(chosen') = i /\ Len(chosen) < i
  BY <1>1, <1>2, SubSeqOfLog
<1>4. BraftType'
  BY <1>2, <1>3 DEF BraftType, Choose
<1>5. FsmType' /\ WriteType'
  BY DEF FsmType, WriteType, Choose, fsm
<1>6. ReadType'
  BY <1>2, <1>3 DEF ReadType, ReadCalls, Choose
<1> QED BY <1>4, <1>5, <1>6

\* Commit and Follow: only committed_index of a node grows.
LEMMA CommitType ==
  ASSUME RaftType, NEW n \in Nodes, NEW i \in Nat, commit[n] < i, i <= Len(chosen),
         commit' = [commit EXCEPT ![n] = i],
         UNCHANGED <<term, role, log, chosen, lease, fsm, write, read, answered>>
  PROVE  RaftType'
<1> USE DEF RaftType
<1>1. BraftType'
  BY DEF BraftType
<1>2. FsmType'
  BY DEF FsmType, BraftType, fsm
<1>3. WriteType' /\ ReadType'
  BY DEF WriteType, ReadType
<1> QED BY <1>1, <1>2, <1>3

\* LeaseRenew, LeaseExpire and on_leader_start change no more than this.
LEMMA LeaseType ==
  ASSUME RaftType, NEW n \in Nodes, NEW v \in {"EXPIRED", "VALID"},
         lease' = [lease EXCEPT ![n] = v],
         \/ leader_term' = leader_term
         \/ Leads(n) /\ leader_term' = [leader_term EXCEPT ![n] = role[n]],
         UNCHANGED <<term, role, log, chosen, commit, applied, store, write, read, answered>>
  PROVE  RaftType'
<1> USE DEF RaftType
<1>1. BraftType'
  BY DEF BraftType
<1>2. CASE leader_term' = leader_term
  <2>1. FsmType'
    BY <1>2 DEF FsmType
  <2> QED BY <2>1, <1>1 DEF WriteType, ReadType
<1>3. CASE Leads(n) /\ leader_term' = [leader_term EXCEPT ![n] = role[n]]
  <2>1. role[n] \in 1..term
    BY <1>3 DEF BraftType, Leads
  <2>2. FsmType'
    BY <2>1, <1>3 DEF FsmType
  <2> QED BY <2>2, <1>1 DEF WriteType, ReadType
<1> QED BY <1>2, <1>3

\* StepDown: closures become due, nothing else of a call changes.
LEMMA StepDownType ==
  ASSUME RaftType, NEW n \in Nodes, StepDown(n)
  PROVE  RaftType'
<1> USE DEF RaftType
<1>1. PICK i \in applied[n]..commit[n] :
        write' = [c \in Writers |->
                   IF /\ write[c].closure = "held" /\ write[c].node = {n}
                      /\ Position(log[n], c) > i
                   THEN [write[c] EXCEPT !.closure = "due", !.failed = TRUE]
                   ELSE write[c]]
  BY DEF StepDown
<1>2. /\ role' = [role EXCEPT ![n] = 0]
      /\ lease' = [lease EXCEPT ![n] = "EXPIRED"]
      /\ UNCHANGED <<term, log, chosen, commit, fsm, read, answered>>
  BY DEF StepDown
<1>3. BraftType'
  BY <1>2 DEF BraftType
<1>4. FsmType' /\ ReadType'
  BY <1>2 DEF FsmType, ReadType, fsm
<1>5. WriteType'
  <2>1. ASSUME NEW c \in Writers
        PROVE  /\ write'[c] \in WriteCalls
               /\ write'[c].pc = write[c].pc /\ write'[c].cmd = write[c].cmd
               /\ write'[c].done = write[c].done
               /\ write'[c].closure # "none" => write[c].closure # "none"
               /\ write'[c] = write[c] \/ write[c].pc = "wait"
    <3>1. CASE write'[c] = write[c]
      BY <3>1 DEF WriteType
    <3>2. CASE write'[c] # write[c]
      <4>1. /\ write[c].closure = "held"
            /\ write'[c] = [write[c] EXCEPT !.closure = "due", !.failed = TRUE]
        BY <1>1, <3>2
      <4> QED BY <4>1 DEF WriteType, WriteCalls
    <3> QED BY <3>1, <3>2
  <2>2. write' = [c \in Writers |-> write'[c]]
    BY <1>1
  <2> QED BY <2>1, <2>2 DEF WriteType, Fresh
<1> QED BY <1>3, <1>4, <1>5

\* A call of Apply goes on, and nothing else changes but perhaps a log.
LEMMA OneWriteType ==
  ASSUME RaftType, NEW c \in Writers, NEW w \in WriteCalls,
         w.pc \in {"term", "apply", "wait"} => w.cmd \in Cmds,
         w.closure # "none" => w.pc = "wait" /\ ~w.done,
         w.pc \in {"idle", "term", "apply"} => Fresh(w),
         write' = [write EXCEPT ![c] = w]
  PROVE  WriteType'
BY DEF RaftType, WriteType

\* on_leader_stop and on_apply.
LEMMA on_leader_stopType ==
  ASSUME RaftType, NEW n \in Nodes, on_leader_stop(n)
  PROVE  RaftType'
<1> USE DEF RaftType
<1>1. BraftType' /\ WriteType' /\ ReadType'
  BY DEF BraftType, WriteType, ReadType, on_leader_stop, braft
<1>2. FsmType'
  BY DEF FsmType, on_leader_stop, braft
<1> QED BY <1>1, <1>2

\* on_apply: the store of the node executes the next chosen entry.
LEMMA on_applyType ==
  ASSUME RaftType, NEW n \in Nodes, NEW ok, on_apply(n, ok)
  PROVE  RaftType'
<1> USE DEF RaftType
<1> DEFINE i   == applied[n] + 1
           c   == chosen[i].call
           res == ApplyCmdToStore(store[n], write[c].cmd, ok)
<1>1. /\ applied[n] < commit[n]
      /\ applied' = [applied EXCEPT ![n] = @ + 1]
      /\ UNCHANGED <<braft, leader_term, read, answered>>
  BY DEF on_apply
<1>2. i \in 1..Len(chosen)
  BY <1>1 DEF BraftType, FsmType
<1>3. c \in Writers \cup {NoOp}
  <2>1. chosen \in Seq(Entries)
    BY DEF BraftType
  <2>2. chosen[i] \in Entries
    BY <1>2, <2>1
  <2> QED BY <2>2 DEF Entries
<1>4. BraftType' /\ ReadType'
  BY <1>1 DEF BraftType, ReadType, braft
<1>5. applied' \in [Nodes -> Nat] /\ \A m \in Nodes : applied'[m] <= commit[m]
  BY <1>1 DEF FsmType, BraftType
<1>6. CASE c = NoOp
  <2>1. UNCHANGED <<store, write>>
    BY <1>6 DEF on_apply
  <2> QED BY <2>1, <1>1, <1>4, <1>5 DEF FsmType, WriteType, braft
<1>7. CASE c # NoOp
  <2>1. /\ store' = [store EXCEPT ![n] = res.store]
        /\ write' = IF write[c].closure = "held" /\ write[c].node = {n}
                    THEN Finished(c, res.code) ELSE write
    BY <1>7 DEF on_apply
  <2>2. c \in Writers /\ write[c] \in WriteCalls /\ write[c].cmd \in Commands
    BY <1>3, <1>7 DEF WriteType, WriteCalls
  <2>3. IsStore(store[n])
    BY DEF FsmType
  <2>4. /\ IsStore(res.store)
        /\ res.code \in {"OK", "CAS_FAILED", "VERSION_NOT_FOUND", "INTERNAL"}
    BY <2>2, <2>3, ApplyIsStore
  <2> HIDE DEF res, c, i
  <2>5. FsmType'
    BY <2>1, <2>4, <1>1, <1>5 DEF FsmType, braft
  <2>6. WriteType'
    <3> DEFINE w == [write[c] EXCEPT !.closure = "due", !.failed = res.code # "OK",
                                     !.code = res.code]
    <3>1. CASE write[c].closure = "held" /\ write[c].node = {n}
      <4>1. write' = [write EXCEPT ![c] = w]
        BY <2>1, <2>2, <3>1 DEF Finished, WriteType
      <4>2. w \in WriteCalls /\ w.pc = "wait" /\ w.cmd \in Cmds /\ ~w.done
        BY <2>2, <2>4, <3>1 DEF WriteType, WriteCalls
      <4> HIDE DEF w
      <4> QED BY <4>1, <4>2, <2>2, OneWriteType
    <3>2. CASE ~(write[c].closure = "held" /\ write[c].node = {n})
      BY <2>1, <3>2 DEF WriteType
    <3> QED BY <3>1, <3>2
  <2> QED BY <2>5, <2>6, <1>4
<1> QED BY <1>6, <1>7

\* Run: ApplyClosure::Run tells the waiting call.
LEMMA RunType ==
  ASSUME RaftType, NEW c \in Writers, Run(c)
  PROVE  RaftType'
<1> USE DEF RaftType
<1> DEFINE w == [write[c] EXCEPT !.closure = "none", !.done = TRUE,
                   !.code = IF write[c].failed /\ @ = "OK" THEN "INTERNAL" ELSE @]
<1>1. UNCHANGED <<braft, fsm, read, answered>>
  BY DEF Run
<1>2. BraftType' /\ FsmType' /\ ReadType'
  BY <1>1 DEF BraftType, FsmType, ReadType, braft, fsm
<1>3. write[c] \in WriteCalls /\ write \in [Writers -> WriteCalls]
  BY DEF WriteType
<1>4. write' = [write EXCEPT ![c] = w]
  BY <1>3 DEF Run
<1>5. w \in WriteCalls /\ w.pc = write[c].pc /\ w.cmd = write[c].cmd /\ w.closure = "none"
  BY <1>3 DEF WriteCalls
<1>6. write[c].pc = "wait"
  BY DEF Run, WriteType
<1> HIDE DEF w
<1>7. WriteType'
  BY <1>4, <1>5, <1>6, OneWriteType DEF WriteType
<1> QED BY <1>7, <1>2

\* ApplyNotLeader, ApplyBegin and ReadLeaderTerm change one call of Apply only.
LEMMA WriteOnlyType ==
  ASSUME RaftType, NEW c \in Writers, NEW n \in Nodes, NEW cmd \in Cmds,
         ApplyNotLeader(c, n) \/ ApplyBegin(c, n, cmd) \/ ReadLeaderTerm(c, n)
  PROVE  RaftType'
<1> USE DEF RaftType
<1>1. UNCHANGED <<braft, fsm, read, answered>>
  BY DEF ApplyNotLeader, ApplyBegin, ReadLeaderTerm
<1>2. BraftType' /\ FsmType' /\ ReadType'
  BY <1>1 DEF BraftType, FsmType, ReadType, braft, fsm
<1>3. write[c] \in WriteCalls /\ write \in [Writers -> WriteCalls]
  BY DEF WriteType
<1>4. CASE ApplyNotLeader(c, n)
  <2> DEFINE w == [write[c] EXCEPT !.pc = "done", !.code = "NOT_LEADER"]
  <2>1. write' = [write EXCEPT ![c] = w] /\ write[c].pc = "idle"
    BY <1>3, <1>4 DEF ApplyNotLeader
  <2>2. w \in WriteCalls /\ w.pc = "done" /\ w.closure = write[c].closure
    BY <1>3 DEF WriteCalls
  <2>3. write[c].closure = "none"
    BY <2>1 DEF WriteType, WriteCalls
  <2> HIDE DEF w
  <2>4. WriteType'
    BY <2>1, <2>2, <2>3, OneWriteType
  <2> QED BY <2>4, <1>2
<1>5. CASE ApplyBegin(c, n, cmd)
  <2> DEFINE w == [write[c] EXCEPT !.pc = "term", !.node = {n}, !.cmd = cmd]
  <2>1. write' = [write EXCEPT ![c] = w] /\ write[c].pc = "idle"
    BY <1>3, <1>5 DEF ApplyBegin
  <2>2. w \in WriteCalls /\ w.pc = "term" /\ w.closure = write[c].closure /\ w.cmd = cmd
        /\ w.done = write[c].done /\ w.failed = write[c].failed /\ w.code = write[c].code
    BY <1>3, RaftAssumption DEF WriteCalls
  <2>3. write[c].closure = "none" /\ Fresh(w)
    BY <2>1, <2>2 DEF WriteType, WriteCalls, Fresh
  <2> HIDE DEF w
  <2>4. WriteType'
    BY <2>1, <2>2, <2>3, OneWriteType
  <2> QED BY <2>4, <1>2
<1>6. CASE ReadLeaderTerm(c, n)
  <2> DEFINE w == [write[c] EXCEPT !.pc = "apply", !.expected = leader_term[n]]
  <2>1. write' = [write EXCEPT ![c] = w] /\ write[c].pc = "term"
    BY <1>3, <1>6 DEF ReadLeaderTerm
  <2>2. w \in WriteCalls /\ w.pc = "apply" /\ w.closure = write[c].closure
        /\ w.cmd = write[c].cmd
        /\ w.done = write[c].done /\ w.failed = write[c].failed /\ w.code = write[c].code
    BY <1>3 DEF WriteCalls, FsmType
  <2>3. write[c].closure = "none" /\ write[c].cmd \in Cmds /\ Fresh(w)
    BY <2>1, <2>2 DEF WriteType, WriteCalls, Fresh
  <2> HIDE DEF w
  <2>4. WriteType'
    BY <2>1, <2>2, <2>3, OneWriteType
  <2> QED BY <2>4, <1>2
<1> QED BY <1>4, <1>5, <1>6

\* The record of a call that waits.
LEMMA WaitingType ==
  ASSUME NEW w \in WriteCalls, NEW x \in Int, NEW f \in BOOLEAN,
         NEW closure \in {"held", "due"}
  PROVE  LET h == [w EXCEPT !.pc = "wait", !.expected = x, !.failed = f,
                            !.closure = closure]
         IN  /\ h \in WriteCalls /\ h.pc = "wait" /\ h.cmd = w.cmd
             /\ h.done = w.done /\ h.code = w.code
BY DEF WriteCalls

\* ApplyTask: the entry goes into the log of the leader, or the closure is due.
LEMMA ApplyTaskType ==
  ASSUME RaftType, NEW c \in Writers, NEW n \in Nodes, ApplyTask(c, n)
  PROVE  RaftType'
<1> USE DEF RaftType
<1>0. PICK none \in Int : none = -1
  OBVIOUS
<1> DEFINE accepted == Leads(n) /\ write[c].expected \in {-1, role[n]}
           e == [term |-> role[n], call |-> c]
           held == [write[c] EXCEPT !.pc = "wait", !.expected = none, !.failed = FALSE,
                                    !.closure = "held"]
           refused == [write[c] EXCEPT !.pc = "wait", !.expected = none, !.failed = TRUE,
                                       !.closure = "due"]
<1>1. /\ write[c].pc = "apply" /\ write[c].node = {n}
      /\ log' = IF accepted THEN [log EXCEPT ![n] = Append(@, e)] ELSE log
      /\ UNCHANGED <<term, role, chosen, commit, lease, fsm, read, answered>>
  BY DEF ApplyTask
<1>2. write[c] \in WriteCalls /\ write \in [Writers -> WriteCalls]
  BY DEF WriteType
<1>3. /\ accepted => write' = [write EXCEPT ![c] = held]
      /\ ~accepted => write' = [write EXCEPT ![c] = refused]
  BY <1>0, <1>2 DEF ApplyTask
<1>4. log' \in [Nodes -> Seq(Entries)]
  <2>1. CASE accepted
    <3>1. e \in Entries
      BY <2>1 DEF Leads, Entries, BraftType
    <3>2. log[n] \in Seq(Entries)
      BY DEF BraftType
    <3>3. Append(log[n], e) \in Seq(Entries)
      BY <3>1, <3>2
    <3> QED BY <2>1, <3>3, <1>1 DEF BraftType
  <2>2. CASE ~accepted
    BY <2>2, <1>1 DEF BraftType
  <2> QED BY <2>1, <2>2
<1>5. BraftType'
  BY <1>1, <1>4 DEF BraftType
<1>6. FsmType' /\ ReadType'
  BY <1>1 DEF FsmType, ReadType, fsm
<1>7. ~write[c].done /\ write[c].cmd \in Cmds
  BY <1>1 DEF WriteType, Fresh
<1>8. /\ held \in WriteCalls /\ held.pc = "wait" /\ held.cmd = write[c].cmd
      /\ held.done = write[c].done
  BY <1>2, WaitingType
<1>9. /\ refused \in WriteCalls /\ refused.pc = "wait" /\ refused.cmd = write[c].cmd
      /\ refused.done = write[c].done
  BY <1>2, WaitingType
<1> HIDE DEF accepted, held, refused
<1>10. WriteType'
  BY <1>3, <1>7, <1>8, <1>9, OneWriteType
<1> QED BY <1>5, <1>6, <1>10

\* ApplyReturn: the call is done and its position in the log has been shown.
LEMMA ApplyReturnType ==
  ASSUME RaftType, NEW c \in Writers, ApplyReturn(c)
  PROVE  RaftType'
<1> USE DEF RaftType
<1> DEFINE w == [NewWrite EXCEPT !.pc = "done", !.cmd = write[c].cmd, !.code = write[c].code]
<1>1. /\ write' = [write EXCEPT ![c] = w]
      /\ answered' = IF write[c].code = "INTERNAL" THEN answered
                     ELSE Max({answered, Position(chosen, c)})
      /\ UNCHANGED <<braft, fsm, read>>
  BY DEF ApplyReturn
<1>2. write[c] \in WriteCalls
  BY DEF WriteType
<1>3. w \in WriteCalls /\ w.pc = "done" /\ w.closure = "none"
  BY <1>2, NewWriteType DEF WriteCalls
<1>4. Position(chosen, c) \in 0..Len(chosen) /\ Len(chosen) \in Nat
  BY PositionIsLast DEF BraftType
<1>5. answered' \in Nat /\ answered <= answered' /\ answered' <= Len(chosen)
  <2>1. answered \in Nat /\ answered <= Len(chosen)
    BY DEF ReadType
  <2>2. answered' = answered \/ answered' = Max({answered, Position(chosen, c)})
    BY <1>1
  <2> QED BY <2>1, <2>2, <1>4, MaxOfTwo
<1> HIDE DEF w
<1>6. WriteType'
  BY <1>1, <1>3, OneWriteType
<1>7. BraftType' /\ FsmType'
  BY <1>1 DEF BraftType, FsmType, braft, fsm
<1>8. ReadType'
  <2>1. \A d \in Readers : read[d].floor \in Nat /\ answered \in Nat
    BY DEF ReadType, ReadCalls
  <2>2. \A d \in Readers : read[d].floor <= answered'
    BY <2>1, <1>5 DEF ReadType
  <2> QED BY <2>2, <1>1, <1>5 DEF ReadType, braft
<1> QED BY <1>6, <1>7, <1>8

\* A call of Get goes on; what has been shown may grow.
LEMMA OneReadType ==
  ASSUME RaftType, NEW c \in Readers, NEW r \in ReadCalls, r.at <= Len(chosen),
         r.floor <= answered, read' = [read EXCEPT ![c] = r],
         answered' \in Nat, answered <= answered', answered' <= Len(chosen),
         UNCHANGED <<braft, fsm, write>>
  PROVE  RaftType'
<1> USE DEF RaftType
<1>1. BraftType' /\ FsmType' /\ WriteType'
  BY DEF BraftType, FsmType, WriteType, braft, fsm
<1>2. ReadType'
  <2>1. read' \in [Readers -> ReadCalls]
    BY DEF ReadType
  <2>2. ASSUME NEW d \in Readers
        PROVE  read'[d].at <= Len(chosen) /\ read'[d].floor <= answered'
    <3>1. read'[d] = r \/ read'[d] = read[d]
      BY DEF ReadType
    <3>2. r.floor \in Nat /\ read[d].floor \in Nat /\ answered \in Nat
      BY DEF ReadType, ReadCalls
    <3> QED BY <3>1, <3>2 DEF ReadType
  <2>3. chosen' = chosen
    BY DEF braft
  <2> QED BY <2>1, <2>2, <2>3 DEF ReadType
<1> QED BY <1>1, <1>2

\* A call of Get goes on and nothing else changes.
LEMMA OneReadOnlyType ==
  ASSUME RaftType, NEW c \in Readers, NEW r \in ReadCalls, r.at <= Len(chosen),
         r.floor <= answered, read' = [read EXCEPT ![c] = r],
         UNCHANGED <<braft, fsm, write, answered>>
  PROVE  RaftType'
<1>1. answered' \in Nat /\ answered <= answered' /\ answered' <= Len(chosen)
  BY DEF RaftType, ReadType
<1> QED BY <1>1, OneReadType

\* A call of Get that has not begun is well typed.
LEMMA NewReadType ==
  /\ NewRead \in ReadCalls /\ NewRead.at = 0 /\ NewRead.floor = 0
  /\ ~NewRead.serializable
BY DEF NewRead, ReadCalls

\* Goto and GetFails: the steps of a call of Get between its begin and its read.
LEMMA GotoType ==
  ASSUME RaftType, NEW c \in Readers, NEW pc \in {"refused", "catchup", "store"},
         Goto(c, pc)
  PROVE  RaftType'
<1> DEFINE r == [read[c] EXCEPT !.pc = pc]
<1>1. read[c] \in ReadCalls /\ read[c].at <= Len(chosen) /\ read[c].floor <= answered
      /\ read \in [Readers -> ReadCalls] /\ answered \in Nat /\ answered <= Len(chosen)
  BY DEF RaftType, ReadType
<1>2. read' = [read EXCEPT ![c] = r] /\ UNCHANGED <<braft, fsm, write, answered>>
  BY <1>1 DEF Goto
<1>3. r \in ReadCalls /\ r.at = read[c].at /\ r.floor = read[c].floor
  BY <1>1 DEF ReadCalls
<1> HIDE DEF r
<1> QED BY <1>1, <1>2, <1>3, OneReadOnlyType

\* A call of Get that is refused keeps nothing but its code.
LEMMA GetFailsType ==
  ASSUME RaftType, NEW c \in Readers, NEW code \in {"INTERNAL", "NOT_LEADER"},
         GetFails(c, code)
  PROVE  RaftType'
<1> DEFINE r == [NewRead EXCEPT !.pc = "done", !.code = code]
<1>1. answered \in Nat /\ answered <= Len(chosen) /\ Len(chosen) \in Nat
  BY DEF RaftType, ReadType, BraftType
<1>2. read' = [read EXCEPT ![c] = r] /\ UNCHANGED <<braft, fsm, write, answered>>
  BY DEF GetFails
<1>3. r \in ReadCalls /\ r.at = 0 /\ r.floor = 0
  BY NewReadType DEF ReadCalls
<1> HIDE DEF r
<1>4. r.at <= Len(chosen) /\ r.floor <= answered
  BY <1>1, <1>3
<1> QED BY <1>2, <1>3, <1>4, OneReadOnlyType

\* The steps of ReaderStep other than ReadStore.
LEMMA ReaderStepType ==
  ASSUME RaftType, NEW c \in Readers, NEW n \in Nodes,
         \/ WaitLeaderLease(c, n) \/ GetRefused(c, n)
         \/ WaitAppliedCatchUp(c, n) \/ CatchUpTimeout(c, n)
  PROVE  RaftType'
<1>1. CASE WaitLeaderLease(c, n)
  BY <1>1, GotoType DEF WaitLeaderLease
<1>2. CASE GetRefused(c, n)
  BY <1>2, GetFailsType DEF GetRefused
<1>3. CASE WaitAppliedCatchUp(c, n)
  BY <1>3, GotoType DEF WaitAppliedCatchUp
<1>4. CASE CatchUpTimeout(c, n)
  BY <1>4, GetFailsType DEF CatchUpTimeout
<1> QED BY <1>1, <1>2, <1>3, <1>4

\* GetBegin.
LEMMA GetBeginType ==
  ASSUME RaftType, NEW c \in Readers, NEW n \in Nodes, NEW key \in ReadKeys,
         NEW serializable \in BOOLEAN, GetBegin(c, n, key, serializable)
  PROVE  RaftType'
<1> DEFINE r == [NewRead EXCEPT !.pc = IF serializable THEN "store" ELSE "lease",
                                !.node = {n}, !.key = {key}, !.floor = answered,
                                !.serializable = serializable]
<1>1. answered \in Nat /\ answered <= Len(chosen) /\ Len(chosen) \in Nat
  BY DEF RaftType, ReadType, BraftType
<1>2. read' = [read EXCEPT ![c] = r] /\ UNCHANGED <<braft, fsm, write, answered>>
  BY DEF GetBegin
<1>3. r \in ReadCalls
  BY <1>1, NewReadType DEF ReadCalls
<1>4. r.at = 0 /\ r.floor = answered
  BY NewReadType DEF ReadCalls
<1> HIDE DEF r
<1>5. r.at <= Len(chosen) /\ r.floor <= answered
  BY <1>1, <1>4
<1> QED BY <1>2, <1>3, <1>5, OneReadOnlyType

\* GetLocked answers with a code and records.
LEMMA GetLockedType ==
  ASSUME NEW s, IsStore(s), NEW key
  PROVE  /\ GetLocked(s, key).code \in {"OK", "KEY_NOT_FOUND"}
         /\ GetLocked(s, key).found \subseteq KVs
BY DEF GetLocked, Absent, Existed, IsStore

\* ReadStore.
LEMMA ReadStoreType ==
  ASSUME RaftType, NEW c \in Readers, NEW n \in Nodes, NEW key \in ReadKeys,
         ReadStore(c, n, key)
  PROVE  RaftType'
<1> DEFINE got == GetLocked(store[n], key)
           r == [read[c] EXCEPT !.pc = "done", !.node = {}, !.code = got.code,
                                !.found = got.found, !.at = applied[n]]
<1>1. answered \in Nat /\ answered <= Len(chosen) /\ Len(chosen) \in Nat
      /\ read \in [Readers -> ReadCalls] /\ read[c] \in ReadCalls
      /\ read[c].floor <= answered
  BY DEF RaftType, ReadType, BraftType
<1>2. applied[n] \in Nat /\ applied[n] <= Len(chosen)
  BY DEF RaftType, FsmType, BraftType
<1>3. /\ read' = [read EXCEPT ![c] = r]
      /\ answered' = Max({answered, applied[n]})
      /\ UNCHANGED <<braft, fsm, write>>
  BY <1>1 DEF ReadStore
<1>4. got.code \in {"OK", "KEY_NOT_FOUND"} /\ got.found \subseteq KVs
  BY GetLockedType DEF RaftType, FsmType
<1> HIDE DEF got
<1>5. r \in ReadCalls
  BY <1>1, <1>2, <1>4 DEF ReadCalls
<1>6. r.at = applied[n] /\ r.floor = read[c].floor
  BY <1>1 DEF ReadCalls
<1> HIDE DEF r
<1>7. answered' \in Nat /\ answered <= answered' /\ answered' <= Len(chosen)
  <2>1. Max({answered, applied[n]}) = IF answered >= applied[n] THEN answered ELSE applied[n]
    BY <1>1, <1>2, MaxOfTwo
  <2> QED BY <2>1, <1>1, <1>2, <1>3
<1> QED BY <1>1, <1>2, <1>3, <1>5, <1>6, <1>7, OneReadType

\* Every step leads to a well typed state.
LEMMA NextType == RaftType /\ [Next]_vars => RaftType'
<1> SUFFICES ASSUME RaftType, [Next]_vars PROVE RaftType'
  OBVIOUS
<1>1. ASSUME NEW n \in Nodes, NodeStep(n) PROVE RaftType'
  <2>1. CASE Elect(n)
    BY <2>1, ElectType
  <2>2. CASE Choose(n)
    BY <2>2, ChooseType
  <2>3. CASE Commit(n)
    <3>1. PICK i \in (commit[n] + 1)..Len(chosen) : commit' = [commit EXCEPT ![n] = i]
      BY <2>3 DEF Commit
    <3>2. i \in Nat /\ commit[n] < i /\ i <= Len(chosen)
      BY <3>1 DEF RaftType, BraftType
    <3>3. UNCHANGED <<term, role, log, chosen, lease, fsm, write, read, answered>>
      BY <2>3 DEF Commit
    <3> QED BY <3>1, <3>2, <3>3, CommitType
  <2>4. CASE Follow(n)
    <3>1. PICK m \in Nodes : commit[m] > commit[n] /\ commit' = [commit EXCEPT ![n] = commit[m]]
      BY <2>4 DEF Follow
    <3>2. commit[m] \in Nat /\ commit[n] < commit[m] /\ commit[m] <= Len(chosen)
      BY <3>1 DEF RaftType, BraftType
    <3>3. UNCHANGED <<term, role, log, chosen, lease, fsm, write, read, answered>>
      BY <2>4 DEF Follow
    <3> QED BY <3>1, <3>2, <3>3, CommitType
  <2>5. CASE StepDown(n)
    BY <2>5, StepDownType
  <2>6. CASE LeaseRenew(n) \/ LeaseExpire(n)
    BY <2>6, LeaseType DEF LeaseRenew, LeaseExpire, fsm
  <2>7. CASE on_leader_start(n)
    <3>1. (IF role[n] = term THEN "VALID" ELSE "EXPIRED") \in {"EXPIRED", "VALID"}
      OBVIOUS
    <3> QED BY <3>1, <2>7, LeaseType DEF on_leader_start
  <2>8. CASE on_leader_stop(n)
    BY <2>8, on_leader_stopType
  <2>9. CASE \E ok \in {TRUE, ~StoreMayFail} : on_apply(n, ok)
    BY <2>9, on_applyType
  <2> QED BY <1>1, <2>1, <2>2, <2>3, <2>4, <2>5, <2>6, <2>7, <2>8, <2>9 DEF NodeStep
<1>2. ASSUME NEW c \in Writers, WriterStep(c) PROVE RaftType'
  <2>1. ASSUME NEW n \in Nodes, ReadLeaderTerm(c, n) PROVE RaftType'
    <3>1. write[c].cmd \in Cmds
      BY <2>1 DEF ReadLeaderTerm, RaftType, WriteType
    <3> QED BY <2>1, <3>1, WriteOnlyType
  <2>2. ASSUME NEW n \in Nodes, ApplyTask(c, n) PROVE RaftType'
    BY <2>2, ApplyTaskType
  <2>3. CASE Run(c)
    BY <2>3, RunType
  <2>4. CASE ApplyReturn(c)
    BY <2>4, ApplyReturnType
  <2> QED BY <1>2, <2>1, <2>2, <2>3, <2>4 DEF WriterStep
<1>3. ASSUME NEW c \in Readers, ReaderStep(c) PROVE RaftType'
  BY <1>3, ReaderStepType, ReadStoreType DEF ReaderStep
<1>4. ASSUME NEW c \in Writers, NEW n \in Nodes, NEW cmd \in Cmds,
             ApplyNotLeader(c, n) \/ ApplyBegin(c, n, cmd)
      PROVE  RaftType'
  BY <1>4, WriteOnlyType
<1>5. ASSUME NEW c \in Readers, NEW n \in Nodes, NEW key \in ReadKeys,
             NEW serializable \in BOOLEAN, GetBegin(c, n, key, serializable)
      PROVE  RaftType'
  BY <1>5, GetBeginType
<1>6. CASE UNCHANGED vars
  BY <1>6 DEF vars, braft, fsm, RaftType, BraftType, FsmType, WriteType, ReadType
<1> QED BY <1>1, <1>2, <1>3, <1>4, <1>5, <1>6 DEF Next

-----------------------------------------------------------------------------
(* Elections: who has which entries. *)

\* l is a log whose entries are in the order of their terms, none after t.
InOrder(l, t) ==
  /\ \A i \in 1..Len(l) : l[i].term <= t
  /\ \A i, j \in 1..Len(l) : i <= j => l[i].term <= l[j].term

\* p is a beginning of l.
Begins(p, l) == Len(p) <= Len(l) /\ \A i \in 1..Len(p) : l[i] = p[i]

\* Terms have one leader each, and entries are in the order of terms.
TermInv ==
  /\ \A m, n \in Nodes : Leads(m) /\ role[m] = role[n] => m = n
  /\ InOrder(chosen, term)
  /\ \A n \in Nodes : InOrder(log[n], IF Leads(n) THEN role[n] ELSE term)

\* The leader of the last term has all that is chosen, and every leader has what
\* it knows to be committed.
LeaderInv ==
  \A n \in Nodes : Leads(n) =>
    /\ role[n] = term => Begins(chosen, log[n])
    /\ commit[n] <= Len(log[n]) /\ \A i \in 1..commit[n] : log[n][i] = chosen[i]

\* Nobody knows an entry of the last term to be committed before its leader does.
FirstToKnow ==
  \A m, n \in Nodes :
    /\ Leads(n) /\ role[n] = term
    /\ commit[m] > 0 /\ chosen[commit[m]].term = term
    => commit[m] <= commit[n]

\* A lease that has begun is that of a leader who knows an entry of its own term
\* to be committed; while it is valid, there is no later term.
LeaseInv ==
  \A n \in Nodes :
    /\ lease[n] = "VALID" => Leads(n) /\ role[n] = term
    /\ Leads(n) /\ lease[n] # "NOT_READY" =>
         \E i \in 1..commit[n] : chosen[i].term = role[n]

\* What was shown was committed somewhere.
AnsweredInv == answered = 0 \/ \E m \in Nodes : answered <= commit[m]

-----------------------------------------------------------------------------
(* Calls of Apply: what is in the log, and how it ends. *)

Once(l) == \A i, j \in 1..Len(l) : l[i].call = l[j].call /\ l[i].call # NoOp => i = j

NotIn(c, l) == \A i \in 1..Len(l) : l[i].call # c

\* A call is in a log at most once, and not before it hands its task over.
OnceInv ==
  /\ Once(chosen) /\ \A n \in Nodes : Once(log[n])
  /\ \A c \in Writers :
       write[c].pc \in {"idle", "term", "apply"} \/ write[c].code = "NOT_LEADER" =>
         NotIn(c, chosen) /\ \A n \in Nodes : NotIn(c, log[n])

\* The entry of the call is committed somewhere, and its outcome is the code.
Committed(c) ==
  \E i \in 1..Len(chosen) :
    /\ chosen[i].call = c
    /\ \E m \in Nodes : i <= commit[m]
    /\ StoreMayFail \/ Outcomes[i].code = write[c].code

\* A call that ends with an outcome has been committed with that outcome.
OutcomeInv ==
  \A c \in Writers :
    LET w == write[c]
    IN  /\ w.code = "NOT_LEADER" => w.pc = "done"
        /\ w.pc # "done" /\ w.closure = "held" => ~w.failed /\ w.code = "OK"
        /\ w.pc = "wait" /\ w.closure = "due" => (w.failed /\ w.code = "OK") \/ Committed(c)
        /\ w.pc = "wait" /\ w.closure = "none" => w.code = "INTERNAL" \/ Committed(c)
        /\ w.pc = "done" => w.code \in {"INTERNAL", "NOT_LEADER"} \/ Committed(c)

\* The store of a node is that of a single store that has executed as much.
StoreInv == \A n \in Nodes : StoreMayFail \/ store[n] = Outcomes[applied[n]].store

\* Get: after the lease, the node knows all that had been shown when the call
\* began, and after the wait it has applied it.
ReadOk(c) ==
  LET r == read[c]
  IN  /\ r.pc = "lease" => ~r.serializable
      /\ \A n \in r.node :
           /\ r.pc = "catchup" => r.floor <= commit[n]
           /\ r.pc = "store" => r.serializable \/ r.floor <= applied[n]
      /\ r.pc = "done" /\ r.code \in {"OK", "KEY_NOT_FOUND"} =>
           /\ r.serializable \/ r.floor <= r.at
           /\ \A key \in r.key :
                StoreMayFail \/ [code |-> r.code, found |-> r.found] =
                                  GetLocked(Outcomes[r.at].store, key)

ReadInv == \A c \in Readers : ReadOk(c)

RaftInv ==
  /\ RaftType /\ TermInv /\ LeaderInv /\ FirstToKnow /\ LeaseInv /\ AnsweredInv
  /\ OnceInv /\ OutcomeInv /\ StoreInv /\ ReadInv

-----------------------------------------------------------------------------
(* Logs: beginnings, order of terms, and single occurrences. *)

\* A beginning of a log has the order of the log and names no call twice.
LEMMA BeginningOf ==
  ASSUME NEW p \in Seq(Entries), NEW l \in Seq(Entries), Begins(p, l)
  PROVE  /\ \A t : InOrder(l, t) => InOrder(p, t)
         /\ Once(l) => Once(p)
         /\ \A c : NotIn(c, l) => NotIn(c, p)
<1>1. Len(p) \in Nat /\ Len(l) \in Nat /\ \A i \in 1..Len(p) : i \in 1..Len(l) /\ p[i] = l[i]
  BY DEF Begins
<1> QED BY <1>1 DEF InOrder, Once, NotIn

\* Terms only grow.
LEMMA LaterOrder ==
  ASSUME NEW l \in Seq(Entries), NEW t \in Nat, NEW u \in Nat, t <= u, InOrder(l, t)
  PROVE  InOrder(l, u)
<1>1. \A i \in 1..Len(l) : l[i] \in Entries
  OBVIOUS
<1>2. \A i \in 1..Len(l) : l[i].term \in Nat
  BY <1>1 DEF Entries
<1> QED BY <1>2 DEF InOrder

\* A new last entry of a term that is not before the others.
LEMMA AppendOrder ==
  ASSUME NEW l \in Seq(Entries), NEW t \in Nat, NEW e \in Entries, InOrder(l, t),
         t <= e.term
  PROVE  InOrder(Append(l, e), e.term) /\ Begins(l, Append(l, e))
<1> DEFINE m == Append(l, e)
           n == Len(l)
<1>1. /\ m \in Seq(Entries) /\ Len(m) = n + 1 /\ n \in Nat
      /\ \A j \in 1..n : m[j] = l[j]
      /\ m[n + 1] = e
  BY AppendToLog
<1>2. \A i \in 1..Len(l) : l[i] \in Entries
  OBVIOUS
<1>3. \A i \in 1..n : l[i].term \in Nat
  BY <1>2 DEF Entries
<1>4. e.term \in Nat
  BY DEF Entries
<1> HIDE DEF m
<1>5. \A i \in 1..n : m[i].term <= e.term
  BY <1>1, <1>3, <1>4 DEF InOrder
<1>6. \A i \in 1..(n + 1) : i \in 1..n \/ i = n + 1
  BY <1>1
<1>7. \A i \in 1..Len(m) : m[i].term <= e.term
  BY <1>1, <1>4, <1>5, <1>6
<1>8. ASSUME NEW i \in 1..Len(m), NEW j \in 1..Len(m), i <= j
      PROVE  m[i].term <= m[j].term
  <2>1. CASE j = n + 1
    BY <2>1, <1>1, <1>7
  <2>2. CASE j # n + 1
    <3>1. i \in 1..n /\ j \in 1..n
      BY <2>2, <1>8, <1>1
    <3> QED BY <3>1, <1>8, <1>1 DEF InOrder
  <2> QED BY <2>1, <2>2
<1>9. InOrder(m, e.term) /\ Begins(l, m)
  BY <1>1, <1>7, <1>8 DEF InOrder, Begins
<1> QED BY <1>9 DEF m

\* A new last entry of a call that is not in the log.
LEMMA AppendOnce ==
  ASSUME NEW l \in Seq(Entries), NEW e \in Entries, Once(l),
         e.call = NoOp \/ NotIn(e.call, l)
  PROVE  /\ Once(Append(l, e))
         /\ \A c : NotIn(c, l) /\ c # e.call => NotIn(c, Append(l, e))
<1> DEFINE m == Append(l, e)
           n == Len(l)
<1>1. /\ m \in Seq(Entries) /\ Len(m) = n + 1 /\ n \in Nat
      /\ \A j \in 1..n : m[j] = l[j]
      /\ m[n + 1] = e
  BY AppendToLog
<1> HIDE DEF m
<1>2. \A i \in 1..Len(m) : i \in 1..n \/ i = n + 1
  BY <1>1
<1>3. \A c : NotIn(c, l) /\ c # e.call => NotIn(c, m)
  BY <1>1, <1>2 DEF NotIn
<1>4. ASSUME NEW i \in 1..Len(m), NEW j \in 1..Len(m), m[i].call = m[j].call,
             m[i].call # NoOp
      PROVE  i = j
  <2>1. CASE i \in 1..n /\ j \in 1..n
    BY <2>1, <1>1, <1>4 DEF Once
  <2>2. CASE i = n + 1 /\ j \in 1..n
    BY <2>2, <1>1, <1>4 DEF NotIn
  <2>3. CASE i \in 1..n /\ j = n + 1
    BY <2>3, <1>1, <1>4 DEF NotIn
  <2> QED BY <2>1, <2>2, <2>3, <1>2
<1>5. Once(m)
  BY <1>4 DEF Once
<1> QED BY <1>3, <1>5 DEF m

\* Which steps change the state of braft.
LEMMA BraftMoves ==
  ASSUME [Next]_vars
  PROVE  \/ UNCHANGED braft
         \/ \E n \in Nodes :
              \/ Elect(n) \/ Choose(n) \/ Commit(n) \/ Follow(n) \/ StepDown(n)
              \/ LeaseRenew(n) \/ LeaseExpire(n) \/ on_leader_start(n)
         \/ \E c \in Writers, n \in Nodes : ApplyTask(c, n)
<1>1. CASE UNCHANGED vars
  BY <1>1 DEF vars
<1>2. ASSUME NEW n \in Nodes, NodeStep(n)
      PROVE  \/ UNCHANGED braft
             \/ Elect(n) \/ Choose(n) \/ Commit(n) \/ Follow(n) \/ StepDown(n)
             \/ LeaseRenew(n) \/ LeaseExpire(n) \/ on_leader_start(n)
  <2>1. on_leader_stop(n) => UNCHANGED braft
    BY DEF on_leader_stop
  <2>2. \A ok : on_apply(n, ok) => UNCHANGED braft
    BY DEF on_apply
  <2> QED BY <1>2, <2>1, <2>2 DEF NodeStep
<1>3. ASSUME NEW c \in Writers, WriterStep(c)
      PROVE  UNCHANGED braft \/ \E n \in Nodes : ApplyTask(c, n)
  BY <1>3 DEF WriterStep, ReadLeaderTerm, Run, ApplyReturn
<1>4. ASSUME NEW c \in Readers, ReaderStep(c) PROVE UNCHANGED braft
  BY <1>4 DEF ReaderStep, WaitLeaderLease, GetRefused, WaitAppliedCatchUp, CatchUpTimeout,
              ReadStore, Goto, GetFails
<1>5. ASSUME NEW c \in Writers, NEW n \in Nodes, NEW cmd \in Cmds,
             ApplyNotLeader(c, n) \/ ApplyBegin(c, n, cmd)
      PROVE  UNCHANGED braft
  BY <1>5 DEF ApplyNotLeader, ApplyBegin
<1>6. ASSUME NEW c \in Readers, NEW n \in Nodes, NEW key \in ReadKeys,
             NEW serializable \in BOOLEAN, GetBegin(c, n, key, serializable)
      PROVE  UNCHANGED braft
  BY <1>6 DEF GetBegin
<1> QED BY <1>1, <1>2, <1>3, <1>4, <1>5, <1>6 DEF Next

-----------------------------------------------------------------------------
(* Elections keep what is chosen. *)

\* What each step of braft does to terms, logs and what is chosen.
LEMMA ElectLog ==
  ASSUME RaftType, TermInv, NEW n \in Nodes, Elect(n)
  PROVE  \E l \in Seq(Entries) :
           LET e == [term |-> term', call |-> NoOp]
           IN  /\ log' = [log EXCEPT ![n] = Append(l, e)] /\ log'[n] = Append(l, e)
               /\ e \in Entries /\ Begins(chosen, l) /\ InOrder(l, term)
               /\ l = chosen \/ \E m \in Nodes : Begins(l, log[m])
<1>1. PICK l \in ElectableLogs :
        log' = [log EXCEPT ![n] = Append(l, [term |-> term', call |-> NoOp])]
  BY DEF Elect
<1>2. /\ l \in Seq(Entries) /\ Begins(chosen, l)
      /\ l = chosen \/ \E m \in Nodes : Begins(l, log[m])
  BY ElectableLog DEF RaftType, Begins
<1>3. term \in Nat /\ term' = term + 1 /\ \A m \in Nodes : role[m] \in Nat /\ role[m] <= term
  BY DEF RaftType, BraftType, Elect
<1>4. [term |-> term', call |-> NoOp] \in Entries
  BY <1>3 DEF Entries
<1>5. InOrder(l, term)
  <2>1. CASE l = chosen
    BY <2>1 DEF TermInv
  <2>2. ASSUME NEW m \in Nodes, Begins(l, log[m]) PROVE InOrder(l, term)
    <3>1. log[m] \in Seq(Entries)
      BY DEF RaftType, BraftType
    <3>2. InOrder(log[m], IF Leads(m) THEN role[m] ELSE term)
      BY DEF TermInv
    <3>3. InOrder(log[m], term)
      BY <3>1, <3>2, <1>3, LaterOrder
    <3> QED BY <3>1, <3>3, <2>2, <1>2, BeginningOf
  <2> QED BY <2>1, <2>2, <1>2
<1>6. log'[n] = Append(l, [term |-> term', call |-> NoOp])
  BY <1>1 DEF RaftType, BraftType
<1> QED BY <1>1, <1>2, <1>4, <1>5, <1>6

\* Choose: the leader of the last term extends what is chosen by its log.
LEMMA ChooseLog ==
  ASSUME RaftType, LeaderInv, NEW n \in Nodes, Choose(n)
  PROVE  /\ Leads(n) /\ role[n] = term
         /\ chosen' \in Seq(Entries) /\ Begins(chosen', log[n]) /\ Begins(chosen, chosen')
         /\ UNCHANGED <<term, role, log, commit, lease>>
<1>1. PICK i \in (Len(chosen) + 1)..Len(log[n]) : chosen' = SubSeq(log[n], 1, i)
  BY DEF Choose
<1>2. log[n] \in Seq(Entries) /\ chosen \in Seq(Entries) /\ Len(chosen) \in Nat
      /\ i \in 0..Len(log[n]) /\ Len(chosen) < i
  BY <1>1 DEF RaftType, BraftType
<1>3. chosen' \in Seq(Entries) /\ Len(chosen') = i /\ \A j \in 1..i : chosen'[j] = log[n][j]
  BY <1>1, <1>2, SubSeqOfLog
<1>4. Begins(chosen, log[n])
  BY DEF LeaderInv, Choose
<1>5. Begins(chosen', log[n]) /\ Begins(chosen, chosen')
  BY <1>2, <1>3, <1>4 DEF Begins
<1> QED BY <1>3, <1>5 DEF Choose

\* Terms.
LEMMA TermStep ==
  ASSUME RaftType, TermInv, LeaderInv, [Next]_vars
  PROVE  TermInv'
<1>0. /\ term \in Nat /\ role \in [Nodes -> Nat] /\ \A m \in Nodes : role[m] <= term
      /\ log \in [Nodes -> Seq(Entries)] /\ chosen \in Seq(Entries)
  BY DEF RaftType, BraftType
<1>1. ASSUME NEW n \in Nodes, Elect(n) PROVE TermInv'
  <2>1. term' = term + 1 /\ role' = [role EXCEPT ![n] = term'] /\ chosen' = chosen
    BY <1>1 DEF Elect
  <2> DEFINE e == [term |-> term', call |-> NoOp]
  <2>2. PICK l \in Seq(Entries) :
          /\ log' = [log EXCEPT ![n] = Append(l, e)] /\ log'[n] = Append(l, e)
          /\ e \in Entries /\ InOrder(l, term)
    BY <1>1, ElectLog
  <2>3. e.term = term'
    OBVIOUS
  <2> HIDE DEF e
  <2>4. InOrder(log'[n], term')
    BY <2>1, <2>2, <2>3, <1>0, AppendOrder
  <2>5. InOrder(chosen, term')
    BY <2>1, <1>0, LaterOrder DEF TermInv
  <2>6. ASSUME NEW m \in Nodes, m # n
        PROVE  InOrder(log'[m], IF role'[m] > 0 THEN role'[m] ELSE term')
    <3>1. log'[m] = log[m] /\ role'[m] = role[m]
      BY <2>1, <2>2, <2>6, <1>0
    <3>2. InOrder(log[m], IF role[m] > 0 THEN role[m] ELSE term)
      BY DEF TermInv, Leads
    <3>3. CASE role[m] > 0
      BY <3>1, <3>2, <3>3
    <3>4. CASE ~(role[m] > 0)
      BY <3>1, <3>2, <3>4, <2>1, <1>0, LaterOrder
    <3> QED BY <3>3, <3>4
  <2>7. role'[n] = term'
    BY <2>1, <1>0
  <2>8. \A m \in Nodes : InOrder(log'[m], IF role'[m] > 0 THEN role'[m] ELSE term')
    BY <2>4, <2>6, <2>7
  <2>9. \A m, k \in Nodes : role'[m] > 0 /\ role'[m] = role'[k] => m = k
    <3>1. \A m \in Nodes : m # n => role'[m] = role[m] /\ role[m] < term'
      BY <2>1, <1>0
    <3>2. \A m, k \in Nodes : role[m] > 0 /\ role[m] = role[k] => m = k
      BY DEF TermInv, Leads
    <3> QED BY <3>1, <3>2, <2>7, <2>1, <1>0
  <2> QED BY <2>1, <2>5, <2>8, <2>9 DEF TermInv, Leads
<1>2. ASSUME NEW n \in Nodes, Choose(n) PROVE TermInv'
  <2>1. /\ Leads(n) /\ role[n] = term /\ UNCHANGED <<term, role, log>>
        /\ chosen' \in Seq(Entries) /\ Begins(chosen', log[n])
    BY <1>2, ChooseLog
  <2>2. InOrder(log[n], term)
    BY <2>1 DEF TermInv
  <2>3. InOrder(chosen', term)
    BY <2>1, <2>2, <1>0, BeginningOf
  <2> QED BY <2>1, <2>3 DEF TermInv, Leads
<1>3. ASSUME NEW n \in Nodes, StepDown(n) PROVE TermInv'
  <2>1. Leads(n) /\ role' = [role EXCEPT ![n] = 0] /\ UNCHANGED <<term, log, chosen>>
    BY <1>3 DEF StepDown
  <2>2. \A m \in Nodes : InOrder(log[m], term)
    BY <1>0, LaterOrder DEF TermInv
  <2> QED BY <2>1, <2>2, <1>0 DEF TermInv, Leads
<1>4. ASSUME NEW c \in Writers, NEW n \in Nodes, ApplyTask(c, n) PROVE TermInv'
  <2> DEFINE e == [term |-> role[n], call |-> c]
  <2>1. UNCHANGED <<term, role, chosen>>
        /\ (log' = log \/ (Leads(n) /\ log' = [log EXCEPT ![n] = Append(@, e)]))
    BY <1>4 DEF ApplyTask
  <2>2. CASE log' = log
    BY <2>1, <2>2 DEF TermInv, Leads
  <2>3. CASE Leads(n) /\ log' = [log EXCEPT ![n] = Append(@, e)]
    <3>1. e \in Entries /\ e.term = role[n] /\ log[n] \in Seq(Entries) /\ role[n] \in Nat
      <4>1. role[n] \in Nat \ {0} /\ log[n] \in Seq(Entries)
        BY <2>3, <1>0 DEF Leads
      <4> QED BY <4>1 DEF Entries
    <3>2. InOrder(log[n], role[n])
      BY <2>3 DEF TermInv
    <3> HIDE DEF e
    <3>3. InOrder(Append(log[n], e), role[n])
      BY <3>1, <3>2, AppendOrder
    <3>4. log'[n] = Append(log[n], e) /\ \A m \in Nodes : m # n => log'[m] = log[m]
      BY <2>3, <1>0
    <3> QED BY <2>1, <2>3, <3>3, <3>4 DEF TermInv, Leads
  <2> QED BY <2>1, <2>2, <2>3
<1>5. ASSUME UNCHANGED <<term, role, log, chosen>> PROVE TermInv'
  BY <1>5 DEF TermInv, Leads
<1>6. \A n \in Nodes : Commit(n) \/ Follow(n) \/ LeaseRenew(n) \/ LeaseExpire(n)
                         \/ on_leader_start(n) => UNCHANGED <<term, role, log, chosen>>
  BY DEF Commit, Follow, LeaseRenew, LeaseExpire, on_leader_start
<1>7. UNCHANGED braft => UNCHANGED <<term, role, log, chosen>>
  BY DEF braft
<1> QED BY <1>1, <1>2, <1>3, <1>4, <1>5, <1>6, <1>7, BraftMoves

\* Leaders have what is chosen.
LEMMA LeaderStep ==
  ASSUME RaftType, TermInv, LeaderInv, [Next]_vars
  PROVE  LeaderInv'
<1>0. /\ term \in Nat /\ role \in [Nodes -> Nat] /\ \A m \in Nodes : role[m] <= term
      /\ log \in [Nodes -> Seq(Entries)] /\ chosen \in Seq(Entries) /\ Len(chosen) \in Nat
      /\ commit \in [Nodes -> Nat] /\ \A m \in Nodes : commit[m] <= Len(chosen)
  BY DEF RaftType, BraftType
<1>1. ASSUME NEW n \in Nodes, Elect(n) PROVE LeaderInv'
  <2>1. /\ term' = term + 1 /\ role' = [role EXCEPT ![n] = term'] /\ chosen' = chosen
        /\ commit' = commit
    BY <1>1 DEF Elect
  <2> DEFINE e == [term |-> term', call |-> NoOp]
  <2>2. PICK l \in Seq(Entries) :
          /\ log' = [log EXCEPT ![n] = Append(l, e)] /\ log'[n] = Append(l, e)
          /\ e \in Entries /\ Begins(chosen, l)
    BY <1>1, ElectLog
  <2> HIDE DEF e
  <2>3. /\ Len(log'[n]) = Len(l) + 1 /\ Len(l) \in Nat
        /\ \A j \in 1..Len(l) : log'[n][j] = l[j]
    BY <2>2, AppendToLog
  <2>4. Begins(chosen, log'[n])
    BY <2>2, <2>3, <1>0 DEF Begins
  <2>5. commit[n] <= Len(log'[n]) /\ \A i \in 1..commit[n] : log'[n][i] = chosen[i]
    BY <2>3, <2>4, <1>0 DEF Begins
  <2>6. ASSUME NEW m \in Nodes, m # n, role'[m] > 0
        PROVE  /\ role'[m] # term'
               /\ commit[m] <= Len(log'[m]) /\ \A i \in 1..commit[m] : log'[m][i] = chosen[i]
    <3>1. log'[m] = log[m] /\ role'[m] = role[m] /\ role[m] < term'
      BY <2>1, <2>2, <2>6, <1>0
    <3> QED BY <3>1, <2>6, <1>0 DEF LeaderInv, Leads
  <2> QED BY <2>1, <2>4, <2>5, <2>6 DEF LeaderInv, Leads
<1>2. ASSUME NEW n \in Nodes, Choose(n) PROVE LeaderInv'
  <2>1. /\ Leads(n) /\ role[n] = term /\ UNCHANGED <<term, role, log, commit>>
        /\ chosen' \in Seq(Entries) /\ Begins(chosen', log[n]) /\ Begins(chosen, chosen')
    BY <1>2, ChooseLog
  <2>2. ASSUME NEW m \in Nodes, Leads(m)
        PROVE  /\ role[m] = term => Begins(chosen', log[m])
               /\ commit[m] <= Len(log[m]) /\ \A i \in 1..commit[m] : log[m][i] = chosen'[i]
    <3>1. role[m] = term => m = n
      BY <2>1, <2>2 DEF TermInv
    <3>2. commit[m] <= Len(log[m]) /\ \A i \in 1..commit[m] : log[m][i] = chosen[i]
      BY <2>2 DEF LeaderInv
    <3>3. \A i \in 1..commit[m] : chosen'[i] = chosen[i]
      <4>1. commit[m] \in Nat /\ commit[m] <= Len(chosen)
        BY <1>0
      <4>2. \A i \in 1..commit[m] : i \in 1..Len(chosen)
        BY <4>1, <1>0
      <4> QED BY <4>2, <2>1 DEF Begins
    <3> QED BY <3>1, <3>2, <3>3, <2>1
  <2> QED BY <2>1, <2>2 DEF LeaderInv, Leads
<1>3. ASSUME NEW n \in Nodes, Commit(n) PROVE LeaderInv'
  <2>1. PICK i \in (commit[n] + 1)..Len(chosen) :
          IsPrefix(SubSeq(chosen, 1, i), log[n]) /\ commit' = [commit EXCEPT ![n] = i]
    BY <1>3 DEF Commit
  <2>2. UNCHANGED <<term, role, log, chosen>>
    BY <1>3 DEF Commit
  <2>3. i \in 0..Len(chosen) /\ log[n] \in Seq(Entries)
    BY <2>1, <1>0
  <2>4. /\ SubSeq(chosen, 1, i) \in Seq(Entries) /\ Len(SubSeq(chosen, 1, i)) = i
        /\ \A j \in 1..i : SubSeq(chosen, 1, i)[j] = chosen[j]
    BY <2>3, <1>0, SubSeqOfLog
  <2>5. i <= Len(log[n]) /\ \A j \in 1..i : SubSeq(chosen, 1, i)[j] = log[n][j]
    BY <2>1, <2>3, <2>4, PrefixOfLog
  <2>6. i <= Len(log[n]) /\ \A j \in 1..i : log[n][j] = chosen[j]
    BY <2>4, <2>5
  <2>7. commit'[n] = i /\ \A m \in Nodes : m # n => commit'[m] = commit[m]
    BY <2>1, <1>0
  <2> QED BY <2>2, <2>6, <2>7 DEF LeaderInv, Leads
<1>4. ASSUME NEW n \in Nodes, Follow(n) PROVE LeaderInv'
  <2>1. ~Leads(n) /\ UNCHANGED <<term, role, log, chosen>>
        /\ \E i : commit' = [commit EXCEPT ![n] = i]
    BY <1>4 DEF Follow
  <2>2. \A m \in Nodes : m # n => commit'[m] = commit[m]
    BY <2>1, <1>0
  <2> QED BY <2>1, <2>2 DEF LeaderInv, Leads
<1>5. ASSUME NEW n \in Nodes, StepDown(n) PROVE LeaderInv'
  <2>1. Leads(n) /\ role' = [role EXCEPT ![n] = 0] /\ UNCHANGED <<term, log, chosen, commit>>
    BY <1>5 DEF StepDown
  <2>2. \A m \in Nodes : role'[m] > 0 => role'[m] = role[m]
    BY <2>1, <1>0
  <2> QED BY <2>1, <2>2 DEF LeaderInv, Leads
<1>6. ASSUME NEW c \in Writers, NEW n \in Nodes, ApplyTask(c, n) PROVE LeaderInv'
  <2> DEFINE e == [term |-> role[n], call |-> c]
  <2>1. UNCHANGED <<term, role, chosen, commit>>
        /\ (log' = log \/ (Leads(n) /\ log' = [log EXCEPT ![n] = Append(@, e)]))
    BY <1>6 DEF ApplyTask
  <2>2. CASE log' = log
    BY <2>1, <2>2 DEF LeaderInv, Leads
  <2>3. CASE Leads(n) /\ log' = [log EXCEPT ![n] = Append(@, e)]
    <3>1. e \in Entries /\ log[n] \in Seq(Entries)
      <4>1. role[n] \in Nat \ {0} /\ log[n] \in Seq(Entries)
        BY <2>3, <1>0 DEF Leads
      <4> QED BY <4>1 DEF Entries
    <3> HIDE DEF e
    <3>2. log'[n] = Append(log[n], e) /\ \A m \in Nodes : m # n => log'[m] = log[m]
      BY <2>3, <1>0
    <3>3. /\ Len(log'[n]) = Len(log[n]) + 1 /\ Len(log[n]) \in Nat
          /\ \A j \in 1..Len(log[n]) : log'[n][j] = log[n][j]
      BY <3>1, <3>2, AppendToLog
    <3>4. /\ role[n] = term => Begins(chosen, log[n])
          /\ commit[n] <= Len(log[n]) /\ \A i \in 1..commit[n] : log[n][i] = chosen[i]
      BY <2>3 DEF LeaderInv
    <3>5. /\ role[n] = term => Begins(chosen, log'[n])
          /\ commit[n] <= Len(log'[n]) /\ \A i \in 1..commit[n] : log'[n][i] = chosen[i]
      BY <3>3, <3>4, <1>0 DEF Begins
    <3>6. ASSUME NEW m \in Nodes, Leads(m)'
          PROVE  /\ role'[m] = term' => Begins(chosen', log'[m])
                 /\ commit'[m] <= Len(log'[m])
                 /\ \A i \in 1..commit'[m] : log'[m][i] = chosen'[i]
      <4>1. CASE m = n
        BY <2>1, <3>5, <4>1
      <4>2. CASE m # n
        BY <2>1, <3>2, <3>6, <4>2 DEF LeaderInv, Leads
      <4> QED BY <4>1, <4>2
    <3> QED BY <3>6 DEF LeaderInv
  <2> QED BY <2>1, <2>2, <2>3
<1>7. ASSUME UNCHANGED <<term, role, log, chosen, commit>> PROVE LeaderInv'
  BY <1>7 DEF LeaderInv, Leads
<1>8. \A n \in Nodes : LeaseRenew(n) \/ LeaseExpire(n) \/ on_leader_start(n)
                         => UNCHANGED <<term, role, log, chosen, commit>>
  BY DEF LeaseRenew, LeaseExpire, on_leader_start
<1>9. UNCHANGED braft => UNCHANGED <<term, role, log, chosen, commit>>
  BY DEF braft
<1> QED BY <1>1, <1>2, <1>3, <1>4, <1>5, <1>6, <1>7, <1>8, <1>9, BraftMoves

\* What is chosen stays chosen, and what is known to be committed grows.
LEMMA ChosenGrows ==
  ASSUME RaftType, LeaderInv, [Next]_vars
  PROVE  /\ Begins(chosen, chosen')
         /\ \A n \in Nodes : commit[n] <= commit'[n]
<1>0. /\ chosen \in Seq(Entries) /\ Len(chosen) \in Nat /\ commit \in [Nodes -> Nat]
  BY DEF RaftType, BraftType
<1>1. ASSUME UNCHANGED <<chosen, commit>>
      PROVE  Begins(chosen, chosen') /\ \A n \in Nodes : commit[n] <= commit'[n]
  BY <1>0, <1>1 DEF Begins
<1>2. ASSUME NEW n \in Nodes, Choose(n)
      PROVE  Begins(chosen, chosen') /\ \A m \in Nodes : commit[m] <= commit'[m]
  BY <1>0, <1>2, ChooseLog
<1>3. ASSUME NEW n \in Nodes, Commit(n) \/ Follow(n)
      PROVE  Begins(chosen, chosen') /\ \A m \in Nodes : commit[m] <= commit'[m]
  <2>1. chosen' = chosen /\ \E i \in Nat : commit[n] <= i /\ commit' = [commit EXCEPT ![n] = i]
    BY <1>0, <1>3 DEF Commit, Follow
  <2> QED BY <1>0, <2>1 DEF Begins
<1>4. \A n \in Nodes : Elect(n) \/ StepDown(n) \/ LeaseRenew(n) \/ LeaseExpire(n)
                         \/ on_leader_start(n) => UNCHANGED <<chosen, commit>>
  BY DEF Elect, StepDown, LeaseRenew, LeaseExpire, on_leader_start
<1>5. \A n \in Nodes, c \in Writers : ApplyTask(c, n) => UNCHANGED <<chosen, commit>>
  BY DEF ApplyTask
<1>6. UNCHANGED braft => UNCHANGED <<chosen, commit>>
  BY DEF braft
<1> QED BY <1>1, <1>2, <1>3, <1>4, <1>5, <1>6, BraftMoves

\* Committed entries are entries, and stay where they are.
LEMMA CommittedEntry ==
  ASSUME RaftType, LeaderInv, [Next]_vars, NEW m \in Nodes, NEW i \in 1..commit[m]
  PROVE  /\ i \in 1..Len(chosen) /\ chosen[i] \in Entries /\ chosen[i].term \in Nat
         /\ chosen'[i] = chosen[i]
<1>1. chosen \in Seq(Entries) /\ Len(chosen) \in Nat /\ commit[m] \in Nat
      /\ commit[m] <= Len(chosen)
  BY DEF RaftType, BraftType
<1>2. i \in 1..Len(chosen)
  BY <1>1
<1>3. chosen[i] \in Entries
  BY <1>1, <1>2
<1>4. Begins(chosen, chosen')
  BY ChosenGrows
<1> QED BY <1>2, <1>3, <1>4 DEF Begins, Entries

\* The leader of the last term is the first to know what is committed in it.
LEMMA FirstStep ==
  ASSUME RaftType, TermInv, LeaderInv, FirstToKnow, [Next]_vars
  PROVE  FirstToKnow'
<1>0. /\ term \in Nat /\ role \in [Nodes -> Nat] /\ \A m \in Nodes : role[m] <= term
      /\ commit \in [Nodes -> Nat] /\ \A m \in Nodes : commit[m] <= Len(chosen)
      /\ chosen \in Seq(Entries) /\ Len(chosen) \in Nat
  BY DEF RaftType, BraftType
<1>1. \A m \in Nodes : commit[m] > 0 =>
        /\ commit[m] \in 1..commit[m] /\ commit[m] \in 1..Len(chosen)
        /\ chosen[commit[m]].term \in Nat /\ chosen'[commit[m]] = chosen[commit[m]]
  BY <1>0, CommittedEntry
<1>2. ASSUME NEW n \in Nodes, Elect(n) PROVE FirstToKnow'
  <2>1. term' = term + 1 /\ UNCHANGED <<chosen, commit>>
    BY <1>2 DEF Elect
  <2>2. \A m \in Nodes : commit[m] > 0 => chosen[commit[m]].term # term'
    BY <2>1, <1>0, <1>1 DEF TermInv, InOrder
  <2> QED BY <2>1, <2>2 DEF FirstToKnow
<1>3. ASSUME UNCHANGED <<term, role, commit>> PROVE FirstToKnow'
  BY <1>1, <1>3 DEF FirstToKnow, Leads
<1>4. ASSUME NEW n \in Nodes, Commit(n) PROVE FirstToKnow'
  <2>1. PICK i \in (commit[n] + 1)..Len(chosen) :
          chosen[i].term = role[n] /\ commit' = [commit EXCEPT ![n] = i]
    BY <1>4 DEF Commit
  <2>2. UNCHANGED <<term, role, chosen>> /\ Leads(n)
    BY <1>4 DEF Commit
  <2>3. i \in Nat /\ commit[n] < i /\ commit'[n] = i
        /\ \A m \in Nodes : m # n => commit'[m] = commit[m]
    BY <2>1, <1>0
  <2>4. ASSUME NEW m \in Nodes, NEW k \in Nodes, Leads(k), role[k] = term,
               commit'[m] > 0, chosen[commit'[m]].term = term
        PROVE  commit'[m] <= commit'[k]
    <3>1. CASE m = n
      <4>1. role[n] = term
        BY <3>1, <2>1, <2>3, <2>4
      <4>2. k = n
        BY <4>1, <2>2, <2>4 DEF TermInv
      <4> QED BY <3>1, <4>2, <2>3
    <3>2. CASE m # n
      <4>1. commit[m] <= commit[k]
        BY <3>2, <2>3, <2>4 DEF FirstToKnow
      <4>2. commit[k] <= commit'[k] /\ commit'[k] \in Nat /\ commit[k] \in Nat
        BY <2>3, <1>0
      <4> QED BY <3>2, <4>1, <4>2, <2>3, <1>0
    <3> QED BY <3>1, <3>2
  <2> QED BY <2>2, <2>4 DEF FirstToKnow, Leads
<1>5. ASSUME NEW n \in Nodes, Follow(n) PROVE FirstToKnow'
  <2>1. PICK q \in Nodes : commit[q] > commit[n] /\ commit' = [commit EXCEPT ![n] = commit[q]]
    BY <1>5 DEF Follow
  <2>2. UNCHANGED <<term, role, chosen>> /\ ~Leads(n)
    BY <1>5 DEF Follow
  <2>3. commit'[n] = commit[q] /\ \A m \in Nodes : m # n => commit'[m] = commit[m]
    BY <2>1, <1>0
  <2>4. ASSUME NEW m \in Nodes, NEW k \in Nodes, Leads(k), role[k] = term,
               commit'[m] > 0, chosen[commit'[m]].term = term
        PROVE  commit'[m] <= commit'[k]
    <3>1. k # n /\ commit'[k] = commit[k]
      BY <2>2, <2>3, <2>4
    <3>2. CASE m = n
      BY <3>1, <3>2, <2>3, <2>4 DEF FirstToKnow
    <3>3. CASE m # n
      BY <3>1, <3>3, <2>3, <2>4 DEF FirstToKnow
    <3> QED BY <3>2, <3>3
  <2> QED BY <2>2, <2>4 DEF FirstToKnow, Leads
<1>6. ASSUME NEW n \in Nodes, StepDown(n) PROVE FirstToKnow'
  <2>1. Leads(n) /\ role' = [role EXCEPT ![n] = 0] /\ UNCHANGED <<term, chosen, commit>>
    BY <1>6 DEF StepDown
  <2>2. \A m \in Nodes : role'[m] > 0 => role'[m] = role[m]
    BY <2>1, <1>0
  <2> QED BY <2>1, <2>2 DEF FirstToKnow, Leads
<1>7. \A n \in Nodes : Choose(n) \/ LeaseRenew(n) \/ LeaseExpire(n) \/ on_leader_start(n)
                         => UNCHANGED <<term, role, commit>>
  BY DEF Choose, LeaseRenew, LeaseExpire, on_leader_start
<1>8. \A n \in Nodes, c \in Writers : ApplyTask(c, n) => UNCHANGED <<term, role, commit>>
  BY DEF ApplyTask
<1>9. UNCHANGED braft => UNCHANGED <<term, role, commit>>
  BY DEF braft
<1> QED BY <1>2, <1>3, <1>4, <1>5, <1>6, <1>7, <1>8, <1>9, BraftMoves

\* Leases.
LEMMA LeaseStep ==
  ASSUME RaftType, TermInv, LeaderInv, LeaseInv, [Next]_vars
  PROVE  LeaseInv'
<1> DEFINE Ready(n) == \E i \in 1..commit[n] : chosen[i].term = role[n]
<1>0. /\ term \in Nat /\ role \in [Nodes -> Nat]
      /\ commit \in [Nodes -> Nat] /\ commit' \in [Nodes -> Nat]
      /\ lease \in [Nodes -> {"EXPIRED", "NOT_READY", "VALID"}]
  BY NextType DEF RaftType, BraftType
<1>1. ASSUME NEW n \in Nodes, Ready(n), role'[n] = role[n]
      PROVE  \E i \in 1..commit'[n] : chosen'[i].term = role'[n]
  <2>1. PICK i \in 1..commit[n] : chosen[i].term = role[n]
    BY <1>1
  <2>2. chosen'[i] = chosen[i]
    BY CommittedEntry
  <2>3. i \in 1..commit'[n]
    <3>1. commit[n] <= commit'[n] /\ commit[n] \in Nat /\ commit'[n] \in Nat
      BY ChosenGrows, <1>0
    <3> QED BY <3>1
  <2> QED BY <2>1, <2>2, <2>3, <1>1
<1>2. \A n \in Nodes : Leads(n) /\ lease[n] # "NOT_READY" => Ready(n)
  BY DEF LeaseInv
<1> HIDE DEF Ready
<1>3. ASSUME UNCHANGED <<term, role, lease>> PROVE LeaseInv'
  BY <1>1, <1>2, <1>3 DEF LeaseInv, Leads
<1>4. ASSUME NEW n \in Nodes, Elect(n) PROVE LeaseInv'
  <2>1. /\ term' = term + 1 /\ role' = [role EXCEPT ![n] = term']
        /\ \A m \in Nodes : lease[m] # "VALID"
        /\ lease' = [lease EXCEPT ![n] = "NOT_READY"]
    BY <1>4 DEF Elect
  <2>2. /\ \A m \in Nodes : lease'[m] # "VALID"
        /\ lease'[n] = "NOT_READY"
        /\ \A m \in Nodes : m # n => role'[m] = role[m] /\ lease'[m] = lease[m]
    BY <2>1, <1>0
  <2> QED BY <2>2, <1>1, <1>2 DEF LeaseInv, Leads
<1>5. ASSUME NEW n \in Nodes, StepDown(n) PROVE LeaseInv'
  <2>1. /\ role' = [role EXCEPT ![n] = 0] /\ lease' = [lease EXCEPT ![n] = "EXPIRED"]
        /\ term' = term
    BY <1>5 DEF StepDown
  <2>2. /\ role'[n] = 0 /\ lease'[n] = "EXPIRED"
        /\ \A m \in Nodes : m # n => role'[m] = role[m] /\ lease'[m] = lease[m]
    BY <2>1, <1>0
  <2> QED BY <2>1, <2>2, <1>1, <1>2 DEF LeaseInv, Leads
<1>6. ASSUME NEW n \in Nodes, LeaseRenew(n) \/ LeaseExpire(n) PROVE LeaseInv'
  <2>1. /\ UNCHANGED <<term, role>> /\ lease[n] # "NOT_READY"
        /\ \/ lease' = [lease EXCEPT ![n] = "EXPIRED"]
           \/ lease' = [lease EXCEPT ![n] = "VALID"] /\ Leads(n) /\ role[n] = term
    BY <1>6 DEF LeaseRenew, LeaseExpire
  <2>2. /\ lease'[n] = "VALID" => Leads(n) /\ role[n] = term
        /\ \A m \in Nodes : m # n => lease'[m] = lease[m]
    BY <2>1, <1>0
  <2> QED BY <2>1, <2>2, <1>1, <1>2 DEF LeaseInv, Leads
<1>7. ASSUME NEW n \in Nodes, on_leader_start(n) PROVE LeaseInv'
  <2>1. /\ Leads(n) /\ UNCHANGED <<term, role>>
        /\ \E i \in 1..commit[n] : log[n][i].term = role[n]
        /\ lease' = [lease EXCEPT ![n] = IF role[n] = term THEN "VALID" ELSE "EXPIRED"]
    BY <1>7 DEF on_leader_start
  <2>2. Ready(n)
    BY <2>1 DEF LeaderInv, Ready
  <2>3. /\ lease'[n] = "VALID" => Leads(n) /\ role[n] = term
        /\ \A m \in Nodes : m # n => lease'[m] = lease[m]
    BY <2>1, <1>0
  <2> QED BY <2>1, <2>2, <2>3, <1>1, <1>2 DEF LeaseInv, Leads
<1>8. \A n \in Nodes : Choose(n) \/ Commit(n) \/ Follow(n) => UNCHANGED <<term, role, lease>>
  BY DEF Choose, Commit, Follow
<1>9. \A n \in Nodes, c \in Writers : ApplyTask(c, n) => UNCHANGED <<term, role, lease>>
  BY DEF ApplyTask
<1>10. UNCHANGED braft => UNCHANGED <<term, role, lease>>
  BY DEF braft
<1> QED BY <1>3, <1>4, <1>5, <1>6, <1>7, <1>8, <1>9, <1>10, BraftMoves

\* While a lease is valid, nobody knows more to be committed than its leader.
LEMMA LeaseKnowsAll ==
  ASSUME RaftType, TermInv, FirstToKnow, LeaseInv, NEW n \in Nodes, lease[n] = "VALID",
         NEW m \in Nodes
  PROVE  commit[m] <= commit[n]
<1>0. /\ term \in Nat /\ commit[n] \in Nat /\ commit[m] \in Nat
      /\ commit[m] <= Len(chosen) /\ commit[n] <= Len(chosen)
      /\ chosen \in Seq(Entries) /\ Len(chosen) \in Nat
  BY DEF RaftType, BraftType
<1>1. Leads(n) /\ role[n] = term
  BY DEF LeaseInv
<1>2. PICK i \in 1..commit[n] : chosen[i].term = term
  BY <1>1 DEF LeaseInv
<1>3. CASE commit[m] = 0
  BY <1>0, <1>3
<1>4. CASE commit[m] > 0
  <2>1. commit[m] \in 1..Len(chosen) /\ i \in 1..Len(chosen)
    BY <1>0, <1>4
  <2>2. chosen[commit[m]] \in Entries
    BY <2>1, <1>0
  <2>3. chosen[commit[m]].term \in Nat /\ chosen[commit[m]].term <= term
    BY <2>1, <2>2 DEF Entries, TermInv, InOrder
  <2>4. CASE chosen[commit[m]].term = term
    BY <2>4, <1>1, <1>4 DEF FirstToKnow
  <2>5. CASE chosen[commit[m]].term < term
    <3>1. ~(i <= commit[m])
      BY <2>1, <2>3, <2>5, <1>0, <1>2 DEF TermInv, InOrder
    <3> QED BY <3>1, <1>0, <1>2
  <2> QED BY <2>3, <2>4, <2>5, <1>0
<1> QED BY <1>0, <1>3, <1>4

-----------------------------------------------------------------------------
(* What the steps do to one call of Apply. *)

\* Its command and its place are kept.
Keeps(v, w) == w.pc = v.pc /\ w.cmd = v.cmd /\ w.done = v.done

\* braft runs the closure with an error.
ClosureFails(v, w) ==
  v.closure = "held" /\ w.closure = "due" /\ w.failed /\ w.code = v.code /\ Keeps(v, w)

\* on_apply at n gives the closure the outcome.
ClosureFinished(v, w, c, n, ok) ==
  /\ v.closure = "held" /\ w.closure = "due" /\ Keeps(v, w)
  /\ applied[n] < commit[n] /\ chosen[applied[n] + 1].call = c
  /\ w.code = ApplyCmdToStore(store[n], v.cmd, ok).code

\* The closure runs.
ClosureRuns(v, w) ==
  /\ v.closure = "due" /\ w.closure = "none"
  /\ w.pc = v.pc /\ w.cmd = v.cmd
  /\ w.code = IF v.failed /\ v.code = "OK" THEN "INTERNAL" ELSE v.code

\* The call is refused, begins, reads the term, hands its task over, returns.
CallGoesOn(v, w) ==
  \/ v.pc = "idle" /\ w.pc = "done" /\ w.code = "NOT_LEADER" /\ w.cmd = v.cmd
  \/ v.pc = "idle" /\ w.pc = "term" /\ w.code = v.code /\ w.closure = v.closure
  \/ v.pc = "term" /\ w.pc = "apply" /\ w.code = v.code /\ w.cmd = v.cmd
       /\ w.closure = v.closure
  \/ /\ v.pc = "apply" /\ w.pc = "wait" /\ w.code = v.code /\ w.cmd = v.cmd
     /\ (w.closure = "held" /\ ~w.failed) \/ (w.closure = "due" /\ w.failed)
  \/ /\ v.pc = "wait" /\ w.pc = "done" /\ w.code = v.code /\ w.cmd = v.cmd
     /\ v.done /\ w.closure = "none"

CallMoves(v, w, c) ==
  \/ w = v
  \/ ClosureFails(v, w)
  \/ \E n \in Nodes, ok \in {TRUE, ~StoreMayFail} : ClosureFinished(v, w, c, n, ok)
  \/ ClosureRuns(v, w)
  \/ CallGoesOn(v, w)

\* Every step moves every call in one of these ways.
LEMMA CallStep ==
  ASSUME RaftType, [Next]_vars, NEW c \in Writers
  PROVE  CallMoves(write[c], write'[c], c)
<1>0. write \in [Writers -> WriteCalls] /\ write[c] \in WriteCalls
  BY DEF RaftType, WriteType
<1>1. ASSUME NEW d \in Writers, NEW n \in Nodes, NEW cmd \in Cmds,
             ApplyNotLeader(d, n) \/ ApplyBegin(d, n, cmd)
      PROVE  CallMoves(write[c], write'[c], c)
  <2>1. CASE c # d
    BY <2>1, <1>0, <1>1 DEF ApplyNotLeader, ApplyBegin, CallMoves
  <2>2. CASE c = d /\ ApplyNotLeader(d, n)
    <3>1. /\ write[c].pc = "idle" /\ write'[c].pc = "done" /\ write'[c].code = "NOT_LEADER"
          /\ write'[c].cmd = write[c].cmd
      BY <2>2, <1>0 DEF ApplyNotLeader, WriteCalls
    <3> QED BY <3>1 DEF CallMoves, CallGoesOn
  <2>3. CASE c = d /\ ApplyBegin(d, n, cmd)
    <3>1. /\ write[c].pc = "idle" /\ write'[c].pc = "term"
          /\ write'[c].code = write[c].code /\ write'[c].closure = write[c].closure
      BY <2>3, <1>0 DEF ApplyBegin, WriteCalls
    <3> QED BY <3>1 DEF CallMoves, CallGoesOn
  <2> QED BY <2>1, <2>2, <2>3, <1>1
<1>2. ASSUME NEW d \in Writers, NEW n \in Nodes, ReadLeaderTerm(d, n)
      PROVE  CallMoves(write[c], write'[c], c)
  <2>1. CASE c # d
    BY <2>1, <1>0, <1>2 DEF ReadLeaderTerm, CallMoves
  <2>2. CASE c = d
    BY <2>2, <1>0, <1>2 DEF ReadLeaderTerm, CallMoves, CallGoesOn, WriteCalls
  <2> QED BY <2>1, <2>2
<1>3. ASSUME NEW d \in Writers, NEW n \in Nodes, ApplyTask(d, n)
      PROVE  CallMoves(write[c], write'[c], c)
  <2> DEFINE accepted == Leads(n) /\ write[d].expected \in {-1, role[n]}
  <2>0. /\ write[d].pc = "apply"
        /\ write' = [write EXCEPT ![d].pc = "wait", ![d].expected = -1,
                                ![d].failed = ~accepted,
                                ![d].closure = IF accepted THEN "held" ELSE "due"]
    BY <1>3 DEF ApplyTask
  <2> HIDE DEF accepted
  <2>1. CASE c # d
    BY <2>1, <2>0, <1>0 DEF CallMoves
  <2>2. CASE c = d /\ accepted
    <3>1. /\ write'[c].pc = "wait" /\ write'[c].closure = "held" /\ ~write'[c].failed
          /\ write'[c].code = write[c].code /\ write'[c].cmd = write[c].cmd
      BY <2>0, <2>2, <1>0 DEF WriteCalls
    <3> QED BY <3>1, <2>0, <2>2 DEF CallMoves, CallGoesOn
  <2>3. CASE c = d /\ ~accepted
    <3>1. /\ write'[c].pc = "wait" /\ write'[c].closure = "due" /\ write'[c].failed
          /\ write'[c].code = write[c].code /\ write'[c].cmd = write[c].cmd
      BY <2>0, <2>3, <1>0 DEF WriteCalls
    <3> QED BY <3>1, <2>0, <2>3 DEF CallMoves, CallGoesOn
  <2> QED BY <2>1, <2>2, <2>3
<1>4. ASSUME NEW d \in Writers, Run(d)
      PROVE  CallMoves(write[c], write'[c], c)
  <2>1. CASE c # d
    BY <2>1, <1>0, <1>4 DEF Run, CallMoves
  <2>2. CASE c = d
    BY <2>2, <1>0, <1>4 DEF Run, CallMoves, ClosureRuns, WriteCalls
  <2> QED BY <2>1, <2>2
<1>5. ASSUME NEW d \in Writers, ApplyReturn(d)
      PROVE  CallMoves(write[c], write'[c], c)
  <2> DEFINE w == [NewWrite EXCEPT !.pc = "done", !.cmd = write[d].cmd, !.code = write[d].code]
  <2>0. write' = [write EXCEPT ![d] = w] /\ write[d].pc = "wait" /\ write[d].done
    BY <1>5 DEF ApplyReturn
  <2>1. w.pc = "done" /\ w.cmd = write[d].cmd /\ w.code = write[d].code /\ w.closure = "none"
    BY NewWriteType DEF WriteCalls
  <2> HIDE DEF w
  <2>2. CASE c # d
    BY <2>2, <2>0, <1>0 DEF CallMoves
  <2>3. CASE c = d
    BY <2>3, <2>0, <2>1, <1>0 DEF CallMoves, CallGoesOn
  <2> QED BY <2>2, <2>3
<1>6. ASSUME NEW n \in Nodes, StepDown(n)
      PROVE  CallMoves(write[c], write'[c], c)
  <2>1. \/ write'[c] = write[c]
        \/ /\ write[c].closure = "held"
           /\ write'[c] = [write[c] EXCEPT !.closure = "due", !.failed = TRUE]
    BY <1>6 DEF StepDown
  <2> QED BY <2>1, <1>0 DEF CallMoves, ClosureFails, Keeps, WriteCalls
<1>7. ASSUME NEW n \in Nodes, NEW ok \in {TRUE, ~StoreMayFail}, on_apply(n, ok)
      PROVE  CallMoves(write[c], write'[c], c)
  <2> DEFINE d   == chosen[applied[n] + 1].call
             res == ApplyCmdToStore(store[n], write[d].cmd, ok)
  <2>0. /\ applied[n] < commit[n]
        /\ \/ write' = write
           \/ d # NoOp /\ write[d].closure = "held" /\ write' = Finished(d, res.code)
    BY <1>7 DEF on_apply
  <2>1. CASE write' = write
    BY <2>1 DEF CallMoves
  <2>2. CASE d # NoOp /\ write[d].closure = "held" /\ write' = Finished(d, res.code)
    <3> HIDE DEF d
    <3>1. CASE c # d
      BY <3>1, <2>2, <1>0 DEF CallMoves, Finished
    <3>2. CASE c = d
      <4> DEFINE code == res.code
      <4>1. res = ApplyCmdToStore(store[n], write[c].cmd, ok) /\ chosen[applied[n] + 1].call = c
        BY <3>2 DEF d
      <4> HIDE DEF res
      <4>2. /\ write'[c].closure = "due" /\ write'[c].code = code
            /\ Keeps(write[c], write'[c])
        BY <3>2, <2>2, <1>0 DEF Finished, WriteCalls, Keeps
      <4>3. ClosureFinished(write[c], write'[c], c, n, ok)
        BY <4>1, <4>2, <3>2, <2>0, <2>2 DEF ClosureFinished
      <4> QED BY <4>3 DEF CallMoves
    <3> QED BY <3>1, <3>2
  <2> QED BY <2>0, <2>1, <2>2
<1>8. ASSUME write' = write PROVE CallMoves(write[c], write'[c], c)
  BY <1>8 DEF CallMoves
<1>9. ASSUME NEW n \in Nodes, NodeStep(n) PROVE CallMoves(write[c], write'[c], c)
  <2>1. Elect(n) \/ Choose(n) \/ Commit(n) \/ Follow(n) \/ LeaseRenew(n) \/ LeaseExpire(n)
          \/ on_leader_start(n) \/ on_leader_stop(n) => write' = write
    BY DEF Elect, Choose, Commit, Follow, LeaseRenew, LeaseExpire, on_leader_start,
           on_leader_stop
  <2> QED BY <1>9, <2>1, <1>6, <1>7, <1>8 DEF NodeStep
<1>10. ASSUME NEW d \in Readers, ReaderStep(d) PROVE write' = write
  BY <1>10 DEF ReaderStep, WaitLeaderLease, GetRefused, WaitAppliedCatchUp, CatchUpTimeout,
               ReadStore, Goto, GetFails
<1>11. ASSUME NEW d \in Readers, NEW n \in Nodes, NEW key \in ReadKeys,
              NEW serializable \in BOOLEAN, GetBegin(d, n, key, serializable)
       PROVE  write' = write
  BY <1>11 DEF GetBegin
<1>12. UNCHANGED vars => write' = write
  BY DEF vars
<1>13. ASSUME NEW d \in Writers, WriterStep(d) PROVE CallMoves(write[c], write'[c], c)
  BY <1>13, <1>2, <1>3, <1>4, <1>5 DEF WriterStep
<1> QED BY <1>1, <1>8, <1>9, <1>10, <1>11, <1>12, <1>13 DEF Next

\* Which steps change a log, or what is chosen.
LEMMA LogMoves ==
  ASSUME [Next]_vars
  PROVE  \/ UNCHANGED <<log, chosen>>
         \/ \E n \in Nodes : Elect(n) \/ Choose(n)
         \/ \E c \in Writers, n \in Nodes : ApplyTask(c, n)
<1>1. \A n \in Nodes : Commit(n) \/ Follow(n) \/ StepDown(n) \/ LeaseRenew(n)
                         \/ LeaseExpire(n) \/ on_leader_start(n) => UNCHANGED <<log, chosen>>
  BY DEF Commit, Follow, StepDown, LeaseRenew, LeaseExpire, on_leader_start
<1>2. UNCHANGED braft => UNCHANGED <<log, chosen>>
  BY DEF braft
<1> QED BY <1>1, <1>2, BraftMoves

\* A call that is in no log yet stays out of all logs unless it hands its task over.
Unlogged(w) == w.pc \in {"idle", "term", "apply"} \/ w.code = "NOT_LEADER"

InNoLog(c) == NotIn(c, chosen) /\ \A n \in Nodes : NotIn(c, log[n])

\* Nothing is in the log twice.
LEMMA OnceStep ==
  ASSUME RaftType, TermInv, LeaderInv, OnceInv, [Next]_vars
  PROVE  OnceInv'
<1>0. log \in [Nodes -> Seq(Entries)] /\ chosen \in Seq(Entries) /\ NoOp \notin Writers
  BY RaftAssumption DEF RaftType, BraftType
<1>1. \A c \in Writers : Unlogged(write[c]) => InNoLog(c)
  BY DEF OnceInv, Unlogged, InNoLog
<1>2. \A c \in Writers : Unlogged(write'[c]) => Unlogged(write[c])
  <2> SUFFICES ASSUME NEW c \in Writers, Unlogged(write'[c]), ~Unlogged(write[c])
               PROVE  FALSE
    OBVIOUS
  <2>1. write[c].pc \in {"wait", "done"} /\ write[c].code # "NOT_LEADER"
    BY DEF Unlogged, RaftType, WriteType, WriteCalls
  <2>2. write[c].closure # "none" => write[c].pc = "wait"
    BY DEF RaftType, WriteType
  <2>3. ASSUME NEW n \in Nodes, NEW ok
        PROVE  ~ClosureFinished(write[c], write'[c], c, n, ok)
    <3>1. IsStore(store[n]) /\ write[c].cmd \in Commands
      BY DEF RaftType, FsmType, WriteType, WriteCalls
    <3>2. ApplyCmdToStore(store[n], write[c].cmd, ok).code # "NOT_LEADER"
      BY <3>1, ApplyIsStore
    <3> QED BY <3>2, <2>1 DEF ClosureFinished, Keeps, Unlogged
  <2>4. CallMoves(write[c], write'[c], c)
    BY CallStep
  <2> QED BY <2>1, <2>2, <2>3, <2>4 DEF CallMoves, ClosureFails, ClosureRuns, CallGoesOn,
                                      Keeps, Unlogged
<1>3. ASSUME UNCHANGED <<log, chosen>> PROVE OnceInv'
  BY <1>1, <1>2, <1>3 DEF OnceInv, Unlogged, InNoLog
<1>4. ASSUME NEW n \in Nodes, Elect(n) PROVE OnceInv'
  <2> DEFINE e == [term |-> term', call |-> NoOp]
  <2>1. PICK l \in Seq(Entries) :
          /\ log' = [log EXCEPT ![n] = Append(l, e)] /\ log'[n] = Append(l, e)
          /\ e \in Entries
          /\ l = chosen \/ \E m \in Nodes : Begins(l, log[m])
    BY <1>4, ElectLog
  <2>2. e.call = NoOp
    OBVIOUS
  <2>3. Once(l) /\ \A c \in Writers : InNoLog(c) => NotIn(c, l)
    BY <2>1, <1>0, BeginningOf DEF OnceInv, InNoLog
  <2> HIDE DEF e
  <2>4. Once(log'[n]) /\ \A c \in Writers : InNoLog(c) => NotIn(c, log'[n])
    BY <2>1, <2>2, <2>3, <1>0, AppendOnce
  <2>5. \A m \in Nodes : m # n => log'[m] = log[m]
    BY <2>1, <1>0
  <2>6. chosen' = chosen
    BY <1>4 DEF Elect
  <2> QED BY <2>4, <2>5, <2>6, <1>1, <1>2 DEF OnceInv, Unlogged, InNoLog
<1>5. ASSUME NEW n \in Nodes, Choose(n) PROVE OnceInv'
  <2>1. log' = log /\ chosen' \in Seq(Entries) /\ Begins(chosen', log[n])
    BY <1>5, ChooseLog
  <2>2. Once(chosen') /\ \A c \in Writers : InNoLog(c) => NotIn(c, chosen')
    BY <2>1, <1>0, BeginningOf DEF OnceInv, InNoLog
  <2> QED BY <2>1, <2>2, <1>1, <1>2 DEF OnceInv, Unlogged, InNoLog
<1>6. ASSUME NEW d \in Writers, NEW n \in Nodes, ApplyTask(d, n) PROVE OnceInv'
  <2> DEFINE e == [term |-> role[n], call |-> d]
  <2>1. /\ chosen' = chosen /\ write[d].pc = "apply"
        /\ (log' = log \/ (Leads(n) /\ log' = [log EXCEPT ![n] = Append(@, e)]))
    BY <1>6 DEF ApplyTask
  <2>2. CASE log' = log
    BY <2>1, <2>2, <1>3
  <2>3. CASE Leads(n) /\ log' = [log EXCEPT ![n] = Append(@, e)]
    <3>1. e \in Entries /\ log[n] \in Seq(Entries) /\ e.call = d
      <4>1. role[n] \in Nat \ {0} /\ log[n] \in Seq(Entries)
        BY <2>3, <1>0 DEF Leads, RaftType, BraftType
      <4> QED BY <4>1 DEF Entries
    <3>2. NotIn(d, log[n]) /\ Once(log[n])
      BY <2>1, <1>1 DEF Unlogged, InNoLog, OnceInv
    <3> HIDE DEF e
    <3>3. log'[n] = Append(log[n], e) /\ \A m \in Nodes : m # n => log'[m] = log[m]
      BY <2>3, <1>0
    <3>4. Once(log'[n]) /\ \A c \in Writers : c # d /\ InNoLog(c) => NotIn(c, log'[n])
      BY <3>1, <3>2, <3>3, AppendOnce DEF InNoLog
    <3>5. ~Unlogged(write'[d])
      <4>1. write[d] \in WriteCalls /\ write \in [Writers -> WriteCalls]
            /\ write[d].code = "OK"
        BY <2>1 DEF RaftType, WriteType, Fresh
      <4>2. write'[d].pc = "wait" /\ write'[d].code = write[d].code
        BY <1>6, <4>1 DEF ApplyTask, WriteCalls
      <4> QED BY <4>1, <4>2 DEF Unlogged
    <3> QED BY <2>1, <3>3, <3>4, <3>5, <1>1, <1>2 DEF OnceInv, Unlogged, InNoLog
  <2> QED BY <2>1, <2>2, <2>3
<1> QED BY <1>3, <1>4, <1>5, <1>6, LogMoves

-----------------------------------------------------------------------------
(* What the chosen entries make of a store. *)

\* The commands of a log, for calls w.
CommandsIn(l, w) ==
  [i \in DOMAIN l |-> IF l[i].call = NoOp THEN [op |-> "Unknown"] ELSE w[l[i].call].cmd]

\* Outcomes, with what it depends on as parameters.
LEMMA OutcomesAre == Outcomes = Executed(CommandsIn(chosen, write))
BY DEF Outcomes, CommandsOf, CommandsIn

\* The outcome of an entry depends on the entries up to it only, and on their
\* commands.
LEMMA OutcomesAgree ==
  ASSUME NEW l \in Seq(Entries), NEW m \in Seq(Entries), Begins(l, m), NEW v, NEW w,
         \A i \in 1..Len(l) : l[i].call # NoOp => v[l[i].call].cmd = w[l[i].call].cmd
  PROVE  \A i \in 0..Len(l) : Executed(CommandsIn(l, v))[i] = Executed(CommandsIn(m, w))[i]
<1> SUFFICES ASSUME NEW i \in 0..Len(l)
             PROVE  Executed(CommandsIn(l, v))[i] = Executed(CommandsIn(m, w))[i]
  OBVIOUS
<1> DEFINE cs == CommandsIn(l, v)
           ds == CommandsIn(m, w)
<1>1. /\ DOMAIN l = 1..Len(l) /\ Len(l) \in Nat /\ DOMAIN m = 1..Len(m) /\ Len(m) \in Nat
      /\ i \in Nat /\ i <= Len(l) /\ Len(l) <= Len(m)
  BY DEF Begins
<1>2. ASSUME NEW j \in 1..i PROVE cs[j] = ds[j]
  <2>1. j \in 1..Len(l) /\ j \in 1..Len(m) /\ m[j] = l[j]
    BY <1>1 DEF Begins
  <2>2. cs[j] = IF l[j].call = NoOp THEN [op |-> "Unknown"] ELSE v[l[j].call].cmd
    BY <1>1, <2>1 DEF CommandsIn
  <2>3. ds[j] = IF m[j].call = NoOp THEN [op |-> "Unknown"] ELSE w[m[j].call].cmd
    BY <1>1, <2>1 DEF CommandsIn
  <2> QED BY <2>1, <2>2, <2>3
<1> HIDE DEF cs, ds
<1>3. Executed(cs)[i] = Executed(ds)[i]
  BY <1>1, <1>2, ExecutedAgrees
<1> QED BY <1>3 DEF cs, ds

\* The command of a call in a log does not change any more.
LEMMA OutcomesStay ==
  ASSUME RaftType, LeaderInv, OnceInv, [Next]_vars
  PROVE  \A i \in 0..Len(chosen) : Outcomes'[i] = Outcomes[i]
<1>1. chosen \in Seq(Entries) /\ chosen' \in Seq(Entries)
  BY NextType DEF RaftType, BraftType
<1>2. Begins(chosen, chosen')
  BY ChosenGrows
<1>3. ASSUME NEW i \in 1..Len(chosen), chosen[i].call # NoOp
      PROVE  write[chosen[i].call].cmd = write'[chosen[i].call].cmd
  <2> DEFINE c == chosen[i].call
  <2>1. chosen[i] \in Entries
    BY <1>1
  <2>2. c \in Writers
    BY <2>1, <1>3 DEF Entries
  <2>3. write[c].pc # "idle"
    BY <2>2 DEF OnceInv, NotIn
  <2>4. CallMoves(write[c], write'[c], c)
    BY <2>2, CallStep
  <2> HIDE DEF c
  <2>5. write[c].cmd = write'[c].cmd
    BY <2>3, <2>4 DEF CallMoves, ClosureFails, ClosureFinished, ClosureRuns, CallGoesOn, Keeps
  <2> QED BY <2>5 DEF c
<1>4. \A i \in 0..Len(chosen) : Executed(CommandsIn(chosen, write))[i] =
                                  Executed(CommandsIn(chosen', write'))[i]
  BY <1>1, <1>2, <1>3, OutcomesAgree
<1>5. Outcomes = Executed(CommandsIn(chosen, write))
      /\ Outcomes' = Executed(CommandsIn(chosen', write'))
  BY DEF Outcomes, CommandsOf, CommandsIn
<1> QED BY <1>4, <1>5

\* The next outcome.
LEMMA NextOutcome ==
  ASSUME RaftType, NEW i \in 1..Len(chosen)
  PROVE  LET c == chosen[i].call
         IN  /\ c = NoOp => Outcomes[i].store = Outcomes[i - 1].store
             /\ c # NoOp => Outcomes[i] = ApplyCmdToStore(Outcomes[i - 1].store, write[c].cmd, TRUE)
<1> DEFINE c  == chosen[i].call
           cs == CommandsIn(chosen, write)
<1>1. chosen \in Seq(Entries) /\ DOMAIN chosen = 1..Len(chosen) /\ Len(chosen) \in Nat
      /\ \A j \in 1..Len(chosen) : chosen[j] \in Entries
  BY DEF RaftType, BraftType
<1>2. \A j \in 1..Len(chosen) : cs[j] = IF chosen[j].call = NoOp THEN [op |-> "Unknown"]
                                        ELSE write[chosen[j].call].cmd
  BY <1>1 DEF CommandsIn
<1>3. [op |-> "Unknown"] \in Commands
  BY DEF Commands
<1>4. \A d \in Writers : write[d].cmd \in Commands
  BY DEF RaftType, WriteType, WriteCalls
<1>5. \A j \in 1..Len(chosen) : chosen[j].call \in Writers \cup {NoOp}
  BY <1>1 DEF Entries
<1>6. \A j \in 1..Len(chosen) : cs[j] \in Commands
  BY <1>2, <1>3, <1>4, <1>5
<1> HIDE DEF cs
<1>7. i - 1 \in Nat /\ (i - 1) + 1 = i /\ \A j \in 1..(i - 1) : j \in 1..Len(chosen)
  BY <1>1
<1>8. Executed(cs)[i] = ApplyCmdToStore(Executed(cs)[i - 1].store, cs[i], TRUE)
  BY <1>7, ExecutedStep
<1>9. IsStore(Executed(cs)[i - 1].store)
  BY <1>6, <1>7, ExecutedIsStore
<1>10. Outcomes = Executed(cs)
  BY OutcomesAre DEF cs
<1>11. CASE c = NoOp
  <2>1. cs[i] = [op |-> "Unknown"]
    BY <1>2, <1>11
  <2>2. Executed(cs)[i].store = Executed(cs)[i - 1].store
    BY <2>1, <1>8, <1>9, UnknownIsRefused
  <2> QED BY <2>2, <1>10, <1>11
<1>12. CASE c # NoOp
  <2>1. cs[i] = write[c].cmd
    BY <1>2, <1>12
  <2> QED BY <2>1, <1>8, <1>10, <1>12
<1> QED BY <1>11, <1>12

-----------------------------------------------------------------------------
(* How a call of Apply ends. *)

\* What is committed with an outcome stays so.
LEMMA CommittedStays ==
  ASSUME RaftType, LeaderInv, OnceInv, [Next]_vars, NEW c \in Writers, Committed(c),
         write'[c].code = write[c].code
  PROVE  Committed(c)'
<1>0. /\ chosen \in Seq(Entries) /\ chosen' \in Seq(Entries) /\ Len(chosen) \in Nat
      /\ Len(chosen') \in Nat /\ commit \in [Nodes -> Nat] /\ commit' \in [Nodes -> Nat]
  BY NextType DEF RaftType, BraftType
<1>1. PICK i \in 1..Len(chosen) : /\ chosen[i].call = c
                                  /\ \E m \in Nodes : i <= commit[m]
                                  /\ StoreMayFail \/ Outcomes[i].code = write[c].code
  BY DEF Committed
<1>2. Begins(chosen, chosen') /\ \A n \in Nodes : commit[n] <= commit'[n]
  BY ChosenGrows
<1>3. i \in 1..Len(chosen') /\ chosen'[i] = chosen[i]
  BY <1>0, <1>2 DEF Begins
<1>4. Outcomes'[i] = Outcomes[i]
  <2>1. i \in 0..Len(chosen)
    BY <1>0
  <2> QED BY <2>1, OutcomesStay
<1>5. PICK m \in Nodes : i <= commit[m]
  BY <1>1
<1>6. i <= commit'[m]
  BY <1>5, <1>2, <1>0
<1> QED BY <1>1, <1>3, <1>4, <1>6 DEF Committed

\* on_apply gives the closure the outcome that a single store has.
LEMMA FinishedIsCommitted ==
  ASSUME RaftType, LeaderInv, OnceInv, StoreInv, [Next]_vars, NEW c \in Writers,
         NEW n \in Nodes, NEW ok \in {TRUE, ~StoreMayFail},
         ClosureFinished(write[c], write'[c], c, n, ok)
  PROVE  Committed(c)'
<1> DEFINE i == applied[n] + 1
<1>0. /\ chosen \in Seq(Entries) /\ chosen' \in Seq(Entries) /\ Len(chosen) \in Nat
      /\ Len(chosen') \in Nat /\ commit \in [Nodes -> Nat] /\ commit' \in [Nodes -> Nat]
      /\ applied[n] \in Nat /\ commit[n] <= Len(chosen)
  <2>1. RaftType'
    BY NextType
  <2>2. chosen \in Seq(Entries) /\ chosen' \in Seq(Entries)
    BY <2>1 DEF RaftType, BraftType
  <2>3. commit \in [Nodes -> Nat] /\ commit' \in [Nodes -> Nat] /\ commit[n] <= Len(chosen)
    BY <2>1 DEF RaftType, BraftType
  <2>4. applied[n] \in Nat
    BY DEF RaftType, FsmType
  <2> QED BY <2>2, <2>3, <2>4
<1>1. /\ applied[n] < commit[n] /\ chosen[i].call = c
      /\ write'[c].code = ApplyCmdToStore(store[n], write[c].cmd, ok).code
  BY DEF ClosureFinished
<1>2. i \in 1..Len(chosen) /\ i \in 0..Len(chosen) /\ i <= commit[n] /\ i - 1 = applied[n]
  BY <1>0, <1>1
<1>3. Begins(chosen, chosen') /\ commit[n] <= commit'[n]
  BY ChosenGrows
<1>4. i \in 1..Len(chosen') /\ chosen'[i] = chosen[i] /\ i <= commit'[n]
  BY <1>0, <1>2, <1>3 DEF Begins
<1>5. Outcomes'[i] = Outcomes[i]
  BY <1>2, OutcomesStay
<1>6. ASSUME ~StoreMayFail PROVE Outcomes[i].code = write'[c].code
  <2>1. ok = TRUE
    BY <1>6, RaftAssumption
  <2>2. store[n] = Outcomes[i - 1].store
    BY <1>2, <1>6 DEF StoreInv
  <2>3. c # NoOp
    BY RaftAssumption
  <2>4. Outcomes[i] = ApplyCmdToStore(Outcomes[i - 1].store, write[c].cmd, TRUE)
    BY <1>1, <1>2, <2>3, NextOutcome
  <2> QED BY <2>1, <2>2, <2>4, <1>1
<1> HIDE DEF i
<1> QED BY <1>1, <1>4, <1>5, <1>6 DEF Committed

\* A call that ends with an outcome has been committed with it.
LEMMA OutcomeStep ==
  ASSUME RaftType, LeaderInv, OnceInv, StoreInv, OutcomeInv, [Next]_vars
  PROVE  OutcomeInv'
<1> SUFFICES ASSUME NEW c \in Writers
    PROVE  LET w == write'[c]
           IN  /\ w.code = "NOT_LEADER" => w.pc = "done"
               /\ w.pc # "done" /\ w.closure = "held" => ~w.failed /\ w.code = "OK"
               /\ w.pc = "wait" /\ w.closure = "due" =>
                    (w.failed /\ w.code = "OK") \/ Committed(c)'
               /\ w.pc = "wait" /\ w.closure = "none" => w.code = "INTERNAL" \/ Committed(c)'
               /\ w.pc = "done" => w.code \in {"INTERNAL", "NOT_LEADER"} \/ Committed(c)'
  BY DEF OutcomeInv
<1> DEFINE v == write[c]
           w == write'[c]
           K == Committed(c)
<1>0. /\ v.closure \in {"none", "held", "due"}
      /\ v.pc \in {"idle", "term", "apply", "wait", "done"}
      /\ v.closure # "none" => v.pc = "wait" /\ ~v.done
      /\ v.pc \in {"idle", "term", "apply"} => Fresh(v)
  BY DEF RaftType, WriteType, WriteCalls
<1>1. /\ v.code = "NOT_LEADER" => v.pc = "done"
      /\ v.pc # "done" /\ v.closure = "held" => ~v.failed /\ v.code = "OK"
      /\ v.pc = "wait" /\ v.closure = "due" => (v.failed /\ v.code = "OK") \/ K
      /\ v.pc = "wait" /\ v.closure = "none" => v.code = "INTERNAL" \/ K
      /\ v.pc = "done" => v.code \in {"INTERNAL", "NOT_LEADER"} \/ K
  BY DEF OutcomeInv
<1>2. w.code = v.code /\ K => K'
  BY CommittedStays
<1>3. ASSUME NEW n \in Nodes, NEW ok \in {TRUE, ~StoreMayFail}, ClosureFinished(v, w, c, n, ok)
      PROVE  K' /\ w.code # "NOT_LEADER" /\ w.pc = "wait" /\ w.closure = "due"
  <2>1. IsStore(store[n]) /\ write[c].cmd \in Commands
    BY DEF RaftType, FsmType, WriteType, WriteCalls
  <2>2. ApplyCmdToStore(store[n], write[c].cmd, ok).code # "NOT_LEADER"
    BY <2>1, ApplyIsStore
  <2>3. K'
    BY <1>3, FinishedIsCommitted
  <2> QED BY <2>2, <2>3, <1>0, <1>3 DEF ClosureFinished, Keeps
<1>4. CallMoves(v, w, c)
  BY CallStep
<1> DEFINE kept == K'
<1>5. w.code = v.code /\ K => kept
  BY <1>2
<1>6. \A n \in Nodes, ok \in {TRUE, ~StoreMayFail} : ClosureFinished(v, w, c, n, ok) =>
        kept /\ w.code # "NOT_LEADER" /\ w.pc = "wait" /\ w.closure = "due"
  BY <1>3
<1> HIDE DEF v, w, K, kept
<1>7. /\ w.code = "NOT_LEADER" => w.pc = "done"
      /\ w.pc # "done" /\ w.closure = "held" => ~w.failed /\ w.code = "OK"
      /\ w.pc = "wait" /\ w.closure = "due" => (w.failed /\ w.code = "OK") \/ kept
      /\ w.pc = "wait" /\ w.closure = "none" => w.code = "INTERNAL" \/ kept
      /\ w.pc = "done" => w.code \in {"INTERNAL", "NOT_LEADER"} \/ kept
  <2>1. CASE w = v
    BY <2>1, <1>1, <1>5
  <2>2. CASE ClosureFails(v, w)
    BY <2>2, <1>0, <1>1 DEF ClosureFails, Keeps
  <2>3. CASE \E n \in Nodes, ok \in {TRUE, ~StoreMayFail} : ClosureFinished(v, w, c, n, ok)
    BY <2>3, <1>6
  <2>4. CASE ClosureRuns(v, w)
    BY <2>4, <1>0, <1>1, <1>5 DEF ClosureRuns
  <2>5. CASE CallGoesOn(v, w)
    BY <2>5, <1>0, <1>1, <1>5 DEF CallGoesOn, Fresh
  <2> QED BY <2>1, <2>2, <2>3, <2>4, <2>5, <1>4 DEF CallMoves
<1> QED BY <1>7 DEF v, w, K, kept

-----------------------------------------------------------------------------
(* Stores and reads. *)

\* Which steps change a store, or what is applied.
LEMMA FsmMoves ==
  ASSUME [Next]_vars
  PROVE  \/ UNCHANGED <<store, applied>>
         \/ \E n \in Nodes, ok \in {TRUE, ~StoreMayFail} : on_apply(n, ok)
<1>1. UNCHANGED fsm => UNCHANGED <<store, applied>>
  BY DEF fsm
<1>2. CASE UNCHANGED vars
  BY <1>1, <1>2 DEF vars
<1>3. ASSUME NEW n \in Nodes, NodeStep(n)
      PROVE  \/ UNCHANGED <<store, applied>>
             \/ \E ok \in {TRUE, ~StoreMayFail} : on_apply(n, ok)
  <2>1. Elect(n) \/ Choose(n) \/ Commit(n) \/ Follow(n) \/ StepDown(n) \/ LeaseRenew(n)
          \/ LeaseExpire(n) => UNCHANGED fsm
    BY DEF Elect, Choose, Commit, Follow, StepDown, LeaseRenew, LeaseExpire
  <2>2. on_leader_start(n) \/ on_leader_stop(n) => UNCHANGED <<store, applied>>
    BY DEF on_leader_start, on_leader_stop
  <2> QED BY <1>1, <1>3, <2>1, <2>2 DEF NodeStep
<1>4. ASSUME NEW c \in Writers, WriterStep(c) PROVE UNCHANGED fsm
  BY <1>4 DEF WriterStep, ReadLeaderTerm, Run, ApplyReturn, ApplyTask
<1>5. ASSUME NEW c \in Readers, ReaderStep(c) PROVE UNCHANGED fsm
  BY <1>5 DEF ReaderStep, WaitLeaderLease, GetRefused, WaitAppliedCatchUp, CatchUpTimeout,
              ReadStore, Goto, GetFails
<1>6. ASSUME NEW c \in Writers, NEW n \in Nodes, NEW cmd \in Cmds,
             ApplyNotLeader(c, n) \/ ApplyBegin(c, n, cmd)
      PROVE  UNCHANGED fsm
  BY <1>6 DEF ApplyNotLeader, ApplyBegin
<1>7. ASSUME NEW c \in Readers, NEW n \in Nodes, NEW key \in ReadKeys,
             NEW serializable \in BOOLEAN, GetBegin(c, n, key, serializable)
      PROVE  UNCHANGED fsm
  BY <1>7 DEF GetBegin
<1> QED BY <1>1, <1>2, <1>3, <1>4, <1>5, <1>6, <1>7 DEF Next

\* A node never takes back what it has applied.
LEMMA AppliedGrows ==
  ASSUME RaftType, [Next]_vars
  PROVE  \A n \in Nodes : applied[n] <= applied'[n]
<1>1. applied \in [Nodes -> Nat]
  BY DEF RaftType, FsmType
<1>2. ASSUME NEW n \in Nodes, NEW ok, on_apply(n, ok)
      PROVE  applied' = [applied EXCEPT ![n] = @ + 1]
  BY <1>2 DEF on_apply
<1>3. CASE UNCHANGED <<store, applied>>
  BY <1>1, <1>3
<1>4. CASE \E n \in Nodes, ok \in {TRUE, ~StoreMayFail} : on_apply(n, ok)
  <2>1. PICK n \in Nodes : applied' = [applied EXCEPT ![n] = @ + 1]
    BY <1>2, <1>4
  <2> QED BY <1>1, <2>1
<1> QED BY <1>3, <1>4, FsmMoves

\* Every node's store is the one that as many chosen entries lead to.
LEMMA StoreStep ==
  ASSUME RaftType, LeaderInv, OnceInv, StoreInv, [Next]_vars
  PROVE  StoreInv'
<1> SUFFICES ASSUME ~StoreMayFail, NEW m \in Nodes
             PROVE  store'[m] = Outcomes'[applied'[m]].store
  BY DEF StoreInv
<1>0. /\ applied \in [Nodes -> Nat] /\ commit \in [Nodes -> Nat] /\ Len(chosen) \in Nat
      /\ \A n \in Nodes : applied[n] <= commit[n] /\ commit[n] <= Len(chosen)
      /\ DOMAIN store = Nodes
  BY DEF RaftType, FsmType, BraftType
<1>1. \A i \in 0..Len(chosen) : Outcomes'[i] = Outcomes[i]
  BY OutcomesStay
<1>2. store[m] = Outcomes[applied[m]].store /\ applied[m] \in 0..Len(chosen)
  BY <1>0 DEF StoreInv
<1>3. CASE store'[m] = store[m] /\ applied'[m] = applied[m]
  BY <1>1, <1>2, <1>3
<1>4. ASSUME NEW n \in Nodes, NEW ok \in {TRUE, ~StoreMayFail}, on_apply(n, ok)
      PROVE  store'[m] = Outcomes'[applied'[m]].store
  <2> DEFINE c == chosen[applied[n] + 1].call
  <2>0. ok = TRUE
    BY RaftAssumption
  <2>1. /\ applied[n] < commit[n]
        /\ applied' = [applied EXCEPT ![n] = @ + 1]
        /\ \/ c = NoOp /\ store' = store
           \/ c # NoOp /\ store' = [store EXCEPT ![n] =
                                      ApplyCmdToStore(store[n], write[c].cmd, TRUE).store]
    BY <1>4, <2>0 DEF on_apply
  <2>2. CASE n # m
    BY <2>1, <2>2, <1>0, <1>3
  <2>3. CASE n = m
    <3> DEFINE i == applied[m] + 1
    <3>1. i \in 1..Len(chosen) /\ i \in 0..Len(chosen) /\ i - 1 = applied[m] /\ applied'[m] = i
      BY <2>1, <2>3, <1>0
    <3>2. Outcomes'[i] = Outcomes[i]
      BY <3>1, <1>1
    <3>3. CASE c = NoOp
      <4>1. Outcomes[i].store = Outcomes[i - 1].store
        BY <3>1, <3>3, <2>3, NextOutcome
      <4> QED BY <4>1, <3>1, <3>2, <3>3, <2>1, <1>2
    <3>4. CASE c # NoOp
      <4>1. Outcomes[i] = ApplyCmdToStore(Outcomes[i - 1].store, write[c].cmd, TRUE)
        BY <3>1, <3>4, <2>3, NextOutcome
      <4>2. store'[m] = ApplyCmdToStore(store[m], write[c].cmd, TRUE).store
        BY <3>4, <2>1, <2>3, <1>0
      <4> QED BY <4>1, <4>2, <3>1, <3>2, <1>2
    <3> QED BY <3>3, <3>4
  <2> QED BY <2>2, <2>3
<1> QED BY <1>3, <1>4, FsmMoves

\* What a call shows when it ends was committed somewhere.
LEMMA AnsweredStep ==
  ASSUME RaftType, LeaderInv, OnceInv, OutcomeInv, AnsweredInv, [Next]_vars
  PROVE  AnsweredInv'
<1>0. /\ answered \in Nat /\ commit \in [Nodes -> Nat] /\ commit' \in [Nodes -> Nat]
      /\ chosen \in Seq(Entries) /\ Len(chosen) \in Nat
      /\ applied \in [Nodes -> Nat] /\ \A n \in Nodes : applied[n] <= commit[n]
  BY NextType DEF RaftType, BraftType, ReadType, FsmType
<1>1. \A m \in Nodes : commit[m] <= commit'[m]
  BY ChosenGrows
<1>2. ASSUME NEW a \in Nat, NEW m \in Nodes, a <= commit[m] PROVE a <= commit'[m]
  BY <1>0, <1>1, <1>2
<1>3. CASE answered' = answered
  BY <1>2, <1>3, <1>0 DEF AnsweredInv
<1>4. ASSUME NEW a \in Nat, NEW m \in Nodes, a <= commit[m], answered' = Max({answered, a})
      PROVE  AnsweredInv'
  <2>1. answered' = answered \/ answered' = a
    BY <1>0, <1>4, MaxOfTwo
  <2>2. CASE answered' = a
    BY <2>2, <1>2, <1>4 DEF AnsweredInv
  <2> QED BY <2>1, <2>2, <1>3
<1>5. ASSUME NEW c \in Writers, ApplyReturn(c) PROVE AnsweredInv'
  <2>1. /\ write[c].pc = "wait" /\ write[c].done
        /\ answered' = IF write[c].code = "INTERNAL" THEN answered
                       ELSE Max({answered, Position(chosen, c)})
    BY <1>5 DEF ApplyReturn
  <2>2. CASE write[c].code # "INTERNAL"
    <3>1. write[c].closure = "none"
      BY <2>1 DEF RaftType, WriteType, WriteCalls
    <3>2. Committed(c)
      BY <2>1, <2>2, <3>1 DEF OutcomeInv
    <3>3. PICK i \in 1..Len(chosen) : chosen[i].call = c /\ \E m \in Nodes : i <= commit[m]
      BY <3>2 DEF Committed
    <3> DEFINE p == Position(chosen, c)
    <3>4. /\ p \in 0..Len(chosen) /\ \A j \in Occurrences(chosen, c) : j <= p
          /\ p # 0 => p \in Occurrences(chosen, c)
      BY <1>0, PositionIsLast
    <3> HIDE DEF p
    <3>5. i \in Occurrences(chosen, c)
      BY <3>3, <1>0 DEF Occurrences
    <3>6. p \in 1..Len(chosen) /\ chosen[p].call = c
      BY <3>4, <3>5, <1>0 DEF Occurrences
    <3>7. p = i /\ p \in Nat
      BY <3>3, <3>6, <1>0, RaftAssumption DEF OnceInv, Once
    <3>8. answered' = Max({answered, p})
      BY <2>1, <2>2 DEF p
    <3> QED BY <3>3, <3>7, <3>8, <1>4
  <2> QED BY <2>1, <2>2, <1>3
<1>6. ASSUME NEW c \in Readers, ReaderStep(c) PROVE AnsweredInv'
  <2>1. ASSUME NEW n \in Nodes, NEW key \in ReadKeys, ReadStore(c, n, key) PROVE AnsweredInv'
    <3>1. answered' = Max({answered, applied[n]})
      BY <2>1 DEF ReadStore
    <3> QED BY <3>1, <1>0, <1>4
  <2>2. ASSUME NEW n \in Nodes, WaitLeaderLease(c, n) \/ GetRefused(c, n)
                                  \/ WaitAppliedCatchUp(c, n) \/ CatchUpTimeout(c, n)
        PROVE  answered' = answered
    BY <2>2 DEF WaitLeaderLease, GetRefused, WaitAppliedCatchUp, CatchUpTimeout, Goto, GetFails
  <2> QED BY <1>3, <1>6, <2>1, <2>2 DEF ReaderStep
<1>7. ASSUME NEW c \in Writers, WriterStep(c) PROVE AnsweredInv'
  <2>1. Run(c) \/ (\E n \in Nodes : ReadLeaderTerm(c, n) \/ ApplyTask(c, n)) =>
          answered' = answered
    BY DEF Run, ReadLeaderTerm, ApplyTask
  <2> QED BY <1>3, <1>5, <1>7, <2>1 DEF WriterStep
<1>8. ASSUME NEW n \in Nodes, NodeStep(n) PROVE answered' = answered
  BY <1>8 DEF NodeStep, Elect, Choose, Commit, Follow, StepDown, LeaseRenew, LeaseExpire,
              on_leader_start, on_leader_stop, on_apply
<1>9. ASSUME NEW c \in Writers, NEW n \in Nodes, NEW cmd \in Cmds,
             ApplyNotLeader(c, n) \/ ApplyBegin(c, n, cmd)
      PROVE  answered' = answered
  BY <1>9 DEF ApplyNotLeader, ApplyBegin
<1>10. ASSUME NEW c \in Readers, NEW n \in Nodes, NEW key \in ReadKeys,
              NEW serializable \in BOOLEAN, GetBegin(c, n, key, serializable)
       PROVE  answered' = answered
  BY <1>10 DEF GetBegin
<1>11. UNCHANGED vars => answered' = answered
  BY DEF vars
<1> QED BY <1>3, <1>6, <1>7, <1>8, <1>9, <1>10, <1>11 DEF Next

\* A call of Get that does not move: what its node knows and has applied grows,
\* and the outcomes stay.
LEMMA ReadKept ==
  ASSUME RaftType, LeaderInv, OnceInv, [Next]_vars, NEW c \in Readers, ReadOk(c),
         read'[c] = read[c]
  PROVE  ReadOk(c)'
<1> DEFINE r == read[c]
<1>0. /\ r.node \subseteq Nodes /\ r.floor \in Nat /\ r.at \in Nat /\ r.at <= Len(chosen)
      /\ commit \in [Nodes -> Nat] /\ applied \in [Nodes -> Nat] /\ Len(chosen) \in Nat
  BY DEF RaftType, BraftType, FsmType, ReadType, ReadCalls
<1>1. commit' \in [Nodes -> Nat] /\ applied' \in [Nodes -> Nat]
  BY NextType DEF RaftType, BraftType, FsmType
<1>2. \A n \in Nodes : commit[n] <= commit'[n] /\ applied[n] <= applied'[n]
  BY ChosenGrows, AppliedGrows
<1>3. Outcomes'[r.at] = Outcomes[r.at]
  <2>1. r.at \in 0..Len(chosen)
    BY <1>0
  <2> QED BY <2>1, OutcomesStay
<1> HIDE DEF r
<1>4. \A n \in r.node : /\ r.floor <= commit[n] => r.floor <= commit'[n]
                        /\ r.floor <= applied[n] => r.floor <= applied'[n]
  BY <1>0, <1>1, <1>2
<1>5. read[c] = r /\ read'[c] = r
  BY DEF r
<1> QED BY <1>3, <1>4, <1>5 DEF ReadOk

\* GetBegin and the steps of Get up to the read of the store.
LEMMA ReadGoesOn ==
  ASSUME RaftType, TermInv, FirstToKnow, LeaseInv, AnsweredInv, NEW c \in Readers, ReadOk(c),
         NEW n \in Nodes,
         \/ \E key \in ReadKeys, serializable \in BOOLEAN : GetBegin(c, n, key, serializable)
         \/ WaitLeaderLease(c, n) \/ GetRefused(c, n)
         \/ WaitAppliedCatchUp(c, n) \/ CatchUpTimeout(c, n)
  PROVE  ReadOk(c)'
<1>0. /\ read \in [Readers -> ReadCalls] /\ read[c] \in ReadCalls
      /\ read[c].floor \in Nat /\ read[c].floor <= answered /\ answered \in Nat
      /\ commit \in [Nodes -> Nat] /\ applied \in [Nodes -> Nat]
  BY DEF RaftType, BraftType, FsmType, ReadType, ReadCalls
<1>1. ASSUME NEW key \in ReadKeys, NEW serializable \in BOOLEAN,
             GetBegin(c, n, key, serializable)
      PROVE  ReadOk(c)'
  <2>1. /\ read'[c].pc = IF serializable THEN "store" ELSE "lease"
        /\ read'[c].serializable = serializable
    BY <1>0, <1>1, NewReadType DEF GetBegin, ReadCalls
  <2> QED BY <2>1 DEF ReadOk
<1>2. ASSUME NEW code \in {"INTERNAL", "NOT_LEADER"}, GetFails(c, code) PROVE ReadOk(c)'
  <2>1. read'[c].pc = "done" /\ read'[c].code = code
    BY <1>0, <1>2, NewReadType DEF GetFails, ReadCalls
  <2> QED BY <2>1 DEF ReadOk
<1>3. CASE WaitLeaderLease(c, n)
  <2> DEFINE pc == IF lease[n] = "VALID" THEN "catchup" ELSE "refused"
  <2>1. read[c].pc = "lease" /\ read[c].node = {n}
    BY <1>3 DEF WaitLeaderLease
  <2>2. read'[c] = [read[c] EXCEPT !.pc = pc] /\ commit' = commit
    BY <1>0, <1>3 DEF WaitLeaderLease, Goto, braft
  <2>3. /\ read'[c].pc = pc /\ read'[c].node = {n} /\ read'[c].floor = read[c].floor
    BY <2>1, <2>2, <1>0 DEF ReadCalls
  <2>4. CASE lease[n] = "VALID"
    <3>1. read[c].floor <= commit[n]
      <4>1. CASE answered = 0
        BY <4>1, <1>0
      <4>2. CASE answered # 0
        <5>1. PICK m \in Nodes : answered <= commit[m]
          BY <4>2 DEF AnsweredInv
        <5>2. commit[m] <= commit[n]
          BY <2>4, LeaseKnowsAll
        <5> QED BY <5>1, <5>2, <1>0
      <4> QED BY <4>1, <4>2
    <3> QED BY <3>1, <2>2, <2>3, <2>4 DEF ReadOk
  <2>5. CASE lease[n] # "VALID"
    BY <2>3, <2>5 DEF ReadOk
  <2> QED BY <2>4, <2>5
<1>4. CASE WaitAppliedCatchUp(c, n)
  <2>1. read[c].pc = "catchup" /\ read[c].node = {n} /\ applied[n] >= commit[n]
    BY <1>4 DEF WaitAppliedCatchUp
  <2>2. read'[c] = [read[c] EXCEPT !.pc = "store"] /\ applied' = applied
    BY <1>0, <1>4 DEF WaitAppliedCatchUp, Goto, fsm
  <2>3. /\ read'[c].pc = "store" /\ read'[c].node = {n} /\ read'[c].floor = read[c].floor
    BY <2>1, <2>2, <1>0 DEF ReadCalls
  <2>4. read[c].floor <= commit[n]
    BY <2>1 DEF ReadOk
  <2>5. read[c].floor <= applied[n]
    BY <2>1, <2>4, <1>0
  <2> QED BY <2>2, <2>3, <2>5 DEF ReadOk
<1>5. CASE GetRefused(c, n)
  BY <1>2, <1>5 DEF GetRefused
<1>6. CASE CatchUpTimeout(c, n)
  BY <1>2, <1>6 DEF CatchUpTimeout
<1> QED BY <1>1, <1>3, <1>4, <1>5, <1>6

\* The read itself: the store is that of the entries applied so far.
LEMMA ReadAnswers ==
  ASSUME RaftType, LeaderInv, OnceInv, StoreInv, [Next]_vars, NEW c \in Readers, ReadOk(c),
         NEW n \in Nodes, NEW key \in ReadKeys, ReadStore(c, n, key)
  PROVE  ReadOk(c)'
<1> DEFINE got == GetLocked(store[n], key)
<1>0. /\ read \in [Readers -> ReadCalls] /\ read[c] \in ReadCalls
      /\ applied[n] \in Nat /\ applied[n] <= Len(chosen) /\ Len(chosen) \in Nat
  BY DEF RaftType, BraftType, FsmType, ReadType, ReadCalls
<1>1. read[c].pc = "store" /\ read[c].node = {n} /\ read[c].key = {key}
  BY DEF ReadStore
<1>2. read' = [read EXCEPT ![c].pc = "done", ![c].node = {}, ![c].code = got.code,
                           ![c].found = got.found, ![c].at = applied[n]]
  BY DEF ReadStore
<1> HIDE DEF got
<1>3. /\ read'[c].pc = "done" /\ read'[c].node = {} /\ read'[c].code = got.code
      /\ read'[c].found = got.found /\ read'[c].at = applied[n]
      /\ read'[c].floor = read[c].floor /\ read'[c].serializable = read[c].serializable
      /\ read'[c].key = {key}
  BY <1>0, <1>1, <1>2 DEF ReadCalls
<1>4. read[c].serializable \/ read[c].floor <= applied[n]
  BY <1>1 DEF ReadOk
<1>5. Outcomes'[applied[n]] = Outcomes[applied[n]]
  <2>1. applied[n] \in 0..Len(chosen)
    BY <1>0
  <2> QED BY <2>1, OutcomesStay
<1>6. StoreMayFail \/ store[n] = Outcomes[applied[n]].store
  BY DEF StoreInv
<1>7. got = [code |-> got.code, found |-> got.found]
  BY DEF got, GetLocked, Absent, Existed
<1>8. StoreMayFail \/ [code |-> got.code, found |-> got.found] =
                        GetLocked(Outcomes'[applied[n]].store, key)
  BY <1>5, <1>6, <1>7 DEF got
<1> QED BY <1>3, <1>4, <1>8 DEF ReadOk

\* Get: after the lease and the wait, the node has applied what had been shown.
LEMMA ReadStep ==
  ASSUME RaftType, TermInv, LeaderInv, FirstToKnow, LeaseInv, AnsweredInv, OnceInv, StoreInv,
         ReadInv, [Next]_vars
  PROVE  ReadInv'
<1> SUFFICES ASSUME NEW c \in Readers PROVE ReadOk(c)'
  BY DEF ReadInv
<1>0. read \in [Readers -> ReadCalls] /\ ReadOk(c)
  BY DEF RaftType, ReadType, ReadInv
<1>1. CASE read'[c] = read[c]
  BY <1>0, <1>1, ReadKept
<1>2. ASSUME NEW d \in Readers, ReaderStep(d) PROVE ReadOk(c)'
  <2>1. CASE c # d
    <3>1. \A n \in Nodes, key \in ReadKeys : ReadStore(d, n, key) => read'[c] = read[c]
      BY <2>1, <1>0 DEF ReadStore
    <3>2. \A pc : Goto(d, pc) => read'[c] = read[c]
      BY <2>1, <1>0 DEF Goto
    <3>3. \A code : GetFails(d, code) => read'[c] = read[c]
      BY <2>1, <1>0 DEF GetFails
    <3> QED BY <1>1, <1>2, <3>1, <3>2, <3>3 DEF ReaderStep, WaitLeaderLease, GetRefused,
                                               WaitAppliedCatchUp, CatchUpTimeout
  <2>2. CASE c = d
    BY <2>2, <1>0, <1>2, ReadGoesOn, ReadAnswers DEF ReaderStep
  <2> QED BY <2>1, <2>2
<1>3. ASSUME NEW d \in Readers, NEW n \in Nodes, NEW key \in ReadKeys,
             NEW serializable \in BOOLEAN, GetBegin(d, n, key, serializable)
      PROVE  ReadOk(c)'
  <2>1. CASE c # d
    BY <2>1, <1>0, <1>1, <1>3 DEF GetBegin
  <2>2. CASE c = d
    BY <2>2, <1>0, <1>3, ReadGoesOn
  <2> QED BY <2>1, <2>2
<1>4. ASSUME NEW n \in Nodes, NodeStep(n) PROVE read' = read
  BY <1>4 DEF NodeStep, Elect, Choose, Commit, Follow, StepDown, LeaseRenew, LeaseExpire,
              on_leader_start, on_leader_stop, on_apply
<1>5. ASSUME NEW d \in Writers, WriterStep(d) PROVE read' = read
  BY <1>5 DEF WriterStep, ReadLeaderTerm, ApplyTask, Run, ApplyReturn
<1>6. ASSUME NEW d \in Writers, NEW n \in Nodes, NEW cmd \in Cmds,
             ApplyNotLeader(d, n) \/ ApplyBegin(d, n, cmd)
      PROVE  read' = read
  BY <1>6 DEF ApplyNotLeader, ApplyBegin
<1>7. UNCHANGED vars => read' = read
  BY DEF vars
<1> QED BY <1>1, <1>2, <1>3, <1>4, <1>5, <1>6, <1>7 DEF Next

-----------------------------------------------------------------------------
(* The invariant, and what it says of the specification. *)

\* At first nothing is chosen, known or shown.
LEMMA InitInv == Init => RaftInv
<1> SUFFICES ASSUME Init PROVE RaftInv
  OBVIOUS
<1>1. RaftType
  BY InitType
<1>2. /\ chosen = <<>> /\ Len(chosen) = 0 /\ answered = 0
      /\ \A n \in Nodes : /\ role[n] = 0 /\ log[n] = <<>> /\ Len(log[n]) = 0 /\ commit[n] = 0
                          /\ lease[n] = "EXPIRED" /\ applied[n] = 0 /\ store[n] = EmptyStore
  BY DEF Init
<1>3. \A c \in Writers : write[c].pc = "idle" /\ write[c].closure = "none" /\ Fresh(write[c])
  BY NewWriteType DEF Init
<1>4. \A c \in Readers : read[c].pc = "idle"
  BY DEF Init, NewRead
<1>5. TermInv
  BY <1>2 DEF TermInv, Leads, InOrder
<1>6. LeaderInv /\ FirstToKnow /\ LeaseInv /\ AnsweredInv
  BY <1>2 DEF LeaderInv, FirstToKnow, LeaseInv, AnsweredInv, Leads
<1>7. OnceInv
  BY <1>2 DEF OnceInv, Once, NotIn
<1>8. OutcomeInv
  BY <1>3 DEF OutcomeInv, Fresh
<1>9. StoreInv
  <2>1. Outcomes[0] = Unwritten
    BY OutcomesAre, ExecutedIsRun DEF Runs
  <2> QED BY <2>1, <1>2 DEF StoreInv, Unwritten
<1>10. ReadInv
  BY <1>4 DEF ReadInv, ReadOk
<1> QED BY <1>1, <1>5, <1>6, <1>7, <1>8, <1>9, <1>10 DEF RaftInv

\* Every step keeps the invariant.
LEMMA NextInv == RaftInv /\ [Next]_vars => RaftInv'
<1> SUFFICES ASSUME RaftInv, [Next]_vars PROVE RaftInv'
  OBVIOUS
<1>0. /\ RaftType /\ TermInv /\ LeaderInv /\ FirstToKnow /\ LeaseInv /\ AnsweredInv
      /\ OnceInv /\ OutcomeInv /\ StoreInv /\ ReadInv
  BY DEF RaftInv
<1>1. RaftType'
  BY <1>0, NextType
<1>2. TermInv' /\ LeaderInv'
  BY <1>0, TermStep, LeaderStep
<1>3. FirstToKnow' /\ LeaseInv'
  BY <1>0, FirstStep, LeaseStep
<1>4. AnsweredInv'
  BY <1>0, AnsweredStep
<1>5. OnceInv' /\ OutcomeInv'
  BY <1>0, OnceStep, OutcomeStep
<1>6. StoreInv' /\ ReadInv'
  BY <1>0, StoreStep, ReadStep
<1> QED BY <1>1, <1>2, <1>3, <1>4, <1>5, <1>6 DEF RaftInv

\* The inductive invariant holds in every state of the specification.
LEMMA RaftInvariant == Spec => []RaftInv
<1>1. Init => RaftInv
  BY InitInv
<1>2. RaftInv /\ [Next]_vars => RaftInv'
  BY NextInv
<1> QED BY <1>1, <1>2, PTL DEF Spec

\* Every state is well typed, nothing is committed that is not chosen, and no
\* node applies (on_apply) what it does not know to be committed.
THEOREM RaftTypeCorrect == Spec => []TypeOK
<1>1. RaftInv => TypeOK
  <2> SUFFICES ASSUME RaftType PROVE TypeOK
    BY DEF RaftInv
  <2>1. /\ term \in 0..TermBound /\ role \in [Nodes -> 0..term]
        /\ lease \in [Nodes -> {"EXPIRED", "NOT_READY", "VALID"}]
        /\ chosen \in Seq(Entries) /\ \A n \in Nodes : log[n] \in Seq(Entries)
    BY RaftAssumption DEF RaftType, BraftType
  <2>2. leader_term \in [Nodes -> {-1} \cup 1..term]
    BY DEF RaftType, FsmType
  <2>3. \A n \in Nodes : /\ 0 <= applied[n] /\ applied[n] <= commit[n]
                         /\ commit[n] <= Len(chosen) /\ IsStore(store[n])
    BY DEF RaftType, FsmType, BraftType
  <2>4. answered \in 0..Len(chosen)
    BY <2>1 DEF RaftType, ReadType
  <2>5. \A c \in Writers :
          /\ write[c].pc \in {"idle", "term", "apply", "wait", "done"}
          /\ write[c].node \subseteq Nodes
          /\ write[c].pc \in {"term", "apply", "wait"} => write[c].cmd \in Cmds
          /\ write[c].closure \in {"none", "held", "due"}
          /\ write[c].closure # "none" => write[c].pc = "wait" /\ ~write[c].done
    BY DEF RaftType, WriteType, WriteCalls
  <2>6. \A c \in Readers :
          /\ read[c].pc \in {"idle", "lease", "refused", "catchup", "store", "done"}
          /\ read[c].node \subseteq Nodes /\ read[c].key \subseteq ReadKeys
          /\ read[c].at \in 0..Len(chosen) /\ read[c].floor \in 0..answered
    BY <2>1, <2>4 DEF RaftType, ReadType, ReadCalls
  <2> QED BY <2>1, <2>2, <2>3, <2>4, <2>5, <2>6 DEF TypeOK
<1> QED BY <1>1, RaftInvariant, PTL

\* RaftNode::Get: if LevelDB refuses no write, every answer is what a single
\* store gives at some point of the log, and for a linearizable read that point
\* is not before anything that had been shown when the call began.
THEOREM ReadsAreLinearizable ==
  ASSUME ~StoreMayFail
  PROVE  Spec => []ReadsLinearizable
<1>1. RaftInv => ReadsLinearizable
  <2> SUFFICES ASSUME RaftInv, NEW c \in Readers, read[c].pc = "done",
                      read[c].code \in {"OK", "KEY_NOT_FOUND"}
               PROVE  /\ \A key \in read[c].key :
                           [code |-> read[c].code, found |-> read[c].found] =
                             GetLocked(Outcomes[read[c].at].store, key)
                      /\ read[c].serializable \/ read[c].at >= read[c].floor
    BY DEF ReadsLinearizable
  <2>1. ReadOk(c)
    BY DEF RaftInv, ReadInv
  <2>2. read[c].at \in Nat /\ read[c].floor \in Nat
    BY DEF RaftInv, RaftType, ReadType, ReadCalls
  <2> QED BY <2>1, <2>2 DEF ReadOk
<1> QED BY <1>1, RaftInvariant, PTL

\* RaftNode::Apply: if LevelDB refuses no write, a call that is answered with an
\* outcome is in the log exactly once and had this outcome there, and one that
\* is answered NOT_LEADER is in no log.
THEOREM AnswersMatchOutcomes ==
  ASSUME ~StoreMayFail
  PROVE  Spec => []AnswerMatchesOutcome
<1>1. RaftInv => AnswerMatchesOutcome
  <2> SUFFICES ASSUME RaftInv, NEW c \in Writers
               PROVE  /\ Cardinality(Occurrences(chosen, c)) <= 1
                      /\ write[c].pc = "done" /\ write[c].code \notin {"INTERNAL", "NOT_LEADER"}
                           => \E i \in Occurrences(chosen, c) :
                                 Outcomes[i].code = write[c].code
                      /\ write[c].code = "NOT_LEADER" =>
                           \A n \in Nodes : Occurrences(log[n], c) = {}
    BY DEF AnswerMatchesOutcome
  <2>0. /\ DOMAIN chosen = 1..Len(chosen) /\ c # NoOp
        /\ \A n \in Nodes : DOMAIN log[n] = 1..Len(log[n])
    BY RaftAssumption DEF RaftInv, RaftType, BraftType
  <2>1. Cardinality(Occurrences(chosen, c)) <= 1
    <3>1. CASE Occurrences(chosen, c) = {}
      BY <3>1, FS_EmptySet
    <3>2. CASE Occurrences(chosen, c) # {}
      <4>1. PICK i \in 1..Len(chosen) : chosen[i].call = c
        BY <3>2, <2>0 DEF Occurrences
      <4>2. Occurrences(chosen, c) = {i}
        BY <4>1, <2>0 DEF Occurrences, RaftInv, OnceInv, Once
      <4>3. Cardinality({i}) = 1
        BY FS_Singleton
      <4> QED BY <4>2, <4>3
    <3> QED BY <3>1, <3>2
  <2>2. ASSUME write[c].pc = "done", write[c].code \notin {"INTERNAL", "NOT_LEADER"}
        PROVE  \E i \in Occurrences(chosen, c) : Outcomes[i].code = write[c].code
    <3>1. Committed(c)
      BY <2>2 DEF RaftInv, OutcomeInv
    <3>2. PICK i \in 1..Len(chosen) : chosen[i].call = c /\ Outcomes[i].code = write[c].code
      BY <3>1 DEF Committed
    <3> QED BY <3>2, <2>0 DEF Occurrences
  <2>3. ASSUME write[c].code = "NOT_LEADER", NEW n \in Nodes
        PROVE  Occurrences(log[n], c) = {}
    <3>1. NotIn(c, log[n])
      BY <2>3 DEF RaftInv, OnceInv
    <3> QED BY <3>1, <2>0 DEF NotIn, Occurrences
  <2> QED BY <2>1, <2>2, <2>3
<1> QED BY <1>1, RaftInvariant, PTL
=============================================================================
