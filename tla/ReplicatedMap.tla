---------------------------- MODULE ReplicatedMap ----------------------------
(***************************************************************************)
(* What a cluster promises of the values of its keys, for commands that do *)
(* not depend on what they overwrite (put, publish, delete, batch):        *)
(*   - all replicas execute one log;                                       *)
(*   - what a replica shows is the outcome of a prefix of it;              *)
(*   - it never shows a prefix shorter than one it has had before, but     *)
(*     after a restart or a snapshot it may be recovering for a while, and *)
(*     then nothing is promised of what it shows.                          *)
(* Revisions and versions are not promised: see Replica.                   *)
(***************************************************************************)
EXTENDS Integers, Sequences, FiniteSetsExt

CONSTANTS Nodes, Keys, Cmds

VARIABLES
  log,   \* the commands, in the order they take effect
  at,    \* the prefix each replica has had
  view   \* what each replica shows, per key {} or {value}; {} if it is recovering

\* What a command makes of the keys it names: nothing, or one value.
Effect(cmd) ==
  CASE cmd.op \in {"Put", "Publish"} -> [k \in {cmd.key} |-> {cmd.value}]
    [] cmd.op = "Delete"             -> [k \in {cmd.key} |-> {}]
    [] cmd.op = "BatchPut"           ->
         [k \in {cmd.puts[i].key : i \in DOMAIN cmd.puts} |->
            {cmd.puts[Max({i \in DOMAIN cmd.puts : cmd.puts[i].key = k})].value}]

\* The last of the first i commands that names a key decides.
Outcome(i) ==
  [k \in Keys |->
     LET naming == {j \in 1..i : k \in DOMAIN Effect(log[j])}
     IN  IF naming = {} THEN {} ELSE Effect(log[Max(naming)])[k]]

Init ==
  /\ log = <<>>
  /\ at = [n \in Nodes |-> 0]
  /\ view = [n \in Nodes |-> {Outcome(0)}]

Extend(cmd) ==
  /\ log' = Append(log, cmd)
  /\ UNCHANGED <<at, view>>

Show(n, i) ==
  /\ at' = [at EXCEPT ![n] = i]
  /\ view' = [view EXCEPT ![n] = {Outcome(i)}]
  /\ UNCHANGED log

Recover(n, i) ==
  /\ at' = [at EXCEPT ![n] = i]
  /\ view' = [view EXCEPT ![n] = {}]
  /\ UNCHANGED log

Next ==
  \/ \E cmd \in Cmds : Extend(cmd)
  \/ \E n \in Nodes : \E i \in at[n]..Len(log) : Show(n, i) \/ Recover(n, i)

Spec == Init /\ [][Next]_<<log, at, view>>
=============================================================================
