----------------------------- MODULE MCRaftNode -----------------------------
(***************************************************************************)
(* Small instances of RaftNode for TLC.                                    *)
(***************************************************************************)
EXTENDS RaftNode

CONSTANTS k1, v1, v2

\* A put, and a creation that is refused after it.
PutOrCreate ==
  {[op |-> "Put", key |-> k1, value |-> v1],
   [op |-> "Cas", key |-> k1, expect |-> EmptyStr, value |-> v2]}

OnePut == {[op |-> "Put", key |-> k1, value |-> v1]}

NodeSymmetry == Permutations(Nodes)

CallSymmetry == Permutations(Nodes) \cup Permutations(Writers)
=============================================================================
