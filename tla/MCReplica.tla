----------------------------- MODULE MCReplica -----------------------------
(***************************************************************************)
(* Small instances of Replica for TLC.                                     *)
(***************************************************************************)
EXTENDS Replica

CONSTANTS k1, k2, v1, v2

\* Commands that do not depend on what they overwrite.
PlainCmds ==
  {[op |-> "Publish", key |-> k1, value |-> v1],
   [op |-> "BatchPut", puts |-> <<[key |-> k1, value |-> v1],
                                  [key |-> k2, value |-> v1],
                                  [key |-> k1, value |-> v2]>>],
   [op |-> "Delete", key |-> k1]}

\* Two conditional writes of one key.
CasCmds ==
  {[op |-> "Cas", key |-> k1, expect |-> v1, value |-> v2],
   [op |-> "Cas", key |-> k1, expect |-> EmptyStr, value |-> v1]}
=============================================================================
