-------------------------- MODULE MCConcurrentStore --------------------------
(***************************************************************************)
(* Small instances of ConcurrentStore for TLC.                             *)
(***************************************************************************)
EXTENDS ConcurrentStore

CONSTANTS k1, k2, v1, v2

\* Commands of every kind on one key, a batch over both keys that names one of
\* them twice, an empty batch and an unknown command.
AllCmds ==
  {[op |-> "Put", key |-> k1, value |-> v1], [op |-> "Delete", key |-> k1],
   [op |-> "Cas", key |-> k1, expect |-> EmptyStr, value |-> v1],
   [op |-> "Cas", key |-> k1, expect |-> v1, value |-> v2],
   [op |-> "Publish", key |-> k1, value |-> v1],
   [op |-> "Rollback", key |-> k1, target |-> 1],
   [op |-> "Rollback", key |-> k1, target |-> 0],
   [op |-> "BatchPut", puts |-> <<[key |-> k1, value |-> v1],
                                  [key |-> k2, value |-> v1],
                                  [key |-> k1, value |-> v2]>>],
   [op |-> "BatchPut", puts |-> <<>>], [op |-> "Unknown"]}

\* Plain writes on two keys, for replays and compaction.
ReplayCmds ==
  {[op |-> "Put", key |-> k1, value |-> v1], [op |-> "Delete", key |-> k2],
   [op |-> "BatchPut", puts |-> <<[key |-> k1, value |-> v1],
                                  [key |-> k2, value |-> v1]>>]}

AnyKey == {{}}

AnyOrOneKey == {{}, {k1}}
=============================================================================
