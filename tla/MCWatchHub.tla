----------------------------- MODULE MCWatchHub -----------------------------
(***************************************************************************)
(* Small instances of WatchHub for TLC.                                    *)
(***************************************************************************)
EXTENDS WatchHub

CONSTANTS k1, k2, v1

\* A deletion, and a batch that changes both keys.
DeleteOrBatch ==
  {[op |-> "Delete", key |-> k1],
   [op |-> "BatchPut", puts |-> <<[key |-> k2, value |-> v1],
                                  [key |-> k1, value |-> v1]>>]}

\* A change of one key.
OnePut == {[op |-> "Put", key |-> k1, value |-> v1]}

AnyFrom == -1..4

AnyKey == {{}}

AnyOrOneKey == {{}, {k1}}
=============================================================================
