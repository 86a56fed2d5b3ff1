------------------------------- MODULE Services -------------------------------
(***************************************************************************)
(* Requests from the client to the store and back: the routing and the     *)
(* checks of KVServiceImpl and ConfigServiceImpl (src/server) with         *)
(* rest_util.h, the calls of the node, and the client's channel            *)
(* (src/client), which sends a request again when its connection breaks.   *)
(* The node may be no leader, which refuses a write or a linearizable      *)
(* read, or stop leading while a write waits, which answers INTERNAL and   *)
(* leaves it open whether the write is executed later: see RaftNode.  What *)
(* the store executes it executes at once: see ConcurrentStore.  Requests  *)
(* of the watch and admin services are in WatchHub and Membership.         *)
(* A key, and the path of a REST request, is the sequence of the segments  *)
(* that "/" separates.  A body that is no JSON leaves the fields of its    *)
(* message empty.                                                          *)
(* brpc is external: a request that was sent may be lost, and one whose    *)
(* connection has broken may still be handled, at any later time.          *)
(***************************************************************************)
EXTENDS Store, SequencesExt

CONSTANTS
  Clients,       \* clients with one call each
  Requests,      \* the requests that each of them may make; none reads an empty key
  MaxRetry,      \* max_retry of the channel
  KeepVersions   \* kKeepVersions

ASSUME ServicesAssumption ==
  /\ MaxRetry \in Nat
  /\ KeepVersions \in Nat \ {0}

\* What names nothing: no segment, or nothing before the "/" of "/cas".
EmptyKeys == {<<>>, <<"">>}

Bodies == [value: Values, expect: Values, target: Int,
           entries: Seq([key: Keys \cup EmptyKeys, value: Values])]

\* A REST request of any method and path, or a method of a stub.
IsRequest(r) ==
  /\ r.service \in {"kv", "config"}
  /\ \/ r.via = "rest"
     \/ /\ r.via = "rpc"
        /\ r.method \in IF r.service = "config" THEN {"Publish", "GetConfig", "Rollback"}
                        ELSE {"Put", "Get", "Delete", "BatchPut", "CompareAndSwap"}
  /\ r.path \in Keys \cup EmptyKeys /\ r.key \in Keys \cup EmptyKeys
  /\ Len(r.path) >= 2 => Front(r.path) \in Keys \cup EmptyKeys
  /\ r.body \subseteq Bodies
  /\ r.serializable \in BOOLEAN /\ r.version \in Int

ASSUME RequestsAssumption ==
  /\ Keys \subseteq Seq(STRING) \ EmptyKeys
  /\ \A c \in Clients : \A r \in Requests[c] : IsRequest(r)

VARIABLES
  store,    \* the store of the node
  call,     \* the call of each client
  handler,  \* what became of each time its request was sent
  wrote     \* history: the records that each handler has written

vars == <<store, call, handler, wrote>>

Tries == 1..(MaxRetry + 1)

NoAnswer == [code |-> "none", kvs |-> <<>>, history |-> <<>>]

\* late: the entry was left in the log of a leader that stepped down.
\* cut: history, whether what the handler's first read has found has left cfg/
\* since, by compaction or by a snapshot.
NoHandler == [pc |-> "none", answer |-> NoAnswer, late |-> FALSE, cut |-> FALSE]

\* of is the request, a set of at most one; tries counts how often it was sent.
NewCall == [pc |-> "idle", of |-> {}, tries |-> 0, answer |-> NoAnswer]

Init ==
  /\ store = EmptyStore
  /\ call = [c \in Clients |-> NewCall]
  /\ handler = [c \in Clients |-> [i \in Tries |-> NoHandler]]
  /\ wrote = [c \in Clients |-> [i \in Tries |-> <<>>]]

-----------------------------------------------------------------------------
(* From a request to the call of the node.  The call is a command for Apply, *)
(* a read, or an answer without any call.                                    *)

EmptyBody == [value |-> EmptyStr, expect |-> EmptyStr, target |-> 0, entries |-> <<>>]

\* JsonToProtoMessage, whose result is not looked at.
Body(r) == IF r.body = {} THEN EmptyBody ELSE CHOOSE b \in r.body : TRUE

ResolveKey(r) == IF r.path # <<>> THEN r.path ELSE r.key

\* Mutant: nothing is checked.
AnyKey(key) == TRUE

\* Neither the path "" nor what is left of "/cas" is a key.
IsValidKey(key) == key \notin EmptyKeys

Immediate(code) == [op |-> "Answer", code |-> code]

\* The check of DoPut, DoDelete, DoCAS, DoPublish and DoRollback.
WithKey(key, cmd) == IF IsValidKey(key) THEN cmd ELSE Immediate("INVALID_ARGUMENT")

DoPut(key, value) == WithKey(key, [op |-> "Put", key |-> key, value |-> value])
DoDelete(key) == WithKey(key, [op |-> "Delete", key |-> key])
DoCAS(key, expect, value) ==
  WithKey(key, [op |-> "Cas", key |-> key, expect |-> expect, value |-> value])
DoPublish(key, value) == WithKey(key, [op |-> "Publish", key |-> key, value |-> value])
DoRollback(key, target) == WithKey(key, [op |-> "Rollback", key |-> key, target |-> target])

\* Mutant: entries with an empty key are skipped.
BatchSkippingEmptyKey(entries) ==
  [op |-> "BatchPut", puts |-> SelectSeq(entries, LAMBDA e : IsValidKey(e.key))]

\* One empty key refuses the whole batch.
DoBatchPut(entries) ==
  IF \A i \in DOMAIN entries : IsValidKey(entries[i].key)
  THEN [op |-> "BatchPut", puts |-> entries] ELSE Immediate("INVALID_ARGUMENT")

DoGet(key, serializable) == [op |-> "Get", key |-> key, serializable |-> serializable]
DoGetConfig(key, version) == [op |-> "GetConfig", key |-> key, version |-> version]

EndsWith(path, word) == Len(path) >= 2 /\ Last(path) = word

\* KVServiceImpl::Rest
KVRest(r) ==
  LET b == Body(r)
  IN  CASE r.method = "OPTIONS"    -> Immediate("OK")
        [] r.method = "GET"        -> DoGet(r.path, r.serializable)
        [] r.method = "DELETE"     -> DoDelete(r.path)
        [] r.method # "POST"       -> Immediate("INTERNAL")
        [] EndsWith(r.path, "cas") -> DoCAS(Front(r.path), b.expect, b.value)
        [] r.path = <<"batch">>    -> DoBatchPut(b.entries)
        [] OTHER                   -> DoPut(r.path, b.value)

\* ConfigServiceImpl::Rest
ConfigRest(r) ==
  LET b == Body(r)
  IN  CASE r.method = "OPTIONS"         -> Immediate("OK")
        [] r.method = "GET"             -> DoGetConfig(r.path, r.version)
        [] r.method # "POST"            -> Immediate("INTERNAL")
        [] EndsWith(r.path, "rollback") -> DoRollback(Front(r.path), b.target)
        [] OTHER                        -> DoPublish(r.path, b.value)

\* The methods of KVService
KVRpc(r) ==
  LET b   == Body(r)
      key == ResolveKey(r)
  IN  CASE r.method = "Put"            -> DoPut(key, b.value)
        [] r.method = "Get"            -> DoGet(key, r.serializable)
        [] r.method = "Delete"         -> DoDelete(key)
        [] r.method = "BatchPut"       -> DoBatchPut(b.entries)
        [] r.method = "CompareAndSwap" -> DoCAS(key, b.expect, b.value)

\* and of ConfigService.
ConfigRpc(r) ==
  LET b   == Body(r)
      key == ResolveKey(r)
  IN  CASE r.method = "Publish"   -> DoPublish(key, b.value)
        [] r.method = "GetConfig" -> DoGetConfig(key, r.version)
        [] r.method = "Rollback"  -> DoRollback(key, b.target)

Routed(r) ==
  CASE r.via = "rest" /\ r.service = "kv"     -> KVRest(r)
    [] r.via = "rest" /\ r.service = "config" -> ConfigRest(r)
    [] r.via = "rpc" /\ r.service = "kv"      -> KVRpc(r)
    [] r.via = "rpc" /\ r.service = "config"  -> ConfigRpc(r)

-----------------------------------------------------------------------------
(* The handlers *)

\* The call of the node that the handler of c makes.
NodeCall(c) == Routed(CHOOSE r \in call[c].of : TRUE)

IsWrite(n) == n.op \notin {"Answer", "Get", "GetConfig"}

\* The records a read has found, at most one, as a sequence.
AsSeq(found) == SetToSeq(found)

Answered(c, i, answer) ==
  handler' = [handler EXCEPT ![c][i] = [@ EXCEPT !.pc = "answered", !.answer = answer]]

\* An answer that needs no node.
HandleImmediate(c, i) ==
  /\ handler[c][i].pc = "sent"
  /\ NodeCall(c).op = "Answer"
  /\ Answered(c, i, [NoAnswer EXCEPT !.code = NodeCall(c).code])
  /\ UNCHANGED <<store, call, wrote>>

\* The node is not the leader, or for a read not yet a leader that may answer.
\* Reads that may be stale, and GetConfig, do not ask.
HandleRefused(c, i) ==
  LET n == NodeCall(c)
  IN  /\ handler[c][i].pc = "sent"
      /\ \E code \in IF IsWrite(n) THEN {"NOT_LEADER"}
                     ELSE IF n.op = "Get" /\ ~n.serializable THEN {"NOT_LEADER", "INTERNAL"}
                     ELSE {} :
           Answered(c, i, [NoAnswer EXCEPT !.code = code])
      /\ UNCHANGED <<store, call, wrote>>

\* The batch of a command is written to the store.
Execute(c, i, b) ==
  /\ store' = WriteBatch(store, b)
  /\ wrote' = [wrote EXCEPT ![c][i] = b.kvs]
  /\ UNCHANGED call

\* Apply, and FillResponse with what was written.
HandleWrite(c, i) ==
  LET b == Prepare(store, NodeCall(c))
  IN  /\ handler[c][i].pc = "sent"
      /\ IsWrite(NodeCall(c))
      /\ Execute(c, i, b)
      /\ Answered(c, i, [NoAnswer EXCEPT !.code = b.code, !.kvs = b.kvs])

\* The leader steps down while Apply waits: its closure runs with an error,
HandleStepDown(c, i) ==
  /\ handler[c][i].pc = "sent"
  /\ IsWrite(NodeCall(c))
  /\ handler' = [handler EXCEPT ![c][i] =
       [@ EXCEPT !.pc = "answered", !.answer.code = "INTERNAL", !.late = TRUE]]
  /\ UNCHANGED <<store, call, wrote>>

\* and the next leader has the entry in its log and commits it.
LateCommit(c, i) ==
  /\ handler[c][i].late
  /\ Execute(c, i, Prepare(store, NodeCall(c)))
  /\ handler' = [handler EXCEPT ![c][i].late = FALSE]

HandleGet(c, i) ==
  LET n   == NodeCall(c)
      got == GetLocked(store, n.key)
  IN  /\ handler[c][i].pc = "sent"
      /\ n.op = "Get"
      /\ Answered(c, i, [NoAnswer EXCEPT !.code = got.code, !.kvs = AsSeq(got.found)])
      /\ UNCHANGED <<store, call, wrote>>

\* GetConfig of the node: the value first,
HandleGetConfig(c, i) ==
  LET n   == NodeCall(c)
      got == GetConfigLocked(store, n.key, n.version)
  IN  /\ handler[c][i].pc = "sent"
      /\ n.op = "GetConfig"
      /\ handler' = [handler EXCEPT ![c][i] =
           [@ EXCEPT !.pc = IF got.code = "OK" THEN "history" ELSE "answered",
                     !.answer = [NoAnswer EXCEPT !.code = got.code, !.kvs = AsSeq(got.found)]]]
      /\ UNCHANGED <<store, call, wrote>>

\* A set of records in the order of their versions, as an iterator over cfg/
\* yields those of one key.
ByVersion(recs) ==
  [i \in 1..Cardinality(recs) |->
     CHOOSE h \in recs : Cardinality({x \in recs : x.version < h.version}) = i - 1]

\* Mutant: whatever the prefix cfg/{key}/ finds is taken.
HistoryOfPrefix(s, key) ==
  ByRevision({x \in s.cfg : IsPrefix(key, x.key) /\ ~x.deleted})

\* The prefix cfg/{key}/ also finds the versions of keys below this one.
GetHistoryLocked(s, key) ==
  ByVersion({x \in s.cfg : IsPrefix(key, x.key) /\ x.key = key /\ ~x.deleted})

\* and then, in a read of its own, the history.
HandleGetHistory(c, i) ==
  /\ handler[c][i].pc = "history"
  /\ Answered(c, i, [handler[c][i].answer EXCEPT
                       !.history = GetHistoryLocked(store, NodeCall(c).key)])
  /\ UNCHANGED <<store, call, wrote>>

\* A handler is between its two reads, and s has not what the first has found.
Loses(h, s) == h.pc = "history" /\ h.answer.kvs[1] \notin s.cfg

\* The content of the store becomes s.
Replaced(s) ==
  /\ store' = s
  /\ handler' = [c \in Clients |-> [i \in Tries |->
       [handler[c][i] EXCEPT !.cut = @ \/ Loses(handler[c][i], s)]]]
  /\ UNCHANGED <<call, wrote>>

\* What compaction leaves of a store.
Compacted(s) == CompactionWrite(s, Excess(s.hist, KeepVersions))

\* The compaction loop.
Compaction ==
  /\ Excess(store.hist, KeepVersions) # {}
  /\ Replaced(Compacted(store))

\* A node that follows installs the snapshot of a replica that has executed the
\* same commands and may have compacted its store.
InstallSnapshot ==
  /\ store.revision > 0
  /\ \E s \in {store, Compacted(store)} : Replaced(LoadSnapshot(ExportSnapshot(s)))

-----------------------------------------------------------------------------
(* The client *)

\* The stub is called: the request goes out for the first time.
Call(c, r) ==
  /\ call[c].pc = "idle"
  /\ call' = [call EXCEPT ![c] = [NewCall EXCEPT !.pc = "waiting", !.of = {r}, !.tries = 1]]
  /\ handler' = [handler EXCEPT ![c][1].pc = "sent"]
  /\ UNCHANGED <<store, wrote>>

\* The answer to the last time it was sent arrives.
Reply(c) ==
  LET h == handler[c][call[c].tries]
  IN  /\ call[c].pc = "waiting"
      /\ h.pc = "answered"
      /\ call' = [call EXCEPT ![c].pc = "done", ![c].answer = h.answer]
      /\ UNCHANGED <<store, handler, wrote>>

\* The connection breaks: the channel of an rpc sends the request again.
Retry(c) ==
  /\ call[c].pc = "waiting"
  /\ \E r \in call[c].of : r.via = "rpc"
  /\ call[c].tries <= MaxRetry
  /\ call' = [call EXCEPT ![c].tries = @ + 1]
  /\ handler' = [handler EXCEPT ![c][call[c].tries + 1].pc = "sent"]
  /\ UNCHANGED <<store, wrote>>

\* The timeout, or the last connection breaks: cntl.Failed().
Fail(c) ==
  /\ call[c].pc = "waiting"
  /\ call' = [call EXCEPT ![c].pc = "done", ![c].answer = [NoAnswer EXCEPT !.code = "FAILED"]]
  /\ UNCHANGED <<store, handler, wrote>>

-----------------------------------------------------------------------------

HandlerStep(c, i) ==
  \/ HandleImmediate(c, i)
  \/ HandleRefused(c, i)
  \/ HandleWrite(c, i)
  \/ HandleStepDown(c, i)
  \/ LateCommit(c, i)
  \/ HandleGet(c, i)
  \/ HandleGetConfig(c, i)
  \/ HandleGetHistory(c, i)

Next ==
  \/ \E c \in Clients : \E r \in Requests[c] : Call(c, r)
  \/ \E c \in Clients : Reply(c) \/ Retry(c) \/ Fail(c)
  \/ \E c \in Clients, i \in Tries : HandlerStep(c, i)
  \/ Compaction
  \/ InstallSnapshot

Spec == Init /\ [][Next]_vars

-----------------------------------------------------------------------------
(* Properties *)

Codes == {"none", "OK", "KEY_NOT_FOUND", "VERSION_NOT_FOUND", "CAS_FAILED",
          "INVALID_ARGUMENT", "NOT_LEADER", "INTERNAL", "FAILED"}

\* Types.  Keys has no empty key: nothing is ever stored under one, whichever
\* service, method, path or body it came from.
TypeOK ==
  /\ IsStore(store)
  /\ \A c \in Clients :
       /\ call[c].pc \in {"idle", "waiting", "done"}
       /\ call[c].of \subseteq Requests[c]
       /\ call[c].tries \in 0..(MaxRetry + 1)
       /\ call[c].answer.code \in Codes
       /\ \A i \in Tries :
            /\ wrote[c][i] \in Seq(KVs)
            /\ handler[c][i].pc \in {"none", "sent", "history", "answered"}

Done(c) == call[c].pc = "done" /\ call[c].answer.code # "FAILED"

\* The checks of the services, FillResponse and the channel that sends again: a
\* write is answered with exactly what the handler of its last sending has
\* written, also if an earlier one runs later; after an error that is nothing.
\* Only INTERNAL of the node leaves it open.  Whatever is written, at once, by an
\* earlier sending or by a later leader, is what the request asked for as a whole:
\* of a batch every entry, in its order.
AnswersTrue ==
  \A c \in Clients :
    LET answer == call[c].answer
        n      == NodeCall(c)
        last   == wrote[c][call[c].tries]
    IN  /\ Done(c) /\ n.op \notin {"Get", "GetConfig"} /\ ~(IsWrite(n) /\ answer.code = "INTERNAL")
             => answer.kvs = last /\ (answer.code # "OK" => last = <<>>)
        /\ \A i \in Tries : wrote[c][i] # <<>> /\ n.op = "BatchPut" =>
             \A r \in call[c].of :
               Body(r).entries = [j \in DOMAIN wrote[c][i] |->
                 [key |-> wrote[c][i][j].key, value |-> wrote[c][i][j].value]]

\* GetConfig of the node reads twice: the history that is answered has the
\* versions of this key alone, in their order and each of them as it was written,
\* and the version that is answered is among them if it was published, unless
\* compaction or the snapshot of a replica that compacted has taken it away
\* between the two reads.
ConfigAnswerCoherent ==
  \A c \in Clients : \A i \in Tries :
    LET h    == handler[c][i]
        hist == h.answer.history
        kv   == h.answer.kvs[1]
    IN  h.pc = "answered" /\ NodeCall(c).op = "GetConfig" /\ h.answer.code = "OK" =>
          /\ \A j \in DOMAIN hist :
               /\ hist[j].key = NodeCall(c).key
               /\ \E d \in Clients, k \in Tries : hist[j] \in RecordsOf(wrote[d][k])
               /\ j > 1 => hist[j - 1].version < hist[j].version
          /\ NodeCall(c).version > 0 /\ ~h.cut => kv \in RecordsOf(hist)
==============================================================================
