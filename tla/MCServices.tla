----------------------------- MODULE MCServices -----------------------------
(***************************************************************************)
(* A small instance of Services for TLC: two keys, one below the other.    *)
(***************************************************************************)
EXTENDS Services

CONSTANTS c1, c2, c3, v1, v2

app == <<"app">>
appdb == <<"app", "db">>

\* What requests name: the keys that are written, and paths with reserved words.
NamedKeys == {app, appdb, <<"app", "cas">>, <<"app", "rollback">>, <<"", "cas">>, <<"batch">>}

Req(via, service, method, path, key, body) ==
  [via |-> via, service |-> service, method |-> method, path |-> path, key |-> key, body |-> body,
   serializable |-> FALSE, version |-> 0]

Value(v) == {[EmptyBody EXCEPT !.value = v]}

Entries(k1, k2) ==
  {[EmptyBody EXCEPT !.entries = <<[key |-> k1, value |-> v1], [key |-> k2, value |-> v2]>>]}

\* Calls of both services' methods by their stubs: these may be sent again.
RpcRequests ==
  {Req("rpc", "kv", "Delete", <<>>, <<>>, {}),
   Req("rpc", "kv", "CompareAndSwap", <<>>, app, {[EmptyBody EXCEPT !.expect = v1, !.value = v2]}),
   Req("rpc", "kv", "BatchPut", <<>>, <<>>, Entries(app, <<>>)),
   Req("rpc", "kv", "Get", <<>>, app, {}),
   Req("rpc", "config", "Publish", <<>>, app, Value(v2)),
   Req("rpc", "config", "GetConfig", <<>>, app, {})}

\* REST requests, some of them with reserved words, without a key or a body.
RestRequests ==
  {Req("rest", "kv", "POST", <<"", "cas">>, <<>>, Value(v1)),
   Req("rest", "kv", "POST", <<"app", "cas">>, <<>>, {}),
   Req("rest", "kv", "POST", <<"batch">>, <<>>, Entries(appdb, app)),
   Req("rest", "kv", "DELETE", app, <<>>, {}),
   Req("rest", "kv", "PUT", app, <<>>, Value(v1)),
   [Req("rest", "kv", "GET", app, <<>>, {}) EXCEPT !.serializable = TRUE],
   Req("rest", "config", "OPTIONS", app, <<>>, {}),
   Req("rest", "config", "DELETE", app, <<>>, {}),
   Req("rest", "config", "POST", <<"app", "rollback">>, <<>>, {[EmptyBody EXCEPT !.target = 1]}),
   [Req("rest", "config", "GET", app, <<>>, {}) EXCEPT !.version = 1]}

\* One client makes any of them, while two others publish.
RequestsOf ==
  [c \in Clients |->
     CASE c = c1 -> RpcRequests \cup RestRequests
       [] c = c2 -> {Req("rest", "config", "POST", app, <<>>, Value(v1))}
       [] c = c3 -> {Req("rest", "config", "POST", appdb, <<>>, Value(v2)),
                     Req("rest", "config", "POST", app, <<>>, Value(v2))}]
==============================================================================
