------------------------------ MODULE RpcManager ------------------------------
(***************************************************************************)
(* The endpoint of a chain (src/src/services/RpcManager.ts): the row of    *)
(* the database, the configuration loaded from it, the client created from *)
(* the configuration, and the requests that save a row and reload.         *)
(***************************************************************************)
EXTENDS Integers

CONSTANTS
  Savers,   \* requests that save or delete the row
  Urls,     \* endpoints a user may name
  Default,  \* the endpoint of a chain without a row
  Faults    \* what may go wrong: "db", "rpc", "net"

None == 0
Endpoints == Urls \cup {Default}

ASSUME EndpointsAssumption ==
  /\ Faults \subseteq {"db", "rpc", "net"}
  /\ None \notin Savers /\ None \notin Endpoints

VARIABLES
  table,    \* user_rpc_configs
  config,   \* userConfigs
  client,   \* clients
  ready,    \* configsReady: the reload a reader waits for, if one is under way
  save,     \* save[h]: where the request h stands, what it has read, and how
  loaded    \* history: how the load that went live last had read the row

rpcVars == <<table, config, client, ready, save, loaded>>

\* A load reads the row, fails, or reads it before a later save has written it.
Kinds == {"read", "failed", "late"}

Idle == [pc |-> "idle", read |-> Default, kind |-> "read"]

RpcTyped ==
  /\ table \in Endpoints
  /\ config \in Endpoints
  /\ client \in Endpoints \cup {None}
  /\ ready \in Savers \cup {None}
  /\ save \in [Savers -> [pc : {"idle", "load", "swap"}, read : Endpoints, kind : Kinds]]
  /\ loaded \in Kinds

\* A load that has read the row is overtaken by a save.
Late(s) == IF s.pc = "swap" /\ s.kind = "read" THEN [s EXCEPT !.kind = "late"] ELSE s

\* The row is written or deleted, and a reload begins.
Save(h, u) ==
  /\ save[h].pc = "idle"
  /\ table' = u
  /\ save' = [g \in Savers |-> IF g = h THEN [Idle EXCEPT !.pc = "load"] ELSE Late(save[g])]
  /\ ready' = h
  /\ UNCHANGED <<config, client, loaded>>

\* loadUserConfigs reads into a map of its own.
Load(h) ==
  /\ save[h].pc = "load"
  /\ save' = [save EXCEPT ![h] = [pc |-> "swap", read |-> table, kind |-> "read"]]
  /\ UNCHANGED <<table, config, client, ready, loaded>>

\* A SELECT that rejects, with its retries, leaves the map empty.
LoadFails(h) ==
  /\ save[h].pc = "load"
  /\ "db" \in Faults
  /\ save' = [save EXCEPT ![h] = [pc |-> "swap", read |-> Default, kind |-> "failed"]]
  /\ UNCHANGED <<table, config, client, ready, loaded>>

\* Faulty: the clients are dropped before the load instead of after it.
SwapKeeps(h) ==
  /\ save[h].pc = "swap"
  /\ config' = save[h].read
  /\ loaded' = save[h].kind
  /\ save' = [save EXCEPT ![h] = Idle]
  /\ ready' = IF ready = h THEN None ELSE ready
  /\ UNCHANGED <<table, client>>

\* The map goes live and the clients go.
Swap(h) ==
  /\ save[h].pc = "swap"
  /\ config' = save[h].read
  /\ loaded' = save[h].kind
  /\ client' = None
  /\ save' = [save EXCEPT ![h] = Idle]
  /\ ready' = IF ready = h THEN None ELSE ready
  /\ UNCHANGED table

\* getClient, after its wait
Client == IF client = None THEN config ELSE client

\* A caller gets the client.
Touch ==
  /\ client' = Client
  /\ UNCHANGED <<table, config, ready, save, loaded>>

\* The server has started, and its first load has read the row or failed.
RpcInit ==
  /\ table \in Endpoints
  /\ \/ config = table /\ loaded = "read"
     \/ "db" \in Faults /\ config = Default /\ loaded = "failed"
  /\ client = None /\ ready = None
  /\ save = [h \in Savers |-> Idle]

Loads(h) == Load(h) \/ LoadFails(h)
=============================================================================
