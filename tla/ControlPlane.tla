----------------------------- MODULE ControlPlane -----------------------------
(***************************************************************************)
(* services/control-plane/src/server.ts: the Fastify service that owns the *)
(* peer directory, the VPN node registry and the node tokens.              *)
(*                                                                         *)
(* Every `await prisma...` is one SQL statement and one step here; no      *)
(* handler uses a transaction, so other handlers run between the           *)
(* statements of a handler.  A handler whose first statement has run       *)
(* occupies one of the Handlers until its last statement, a failed         *)
(* statement or a restart of the service ends it.  A request of a single   *)
(* statement is a single step.  API keys and the shape of bodies are       *)
(* checked before the first statement and change nothing: rejected         *)
(* requests are not steps.                                                 *)
(*                                                                         *)
(* Postgres is modelled by what the schema makes it enforce: primary keys, *)
(* VpnPeer.serverId -> VpnServer (ON DELETE SET NULL) and                  *)
(* VpnMetric.serverId -> VpnServer (ON DELETE CASCADE).                    *)
(***************************************************************************)
EXTENDS PeerDirectory, Integers, FiniteSets

CONSTANTS
  Tokens,      \* values of VpnToken.token
  Bootstrap,   \* CONTROL_PLANE_BOOTSTRAP_TOKEN, or a value outside Tokens
  Handlers,    \* slots for requests in progress: how many overlap
  Faulty,      \* may statements fail and the service restart?
  RegisterBodies  \* the metadata POST /server/register may carry ({}: none)

\* Metadata keys: what a node sends, and what the handler adds to its own copy.
MetaFields == {"region", "fingerprint", "publicIp", "listenPort"}

\* The bodies a node sends: it registers with its region and its IKEv2 fingerprint;
\* a heartbeat has its region and, if it was detected, its address; a node with
\* nothing to say sends no metadata.
NodeBodies == {{}, {"region"}, {"region", "fingerprint"}, {"region", "publicIp"}}

\* A VpnServer row; ip: publicIp is known.
Server == [ip: BOOLEAN, meta: SUBSET MetaFields]

ASSUME ControlPlaneAssumption ==
  /\ Absent \notin Server
  /\ IsFiniteSet(Handlers)
  /\ Faulty \in BOOLEAN
  /\ RegisterBodies \subseteq NodeBodies

VARIABLES
  servers,     \* the VpnServer table
  metrics,     \* servers with a stored VpnMetric row
  tokens,      \* the VpnToken table: absent, active or revoked
  handler,     \* the requests in progress, by slot
  late         \* history: registrations stored since the token was revoked

registry == <<servers, metrics>>
tokenVars == <<tokens, late>>
vars == <<peers, servers, metrics, tokens, handler, late>>

Registered == {s \in Servers : servers[s] # Absent}

Idle == [next |-> "idle"]

\* A request in progress, named after the statement it runs next.
AddPeerRequest == [next: {"createPeer"}, user: Users, key: Keys, server: Pins, auth: Credentials]
DeleteServerRequest == [next: {"clearPins", "deleteRow"}, server: Servers]
RegisterRequest == [next: {"countUsage", "upsertServer"}, token: Tokens,
                    server: Servers, body: RegisterBodies]

HandlerState == {Idle} \cup AddPeerRequest \cup DeleteServerRequest \cup RegisterRequest

(* The tables hold rows of their models, and a request in progress is one that some
   handler of server.ts:135-569 can be in the middle of.                          *)
TypeOK ==
  /\ DirectoryTypeOK
  /\ servers \in [Servers -> Server \cup {Absent}]
  /\ metrics \subseteq Servers
  /\ tokens \in [Tokens -> {"absent", "active", "revoked"}]
  /\ handler \in [Handlers -> HandlerState]
  /\ late \in [Tokens -> Nat]

Finish(h) == handler' = [handler EXCEPT ![h] = Idle]
Continue(h, statement) == handler' = [handler EXCEPT ![h].next = statement]

-----------------------------------------------------------------------------
(* POST /peers *)

\* Mutant: revokes only the user's peers on the server asked for.
AddPeerRevokeOnServer(h, u, k, s, c) ==
  /\ handler[h] = Idle
  /\ Deactivate({q \in ActiveKeysOf(u) : peers[q].server = s})
  /\ handler' = [handler EXCEPT ![h] =
        [next |-> "createPeer", user |-> u, key |-> k, server |-> s, auth |-> c]]
  /\ UNCHANGED <<registry, tokenVars>>

\* First statement: UPDATE every active peer of the user to revoked.
AddPeerRevoke(h, u, k, s, c) ==
  /\ handler[h] = Idle
  /\ Deactivate(ActiveKeysOf(u))
  /\ handler' = [handler EXCEPT ![h] =
        [next |-> "createPeer", user |-> u, key |-> k, server |-> s, auth |-> c]]
  /\ UNCHANGED <<registry, tokenVars>>

\* The INSERT satisfies the primary key and the foreign key.
CanCreate(r) == peers[r.key] = Absent /\ r.server \in Registered \cup {Unpinned}

\* Mutant: an upsert, which revives or reassigns a key that exists.
AddPeerUpsert(h) ==
  LET r == handler[h] IN
  /\ r.next = "createPeer"
  /\ peers' = [peers EXCEPT ![r.key] =
                 [user |-> r.user, server |-> r.server, auth |-> r.auth, active |-> TRUE]]
  /\ Finish(h)
  /\ UNCHANGED <<registry, tokenVars>>

\* Second statement: INSERT the new peer; a violated constraint answers 400 and
\* leaves what the first statement did.
AddPeerCreate(h) ==
  LET r == handler[h] IN
  /\ r.next = "createPeer"
  /\ \/ CanCreate(r) /\ Insert(r.key, r.user, r.server, r.auth)
     \/ ~CanCreate(r) /\ UNCHANGED peers
  /\ Finish(h)
  /\ UNCHANGED <<registry, tokenVars>>

-----------------------------------------------------------------------------
(* POST /peers/revoke-for-user and DELETE /peers/:publicKey *)

RevokeForUser(u) ==
  /\ Deactivate(ActiveKeysOf(u))
  /\ UNCHANGED <<registry, tokenVars, handler>>

\* UPDATE by primary key; an unknown key is an error and no step.
RevokeByKey(k) ==
  /\ k \in Known
  /\ Deactivate({k})
  /\ UNCHANGED <<registry, tokenVars, handler>>

-----------------------------------------------------------------------------
(* DELETE /servers/:id *)

\* findUnique: an unknown server answers 404.
DeleteServerFind(h, s) ==
  /\ handler[h] = Idle
  /\ s \in Registered
  /\ handler' = [handler EXCEPT ![h] = [next |-> "clearPins", server |-> s]]
  /\ UNCHANGED <<peers, registry, tokenVars>>

DeleteServerClearPins(h) ==
  /\ handler[h].next = "clearPins"
  /\ ClearPins(handler[h].server)
  /\ Continue(h, "deleteRow")
  /\ UNCHANGED <<registry, tokenVars>>

\* Mutant: the rows that refer to the server are left alone.
DeleteServerRowOnly(h) ==
  LET s == handler[h].server IN
  /\ handler[h].next = "deleteRow"
  /\ servers' = [servers EXCEPT ![s] = Absent]
  /\ Finish(h)
  /\ UNCHANGED <<peers, metrics, tokenVars>>

\* DELETE of the row: the foreign keys unpin the peers pinned since, and drop the
\* metrics.  A row deleted meanwhile is an error (500) and changes nothing.
DeleteServerRow(h) ==
  LET s == handler[h].server IN
  /\ handler[h].next = "deleteRow"
  /\ \/ /\ s \in Registered
        /\ servers' = [servers EXCEPT ![s] = Absent]
        /\ metrics' = metrics \ {s}
        /\ ClearPins(s)
     \/ s \notin Registered /\ UNCHANGED <<peers, registry>>
  /\ Finish(h)
  /\ UNCHANGED tokenVars

-----------------------------------------------------------------------------
(* POST /server/register: registration and heartbeat of a VPN node *)

\* Mutant: any token that exists will do.
RegisterCheckTokenExists(h, t, s, body) ==
  /\ handler[h] = Idle
  /\ tokens[t] # "absent"
  /\ handler' = [handler EXCEPT ![h] =
        [next |-> "countUsage", token |-> t, server |-> s, body |-> body]]
  /\ UNCHANGED <<peers, registry, tokenVars>>

\* findUnique on the token: an unknown or revoked one answers 401.
RegisterCheckToken(h, t, s, body) ==
  /\ handler[h] = Idle
  /\ tokens[t] = "active"
  /\ handler' = [handler EXCEPT ![h] =
        [next |-> "countUsage", token |-> t, server |-> s, body |-> body]]
  /\ UNCHANGED <<peers, registry, tokenVars>>

\* Mutant: goes on as a request of another kind.
RegisterCountUsageMisrouted(h) ==
  /\ handler[h].next = "countUsage"
  /\ Continue(h, "createPeer")
  /\ UNCHANGED <<peers, registry, tokenVars>>

\* UPDATE of usageCount and lastUsedAt, which nothing else reads.
RegisterCountUsage(h) ==
  /\ handler[h].next = "countUsage"
  /\ Continue(h, "upsertServer")
  /\ UNCHANGED <<peers, registry, tokenVars>>

\* Mutant: publicIp is overwritten by whatever the body has.
UpsertedFromBody(s, body) ==
  LET old == IF s \in Registered THEN servers[s] ELSE [ip |-> FALSE, meta |-> {}] IN
  IF body = {} THEN old
  ELSE [ip |-> "publicIp" \in body, meta |-> body]

\* The row after the upsert: publicIp and metadata keep their value when the body
\* has none.  The handler's own copy of the metadata, which has listenPort, is
\* only used to read publicIp; the body's metadata is what is stored.
Upserted(s, body) ==
  LET old == IF s \in Registered THEN servers[s] ELSE [ip |-> FALSE, meta |-> {}] IN
  IF body = {} THEN old
  ELSE [ip |-> old.ip \/ "publicIp" \in body, meta |-> body]

RegisterUpsertServer(h) ==
  LET r == handler[h] IN
  /\ r.next = "upsertServer"
  /\ servers' = [servers EXCEPT ![r.server] = Upserted(r.server, r.body)]
  /\ late' = [late EXCEPT ![r.token] = IF tokens[r.token] = "revoked" THEN @ + 1 ELSE @]
  /\ Finish(h)
  /\ UNCHANGED <<peers, metrics, tokens>>

-----------------------------------------------------------------------------
(* POST /metrics/vpn: no authentication, but the server must exist. *)
IngestMetric(s) ==
  /\ s \in Registered
  /\ metrics' = metrics \cup {s}
  /\ UNCHANGED <<peers, servers, tokenVars, handler>>

-----------------------------------------------------------------------------
(* POST and DELETE /tokens *)

\* A random value: never one that exists.
CreateToken(t) ==
  /\ t # Bootstrap
  /\ tokens[t] = "absent"
  /\ tokens' = [tokens EXCEPT ![t] = "active"]
  /\ UNCHANGED <<peers, registry, late, handler>>

\* findUnique (404) then UPDATE; rows are never deleted, so nothing can come
\* between the two.
RevokeToken(t) ==
  /\ tokens[t] # "absent"
  /\ tokens' = [tokens EXCEPT ![t] = "revoked"]
  /\ late' = [late EXCEPT ![t] = IF tokens[t] = "active" THEN 0 ELSE @]
  /\ UNCHANGED <<peers, registry, handler>>

-----------------------------------------------------------------------------
(* Failures *)

\* A statement fails (connection lost, pool exhausted): the handler's catch
\* answers an error; the statements before it stay done.
StatementFails(h) ==
  /\ Faulty
  /\ handler[h] # Idle
  /\ Finish(h)
  /\ UNCHANGED <<peers, registry, tokenVars>>

\* ensureBootstrapToken: upsert that activates the token; an error is only logged.
EnsureBootstrap ==
  \/ /\ Bootstrap \in Tokens
     /\ tokens' = [tokens EXCEPT ![Bootstrap] = "active"]
  \/ UNCHANGED tokens

\* The process stops, wherever its handlers are, and buildServer runs again.
Restart ==
  /\ Faulty
  /\ handler' = [h \in Handlers |-> Idle]
  /\ EnsureBootstrap
  /\ UNCHANGED <<peers, registry, late>>

-----------------------------------------------------------------------------
Init ==
  /\ DirectoryInit
  /\ servers = [s \in Servers |-> Absent]
  /\ metrics = {}
  /\ tokens \in {[t \in Tokens |-> IF t = Bootstrap THEN b ELSE "absent"] : b \in {"absent", "active"}}
  /\ handler = [h \in Handlers |-> Idle]
  /\ late = [t \in Tokens |-> 0]

PeerRequest ==
  \/ \E h \in Handlers, u \in Users, k \in Keys, s \in Pins, c \in Credentials : AddPeerRevoke(h, u, k, s, c)
  \/ \E h \in Handlers : AddPeerCreate(h)
  \/ \E u \in Users : RevokeForUser(u)
  \/ \E k \in Keys : RevokeByKey(k)

ServerRequest ==
  \/ \E h \in Handlers, s \in Servers : DeleteServerFind(h, s)
  \/ \E h \in Handlers : DeleteServerClearPins(h) \/ DeleteServerRow(h)
  \/ \E s \in Servers : IngestMetric(s)

NodeRequest ==
  \/ \E h \in Handlers, t \in Tokens, s \in Servers, b \in RegisterBodies : RegisterCheckToken(h, t, s, b)
  \/ \E h \in Handlers : RegisterCountUsage(h) \/ RegisterUpsertServer(h)

TokenRequest == \E t \in Tokens : CreateToken(t) \/ RevokeToken(t)

Failure == Restart \/ \E h \in Handlers : StatementFails(h)

Next == PeerRequest \/ ServerRequest \/ NodeRequest \/ TokenRequest \/ Failure

Spec == Init /\ [][Next]_vars

-----------------------------------------------------------------------------
(* Properties *)

\* Requests between the two statements of POST /peers, per user.
Adding(u) == {h \in Handlers : handler[h].next = "createPeer" /\ handler[h].user = u}

(* A user never has more usable keys than requests that can overlap: POST /peers
   revokes and then inserts without a transaction, so overlapping requests for
   one user can leave one key each (server.ts:400-418), and no more.  Only without
   overlap is it the one key that docs/API.md:242 names.                        *)
ActivePeersBounded ==
  \A u \in Users : Cardinality(ActiveKeysOf(u)) <= Cardinality(Handlers)

(* The inductive form of it: the usable keys of a user and the requests about to
   insert one more are together no more than the requests that can overlap.     *)
PeersAccounted ==
  \A u \in Users :
    /\ IsFiniteSet(ActiveKeysOf(u))
    /\ Cardinality(ActiveKeysOf(u)) + Cardinality(Adding(u)) <= Cardinality(Handlers)

(* Whatever a delete of a server interleaves with, no peer stays pinned to a
   server that is gone (no node would ever be given it) and no metric outlives
   its server (DELETE /servers/:id against POST /peers and POST /metrics/vpn). *)
ReferencesResolve ==
  /\ \A k \in Known : peers[k].server \in Registered \cup {Unpinned}
  /\ metrics \subseteq Registered

(* Revoking a token stops registrations but for those that had already passed
   the check: at most one per request that can overlap is stored afterwards
   (server.ts:170-220 against 537-569).                                       *)
LateRegistrationsBounded ==
  \A t \in Tokens : tokens[t] = "revoked" => late[t] <= Cardinality(Handlers)

\* Registrations that have passed the check of token t and stored nothing yet.
Registering(t) ==
  {h \in Handlers : handler[h].next \in {"countUsage", "upsertServer"} /\ handler[h].token = t}

(* The inductive form of it: those stored and those still on their way. *)
RegistrationsAccounted ==
  \A t \in Tokens : tokens[t] = "revoked" =>
    late[t] + Cardinality(Registering(t)) <= Cardinality(Handlers)

(* The address of a node, once known, survives registrations and heartbeats that
   do not carry it, as long as its row exists (server.ts:194).                 *)
AddressKept(s) ==
  s \in Registered /\ s \in Registered' => (servers[s].ip => servers'[s].ip)
AddressSticky == [][\A s \in Servers : AddressKept(s)]_vars
=============================================================================
