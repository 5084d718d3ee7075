----------------------------- MODULE NetworkProofs -----------------------------
(***************************************************************************)
(* Theorems about ControlPlane, VpnNode and Network, for any number of     *)
(* users, keys, servers, tokens and overlapping requests, any nodes, order *)
(* of the backends and number of attempts and crashes.                     *)
(***************************************************************************)
EXTENDS Network, PeerDirectoryProofs, FiniteSetTheorems, TLAPS

(***************************************************************************)
(* The control plane                                                       *)
(***************************************************************************)

-----------------------------------------------------------------------------
(* What a request in progress may be when its next statement is known. *)

LEMMA RequestInProgress ==
  ASSUME TypeOK, NEW h \in Handlers
  PROVE  /\ handler[h].next = "createPeer" => handler[h] \in AddPeerRequest
         /\ handler[h].next \in {"clearPins", "deleteRow"} => handler[h] \in DeleteServerRequest
         /\ handler[h].next \in {"countUsage", "upsertServer"} => handler[h] \in RegisterRequest
         /\ handler[h] = Idle => handler[h].next = "idle"
<1>1. handler[h] \in {Idle} \cup AddPeerRequest \cup DeleteServerRequest \cup RegisterRequest
  BY DEF TypeOK, HandlerState
<1> QED
  BY <1>1 DEF Idle, AddPeerRequest, DeleteServerRequest, RegisterRequest

LEMMA UpsertedTyped ==
  ASSUME TypeOK, NEW s \in Servers, NEW b \in RegisterBodies
  PROVE  Upserted(s, b) \in Server
<1>1. b \in SUBSET MetaFields
  BY ControlPlaneAssumption DEF NodeBodies, MetaFields
<1> QED
  BY <1>1 DEF TypeOK, Upserted, Registered, Server

-----------------------------------------------------------------------------
(* Type correctness. *)

LEMMA TypeOKInit ==
  ASSUME Init
  PROVE  TypeOK
<1>1. DirectoryTypeOK
  BY DEF Init, DirectoryInit, DirectoryTypeOK
<1>2. tokens \in [Tokens -> {"absent", "active", "revoked"}]
  BY DEF Init
<1> QED
  BY <1>1, <1>2 DEF Init, TypeOK, HandlerState

LEMMA TypeOKStep ==
  ASSUME TypeOK, [Next]_vars
  PROVE  TypeOK'
<1> USE DEF registry, tokenVars
<1>1. ASSUME NEW h \in Handlers, NEW u \in Users, NEW k \in Keys, NEW s \in Pins,
             NEW c \in Credentials, AddPeerRevoke(h, u, k, s, c)
      PROVE  TypeOK'
  <2>1. DirectoryTypeOK'
    BY <1>1, DeactivateTyped DEF AddPeerRevoke, TypeOK, ActiveKeysOf, ActiveKeys
  <2>2. handler' \in [Handlers -> HandlerState]
    BY <1>1 DEF AddPeerRevoke, TypeOK, HandlerState, AddPeerRequest
  <2> QED
    BY <1>1, <2>1, <2>2 DEF AddPeerRevoke, TypeOK
<1>2. ASSUME NEW h \in Handlers, AddPeerCreate(h)
      PROVE  TypeOK'
  <2>1. handler[h] \in AddPeerRequest
    BY <1>2, RequestInProgress DEF AddPeerCreate
  <2>2. DirectoryTypeOK'
    <3>1. CASE UNCHANGED peers
      BY <3>1 DEF TypeOK, DirectoryTypeOK
    <3>2. CASE Insert(handler[h].key, handler[h].user, handler[h].server, handler[h].auth)
      BY <2>1, <3>2, InsertTyped DEF TypeOK, AddPeerRequest
    <3> QED
      BY <1>2, <3>1, <3>2 DEF AddPeerCreate
  <2> QED
    BY <1>2, <2>2 DEF AddPeerCreate, TypeOK, Finish, HandlerState
<1>3. ASSUME NEW u \in Users, RevokeForUser(u)
      PROVE  TypeOK'
  <2>1. DirectoryTypeOK'
    BY <1>3, DeactivateTyped DEF RevokeForUser, TypeOK, ActiveKeysOf, ActiveKeys
  <2> QED
    BY <1>3, <2>1 DEF RevokeForUser, TypeOK
<1>4. ASSUME NEW k \in Keys, RevokeByKey(k)
      PROVE  TypeOK'
  <2>1. DirectoryTypeOK'
    BY <1>4, DeactivateTyped DEF RevokeByKey, TypeOK
  <2> QED
    BY <1>4, <2>1 DEF RevokeByKey, TypeOK
<1>5. ASSUME NEW h \in Handlers, NEW s \in Servers, DeleteServerFind(h, s)
      PROVE  TypeOK'
  BY <1>5 DEF DeleteServerFind, TypeOK, DirectoryTypeOK, HandlerState, DeleteServerRequest
<1>6. ASSUME NEW h \in Handlers, DeleteServerClearPins(h)
      PROVE  TypeOK'
  <2>1. handler[h] \in DeleteServerRequest
    BY <1>6, RequestInProgress DEF DeleteServerClearPins
  <2>2. DirectoryTypeOK'
    BY <1>6, ClearPinsTyped DEF DeleteServerClearPins, TypeOK
  <2>3. handler' \in [Handlers -> HandlerState]
    BY <1>6, <2>1 DEF DeleteServerClearPins, Continue, TypeOK, HandlerState, DeleteServerRequest
  <2> QED
    BY <1>6, <2>2, <2>3 DEF DeleteServerClearPins, TypeOK
<1>7. ASSUME NEW h \in Handlers, DeleteServerRow(h)
      PROVE  TypeOK'
  <2>1. DirectoryTypeOK'
    <3>1. CASE UNCHANGED peers
      BY <3>1 DEF TypeOK, DirectoryTypeOK
    <3>2. CASE ClearPins(handler[h].server)
      BY <3>2, ClearPinsTyped DEF TypeOK
    <3> QED
      BY <1>7, <3>1, <3>2 DEF DeleteServerRow
  <2>2. handler' \in [Handlers -> HandlerState]
    BY <1>7 DEF DeleteServerRow, Finish, TypeOK, HandlerState
  <2>3. servers' \in [Servers -> Server \cup {Absent}] /\ metrics' \subseteq Servers
    BY <1>7 DEF DeleteServerRow, TypeOK
  <2> QED
    BY <1>7, <2>1, <2>2, <2>3 DEF DeleteServerRow, TypeOK
<1>8. ASSUME NEW s \in Servers, IngestMetric(s)
      PROVE  TypeOK'
  BY <1>8 DEF IngestMetric, TypeOK, DirectoryTypeOK
<1>9. ASSUME NEW h \in Handlers, NEW t \in Tokens, NEW s \in Servers, NEW b \in RegisterBodies,
             RegisterCheckToken(h, t, s, b)
      PROVE  TypeOK'
  <2>1. handler' \in [Handlers -> HandlerState]
    BY <1>9 DEF RegisterCheckToken, TypeOK, HandlerState, RegisterRequest
  <2> QED
    BY <1>9, <2>1 DEF RegisterCheckToken, TypeOK, DirectoryTypeOK
<1>10. ASSUME NEW h \in Handlers, RegisterCountUsage(h)
       PROVE  TypeOK'
  <2>1. handler[h] \in RegisterRequest
    BY <1>10, RequestInProgress DEF RegisterCountUsage
  <2>2. handler' \in [Handlers -> HandlerState]
    BY <1>10, <2>1 DEF RegisterCountUsage, Continue, TypeOK, HandlerState, RegisterRequest
  <2> QED
    BY <1>10, <2>2 DEF RegisterCountUsage, TypeOK, DirectoryTypeOK
<1>11. ASSUME NEW h \in Handlers, RegisterUpsertServer(h)
       PROVE  TypeOK'
  <2>1. handler[h] \in RegisterRequest
    BY <1>11, RequestInProgress DEF RegisterUpsertServer
  <2>2. Upserted(handler[h].server, handler[h].body) \in Server
    BY <2>1, UpsertedTyped DEF RegisterRequest
  <2>3. servers' \in [Servers -> Server \cup {Absent}]
    BY <1>11, <2>2 DEF RegisterUpsertServer, TypeOK
  <2>4. handler' \in [Handlers -> HandlerState]
    BY <1>11 DEF RegisterUpsertServer, Finish, TypeOK, HandlerState
  <2>5. late' \in [Tokens -> Nat]
    BY <1>11, <2>1 DEF RegisterUpsertServer, TypeOK, RegisterRequest
  <2> QED
    BY <1>11, <2>3, <2>4, <2>5 DEF RegisterUpsertServer, TypeOK, DirectoryTypeOK
<1>12. ASSUME NEW t \in Tokens, CreateToken(t) \/ RevokeToken(t)
       PROVE  TypeOK'
  BY <1>12 DEF CreateToken, RevokeToken, TypeOK, DirectoryTypeOK
<1>13. CASE Restart
  BY <1>13 DEF Restart, EnsureBootstrap, TypeOK, DirectoryTypeOK, HandlerState
<1>14. ASSUME NEW h \in Handlers, StatementFails(h)
       PROVE  TypeOK'
  BY <1>14 DEF StatementFails, Finish, TypeOK, DirectoryTypeOK, HandlerState
<1>15. CASE UNCHANGED vars
  BY <1>15 DEF vars, TypeOK, DirectoryTypeOK
<1> QED
  BY <1>1, <1>2, <1>3, <1>4, <1>5, <1>6, <1>7, <1>8, <1>9, <1>10, <1>11, <1>12, <1>13, <1>14, <1>15
  DEF Next, PeerRequest, ServerRequest, NodeRequest, TokenRequest, Failure

(* Whatever requests interleave, fail or are cut short, the tables and the
   requests in progress keep their types (server.ts, every handler).        *)
THEOREM TypeCorrect == Spec => []TypeOK
<1>1. Init => TypeOK
  BY TypeOKInit
<1>2. TypeOK /\ [Next]_vars => TypeOK'
  BY TypeOKStep
<1> QED
  BY <1>1, <1>2, PTL DEF Spec

-----------------------------------------------------------------------------
(* Counting. *)

LEMMA HandlersFinite ==
  ASSUME NEW S \in SUBSET Handlers
  PROVE  /\ IsFiniteSet(S)
         /\ Cardinality(S) \in Nat
         /\ Cardinality(Handlers) \in Nat
         /\ Cardinality(S) <= Cardinality(Handlers)
  BY ControlPlaneAssumption, FS_Subset, FS_CardinalityType

\* Of two finite sets neither grows.
LEMMA NeitherGrows ==
  ASSUME NEW A, NEW B, NEW C \in SUBSET A, NEW D \in SUBSET B, IsFiniteSet(A), IsFiniteSet(B),
         NEW n \in Nat, Cardinality(A) + Cardinality(B) <= n
  PROVE  IsFiniteSet(C) /\ Cardinality(C) + Cardinality(D) <= n
<1>1. /\ IsFiniteSet(C) /\ Cardinality(C) \in Nat /\ Cardinality(A) \in Nat
      /\ Cardinality(C) <= Cardinality(A)
  BY FS_Subset, FS_CardinalityType
<1>2. /\ Cardinality(D) \in Nat /\ Cardinality(B) \in Nat /\ Cardinality(D) <= Cardinality(B)
  BY FS_Subset, FS_CardinalityType
<1> QED
  BY <1>1, <1>2

\* One element may be gained by the first for one lost by the second.
LEMMA OneForOne ==
  ASSUME NEW A, NEW B, NEW a, NEW b \in B, IsFiniteSet(A), IsFiniteSet(B),
         NEW n \in Nat, Cardinality(A) + Cardinality(B) <= n
  PROVE  IsFiniteSet(A \cup {a}) /\ Cardinality(A \cup {a}) + Cardinality(B \ {b}) <= n
<1>1. IsFiniteSet(A \cup {a}) /\ Cardinality(A \cup {a}) \in {Cardinality(A), Cardinality(A) + 1}
  BY FS_AddElement
<1>2. Cardinality(B \ {b}) = Cardinality(B) - 1
  BY FS_RemoveElement
<1>3. Cardinality(A) \in Nat /\ Cardinality(B) \in Nat
  BY FS_CardinalityType
<1> QED
  BY <1>1, <1>2, <1>3

-----------------------------------------------------------------------------
(* The keys of a user are bounded. *)

\* Every step but those of POST /peers.
LEMMA NoNewKeys ==
  ASSUME TypeOK, PeersAccounted, NEW v \in Users,
         ActiveKeysOf(v)' \subseteq ActiveKeysOf(v), Adding(v)' \subseteq Adding(v)
  PROVE  /\ IsFiniteSet(ActiveKeysOf(v)')
         /\ Cardinality(ActiveKeysOf(v)') + Cardinality(Adding(v)') <= Cardinality(Handlers)
<1>1. Adding(v) \in SUBSET Handlers
  BY DEF Adding
<1>2. IsFiniteSet(Adding(v)) /\ Cardinality(Handlers) \in Nat
  BY <1>1, HandlersFinite
<1>3. /\ IsFiniteSet(ActiveKeysOf(v))
      /\ Cardinality(ActiveKeysOf(v)) + Cardinality(Adding(v)) <= Cardinality(Handlers)
  BY DEF PeersAccounted
<1> QED
  BY <1>2, <1>3, NeitherGrows

LEMMA PeersAccountedStep ==
  ASSUME TypeOK, PeersAccounted, [Next]_vars
  PROVE  PeersAccounted'
<1> USE SentinelsAssumption DEF registry, tokenVars
<1> SUFFICES ASSUME NEW v \in Users
             PROVE  /\ IsFiniteSet(ActiveKeysOf(v)')
                    /\ Cardinality(ActiveKeysOf(v)') + Cardinality(Adding(v)') <= Cardinality(Handlers)
  BY DEF PeersAccounted
<1>a. DirectoryTypeOK
  BY DEF TypeOK
<1>b. \A h \in Handlers : handler[h] = Idle => h \notin Adding(v)
  BY DEF Adding, Idle
<1>c. ASSUME NEW h \in Handlers, Finish(h)
      PROVE  Adding(v)' = Adding(v) \ {h}
  BY <1>c DEF Finish, Adding, Idle, TypeOK
<1>1. ASSUME NEW h \in Handlers, NEW u \in Users, NEW k \in Keys, NEW s \in Pins,
             NEW c \in Credentials, AddPeerRevoke(h, u, k, s, c)
      PROVE  /\ IsFiniteSet(ActiveKeysOf(v)')
             /\ Cardinality(ActiveKeysOf(v)') + Cardinality(Adding(v)') <= Cardinality(Handlers)
  <2>1. ActiveKeysOf(v)' = ActiveKeysOf(v) \ ActiveKeysOf(u)
    <3>1. ActiveKeysOf(u) \in SUBSET Known
      BY DEF ActiveKeysOf, ActiveKeys
    <3> QED
      BY <1>1, <1>a, <3>1, DeactivateActive DEF AddPeerRevoke
  <2>2. CASE v = u
    <3>1. ActiveKeysOf(v)' = {}
      BY <2>1, <2>2
    <3>2. Adding(v)' \in SUBSET Handlers
      BY DEF Adding
    <3>3. Cardinality(Adding(v)') <= Cardinality(Handlers) /\ Cardinality(Adding(v)') \in Nat
      BY <3>2, HandlersFinite
    <3> QED
      BY <3>1, <3>3, FS_EmptySet
  <2>3. CASE v # u
    <3>1. Adding(v)' \subseteq Adding(v)
      BY <1>1, <2>3 DEF AddPeerRevoke, Adding, TypeOK
    <3> QED
      BY <2>1, <3>1, NoNewKeys
  <2> QED
    BY <2>2, <2>3
<1>2. ASSUME NEW h \in Handlers, AddPeerCreate(h)
      PROVE  /\ IsFiniteSet(ActiveKeysOf(v)')
             /\ Cardinality(ActiveKeysOf(v)') + Cardinality(Adding(v)') <= Cardinality(Handlers)
  <2>1. handler[h] \in AddPeerRequest /\ handler[h].next = "createPeer"
    BY <1>2, RequestInProgress DEF AddPeerCreate
  <2>2. Adding(v)' = Adding(v) \ {h}
    BY <1>2, <1>c DEF AddPeerCreate
  <2>3. CASE UNCHANGED peers
    <3>1. ActiveKeysOf(v)' = ActiveKeysOf(v)
      BY <2>3 DEF ActiveKeysOf, ActiveKeys, Known
    <3> QED
      BY <2>2, <3>1, NoNewKeys
  <2>4. CASE Insert(handler[h].key, handler[h].user, handler[h].server, handler[h].auth)
    <3>1. ActiveKeysOf(v)' = IF v = handler[h].user THEN ActiveKeysOf(v) \cup {handler[h].key}
                                                    ELSE ActiveKeysOf(v)
      BY <1>a, <2>1, <2>4, InsertActive DEF AddPeerRequest
    <3>2. CASE v = handler[h].user
      <4>1. h \in Adding(v)
        BY <2>1, <3>2 DEF Adding
      <4>2. IsFiniteSet(Adding(v)) /\ Cardinality(Handlers) \in Nat
        BY HandlersFinite DEF Adding
      <4>3. /\ IsFiniteSet(ActiveKeysOf(v))
            /\ Cardinality(ActiveKeysOf(v)) + Cardinality(Adding(v)) <= Cardinality(Handlers)
        BY DEF PeersAccounted
      <4>4. /\ IsFiniteSet(ActiveKeysOf(v) \cup {handler[h].key})
            /\ Cardinality(ActiveKeysOf(v) \cup {handler[h].key}) + Cardinality(Adding(v) \ {h})
                 <= Cardinality(Handlers)
        BY <4>1, <4>2, <4>3, OneForOne
      <4>5. ActiveKeysOf(v)' = ActiveKeysOf(v) \cup {handler[h].key}
        BY <3>1, <3>2
      <4> QED
        BY <2>2, <4>4, <4>5
    <3>3. CASE v # handler[h].user
      BY <2>2, <3>1, <3>3, NoNewKeys
    <3> QED
      BY <3>2, <3>3
  <2> QED
    BY <1>2, <2>3, <2>4 DEF AddPeerCreate
<1>3. ASSUME NEW K \in SUBSET Known, Deactivate(K), UNCHANGED handler
      PROVE  /\ IsFiniteSet(ActiveKeysOf(v)')
             /\ Cardinality(ActiveKeysOf(v)') + Cardinality(Adding(v)') <= Cardinality(Handlers)
  <2>1. ActiveKeysOf(v)' = ActiveKeysOf(v) \ K
    BY <1>3, <1>a, DeactivateActive
  <2>2. Adding(v)' = Adding(v)
    BY <1>3 DEF Adding
  <2> QED
    BY <2>1, <2>2, NoNewKeys
<1>4. ASSUME NEW u \in Users, RevokeForUser(u)
      PROVE  /\ IsFiniteSet(ActiveKeysOf(v)')
             /\ Cardinality(ActiveKeysOf(v)') + Cardinality(Adding(v)') <= Cardinality(Handlers)
  <2>1. ActiveKeysOf(u) \in SUBSET Known
    BY DEF ActiveKeysOf, ActiveKeys
  <2> QED
    BY <1>3, <1>4, <2>1 DEF RevokeForUser
<1>5. ASSUME NEW k \in Keys, RevokeByKey(k)
      PROVE  /\ IsFiniteSet(ActiveKeysOf(v)')
             /\ Cardinality(ActiveKeysOf(v)') + Cardinality(Adding(v)') <= Cardinality(Handlers)
  <2>1. {k} \in SUBSET Known
    BY <1>5 DEF RevokeByKey
  <2> QED
    BY <1>3, <1>5, <2>1 DEF RevokeByKey
<1>6. ASSUME UNCHANGED peers \/ \E s : ClearPins(s), Adding(v)' \subseteq Adding(v)
      PROVE  /\ IsFiniteSet(ActiveKeysOf(v)')
             /\ Cardinality(ActiveKeysOf(v)') + Cardinality(Adding(v)') <= Cardinality(Handlers)
  <2>1. ActiveKeysOf(v)' = ActiveKeysOf(v)
    <3>1. CASE UNCHANGED peers
      BY <3>1 DEF ActiveKeysOf, ActiveKeys, Known
    <3>2. CASE \E s : ClearPins(s)
      BY <1>a, <3>2, ClearPinsActive
    <3> QED
      BY <1>6, <3>1, <3>2
  <2> QED
    BY <1>6, <2>1, NoNewKeys
<1>7. ASSUME NEW h \in Handlers, NEW s \in Servers, DeleteServerFind(h, s)
      PROVE  Adding(v)' \subseteq Adding(v) /\ UNCHANGED peers
  BY <1>7 DEF DeleteServerFind, Adding, TypeOK
<1>8. ASSUME NEW h \in Handlers, DeleteServerClearPins(h)
      PROVE  Adding(v)' \subseteq Adding(v) /\ \E s : ClearPins(s)
  BY <1>8 DEF DeleteServerClearPins, Continue, Adding, TypeOK
<1>9. ASSUME NEW h \in Handlers, DeleteServerRow(h)
      PROVE  Adding(v)' \subseteq Adding(v) /\ (UNCHANGED peers \/ \E s : ClearPins(s))
  BY <1>9, <1>c DEF DeleteServerRow
<1>10. ASSUME NEW h \in Handlers, NEW t \in Tokens, NEW s \in Servers, NEW b \in RegisterBodies,
              RegisterCheckToken(h, t, s, b)
       PROVE  Adding(v)' \subseteq Adding(v) /\ UNCHANGED peers
  BY <1>10 DEF RegisterCheckToken, Adding, TypeOK
<1>11. ASSUME NEW h \in Handlers, RegisterCountUsage(h)
       PROVE  Adding(v)' \subseteq Adding(v) /\ UNCHANGED peers
  BY <1>11 DEF RegisterCountUsage, Continue, Adding, TypeOK
<1>12. ASSUME NEW h \in Handlers, RegisterUpsertServer(h) \/ StatementFails(h)
       PROVE  Adding(v)' \subseteq Adding(v) /\ UNCHANGED peers
  BY <1>12, <1>c DEF RegisterUpsertServer, StatementFails
<1>13. CASE Restart
  <2>1. Adding(v)' \subseteq Adding(v) /\ UNCHANGED peers
    BY <1>13 DEF Restart, Adding, Idle
  <2> QED
    BY <1>6, <2>1
<1>14. CASE \/ UNCHANGED vars
            \/ \E s \in Servers : IngestMetric(s)
            \/ \E t \in Tokens : CreateToken(t) \/ RevokeToken(t)
  <2>1. Adding(v)' = Adding(v) /\ UNCHANGED peers
    BY <1>14 DEF vars, IngestMetric, CreateToken, RevokeToken, Adding
  <2> QED
    BY <1>6, <2>1
<1> QED
  BY <1>1, <1>2, <1>4, <1>5, <1>6, <1>7, <1>8, <1>9, <1>10, <1>11, <1>12, <1>13, <1>14
  DEF Next, PeerRequest, ServerRequest, NodeRequest, TokenRequest, Failure

(* A user never has more usable keys than requests that can overlap, for any
   number of each: POST /peers revokes and then inserts (server.ts:395-431).  *)
THEOREM PeersBounded == Spec => []ActivePeersBounded
<1>1. Init => PeersAccounted
  <2> SUFFICES ASSUME Init, NEW u \in Users
               PROVE  /\ IsFiniteSet(ActiveKeysOf(u))
                      /\ Cardinality(ActiveKeysOf(u)) + Cardinality(Adding(u)) <= Cardinality(Handlers)
    BY DEF PeersAccounted
  <2>1. ActiveKeysOf(u) = {} /\ Adding(u) = {}
    BY DEF Init, DirectoryInit, ActiveKeysOf, ActiveKeys, Known, Adding, Idle
  <2>2. Cardinality(Handlers) \in Nat
    BY ControlPlaneAssumption, FS_CardinalityType
  <2> QED
    BY <2>1, <2>2, FS_EmptySet
<1>2. TypeOK /\ PeersAccounted /\ [Next]_vars => PeersAccounted'
  BY PeersAccountedStep
<1>3. PeersAccounted => ActivePeersBounded
  <2> SUFFICES ASSUME PeersAccounted, NEW u \in Users
               PROVE  Cardinality(ActiveKeysOf(u)) <= Cardinality(Handlers)
    BY DEF ActivePeersBounded
  <2>1. Adding(u) \in SUBSET Handlers
    BY DEF Adding
  <2>2. Cardinality(Adding(u)) \in Nat /\ Cardinality(Handlers) \in Nat
    BY <2>1, HandlersFinite
  <2>3. /\ Cardinality(ActiveKeysOf(u)) \in Nat
        /\ Cardinality(ActiveKeysOf(u)) + Cardinality(Adding(u)) <= Cardinality(Handlers)
    BY FS_CardinalityType DEF PeersAccounted
  <2> QED
    BY <2>2, <2>3
<1> QED
  BY <1>1, <1>2, <1>3, TypeCorrect, PTL DEF Spec

-----------------------------------------------------------------------------
(* Registrations after a revocation are bounded. *)

\* Every step but the check, the upsert and the revocation.
LEMMA NoNewRegistration ==
  ASSUME TypeOK, RegistrationsAccounted, NEW t \in Tokens,
         tokens[t] = "revoked", UNCHANGED late, Registering(t)' \subseteq Registering(t)
  PROVE  late'[t] + Cardinality(Registering(t)') <= Cardinality(Handlers)
<1>1. Registering(t) \in SUBSET Handlers /\ Registering(t)' \in SUBSET Handlers
  BY DEF Registering
<1>2. /\ IsFiniteSet(Registering(t)) /\ Cardinality(Registering(t)) \in Nat
      /\ Cardinality(Registering(t)') \in Nat /\ Cardinality(Handlers) \in Nat
  BY <1>1, HandlersFinite
<1>3. Cardinality(Registering(t)') <= Cardinality(Registering(t))
  BY <1>2, FS_Subset
<1>4. late[t] + Cardinality(Registering(t)) <= Cardinality(Handlers) /\ late[t] \in Nat
  BY DEF RegistrationsAccounted, TypeOK
<1> QED
  BY <1>2, <1>3, <1>4

LEMMA RegistrationsAccountedStep ==
  ASSUME TypeOK, RegistrationsAccounted, [Next]_vars
  PROVE  RegistrationsAccounted'
<1> USE DEF registry, tokenVars
<1> SUFFICES ASSUME NEW t \in Tokens, tokens'[t] = "revoked"
             PROVE  late'[t] + Cardinality(Registering(t)') <= Cardinality(Handlers)
  BY DEF RegistrationsAccounted
<1>a. ASSUME NEW h \in Handlers, Finish(h)
      PROVE  Registering(t)' = Registering(t) \ {h}
  BY <1>a DEF Finish, Registering, Idle, TypeOK
<1>b. ASSUME UNCHANGED <<tokens, late>>, Registering(t)' \subseteq Registering(t)
      PROVE  late'[t] + Cardinality(Registering(t)') <= Cardinality(Handlers)
  BY <1>b, NoNewRegistration
<1>1. ASSUME NEW h \in Handlers, NEW u \in Users, NEW k \in Keys, NEW s \in Pins,
             NEW c \in Credentials, AddPeerRevoke(h, u, k, s, c)
      PROVE  UNCHANGED <<tokens, late>> /\ Registering(t)' \subseteq Registering(t)
  BY <1>1 DEF AddPeerRevoke, Registering, TypeOK
<1>2. ASSUME NEW h \in Handlers, AddPeerCreate(h) \/ DeleteServerRow(h) \/ StatementFails(h)
      PROVE  UNCHANGED <<tokens, late>> /\ Registering(t)' \subseteq Registering(t)
  BY <1>2, <1>a DEF AddPeerCreate, DeleteServerRow, StatementFails
<1>3. ASSUME NEW h \in Handlers, NEW s \in Servers, DeleteServerFind(h, s)
      PROVE  UNCHANGED <<tokens, late>> /\ Registering(t)' \subseteq Registering(t)
  BY <1>3 DEF DeleteServerFind, Registering, TypeOK
<1>4. ASSUME NEW h \in Handlers, DeleteServerClearPins(h)
      PROVE  UNCHANGED <<tokens, late>> /\ Registering(t)' \subseteq Registering(t)
  BY <1>4 DEF DeleteServerClearPins, Continue, Registering, TypeOK
<1>5. ASSUME NEW h \in Handlers, NEW q \in Tokens, NEW s \in Servers, NEW b \in RegisterBodies,
             RegisterCheckToken(h, q, s, b)
      PROVE  UNCHANGED <<tokens, late>> /\ Registering(t)' \subseteq Registering(t)
  <2>1. q # t
    BY <1>5 DEF RegisterCheckToken
  <2> QED
    BY <1>5, <2>1 DEF RegisterCheckToken, Registering, TypeOK
<1>6. ASSUME NEW h \in Handlers, RegisterCountUsage(h)
      PROVE  UNCHANGED <<tokens, late>> /\ Registering(t)' \subseteq Registering(t)
  BY <1>6 DEF RegisterCountUsage, Continue, Registering, TypeOK
<1>7. ASSUME NEW h \in Handlers, RegisterUpsertServer(h)
      PROVE  late'[t] + Cardinality(Registering(t)') <= Cardinality(Handlers)
  <2>1. handler[h] \in RegisterRequest /\ handler[h].next = "upsertServer"
    BY <1>7, RequestInProgress DEF RegisterUpsertServer
  <2>2. Registering(t)' = Registering(t) \ {h}
    BY <1>7, <1>a DEF RegisterUpsertServer
  <2>3. tokens[t] = "revoked"
    BY <1>7 DEF RegisterUpsertServer
  <2>4. CASE handler[h].token = t
    <3>1. h \in Registering(t)
      BY <2>1, <2>4 DEF Registering
    <3>2. Registering(t) \in SUBSET Handlers
      BY DEF Registering
    <3>3. IsFiniteSet(Registering(t)) /\ Cardinality(Registering(t)) \in Nat /\ Cardinality(Handlers) \in Nat
      BY <3>2, HandlersFinite
    <3>4. Cardinality(Registering(t)') = Cardinality(Registering(t)) - 1
      BY <2>2, <3>1, <3>3, FS_RemoveElement
    <3>5. late'[t] = late[t] + 1 /\ late[t] \in Nat
      BY <1>7, <2>3, <2>4 DEF RegisterUpsertServer, TypeOK
    <3>6. late[t] + Cardinality(Registering(t)) <= Cardinality(Handlers)
      BY <2>3 DEF RegistrationsAccounted
    <3> QED
      BY <3>3, <3>4, <3>5, <3>6
  <2>5. CASE handler[h].token # t
    <3>1. late'[t] = late[t]
      BY <1>7, <2>5 DEF RegisterUpsertServer, TypeOK
    <3>2. Registering(t) \in SUBSET Handlers /\ Registering(t)' \subseteq Registering(t)
      BY <2>2 DEF Registering
    <3>3. /\ IsFiniteSet(Registering(t)) /\ Cardinality(Registering(t)) \in Nat
          /\ Cardinality(Registering(t)') \in Nat
          /\ Cardinality(Registering(t)') <= Cardinality(Registering(t))
      BY <3>2, HandlersFinite, FS_Subset
    <3>4. /\ late[t] + Cardinality(Registering(t)) <= Cardinality(Handlers)
          /\ late[t] \in Nat /\ Cardinality(Handlers) \in Nat
      BY <2>3, HandlersFinite DEF RegistrationsAccounted, TypeOK
    <3> QED
      BY <3>1, <3>3, <3>4
  <2> QED
    BY <2>4, <2>5
<1>8. ASSUME NEW q \in Tokens, RevokeToken(q)
      PROVE  late'[t] + Cardinality(Registering(t)') <= Cardinality(Handlers)
  <2>1. Registering(t)' = Registering(t)
    BY <1>8 DEF RevokeToken, Registering
  <2>2. CASE q = t /\ tokens[t] = "active"
    <3>1. late'[t] = 0
      BY <1>8, <2>2 DEF RevokeToken, TypeOK
    <3>2. Registering(t)' \in SUBSET Handlers
      BY DEF Registering
    <3> QED
      BY <3>1, <3>2, HandlersFinite
  <2>3. CASE ~(q = t /\ tokens[t] = "active")
    <3>1. tokens[t] = "revoked" /\ late'[t] = late[t]
      BY <1>8, <2>3 DEF RevokeToken, TypeOK
    <3> QED
      BY <2>1, <3>1 DEF RegistrationsAccounted
  <2> QED
    BY <2>2, <2>3
<1>9. CASE Restart
  <2>1. Registering(t)' = {}
    BY <1>9 DEF Restart, Registering, Idle
  <2>2. tokens[t] = "revoked" /\ UNCHANGED late
    BY <1>9 DEF Restart, EnsureBootstrap, TypeOK
  <2> QED
    BY <2>1, <2>2, NoNewRegistration
<1>10. CASE \/ UNCHANGED vars
            \/ \E s \in Servers : IngestMetric(s)
            \/ \E u \in Users : RevokeForUser(u)
            \/ \E k \in Keys : RevokeByKey(k)
  <2>1. UNCHANGED <<tokens, late>> /\ Registering(t)' = Registering(t)
    BY <1>10 DEF vars, IngestMetric, RevokeForUser, RevokeByKey, Registering
  <2> QED
    BY <1>b, <2>1
<1>11. ASSUME NEW q \in Tokens, CreateToken(q)
       PROVE  late'[t] + Cardinality(Registering(t)') <= Cardinality(Handlers)
  <2>1. tokens[t] = "revoked" /\ UNCHANGED late /\ Registering(t)' = Registering(t)
    BY <1>11 DEF CreateToken, Registering, TypeOK
  <2> QED
    BY <2>1, NoNewRegistration
<1> QED
  BY <1>b, <1>1, <1>2, <1>3, <1>4, <1>5, <1>6, <1>7, <1>8, <1>9, <1>10, <1>11
  DEF Next, PeerRequest, ServerRequest, NodeRequest, TokenRequest, Failure

(* After DELETE /tokens/:token at most one registration per request that can
   overlap is still stored under the token, until it is made active again, for
   any number of tokens and requests (server.ts:170-220 against 537-566).      *)
THEOREM RevokedTokenStops == Spec => []LateRegistrationsBounded
<1>1. Init => RegistrationsAccounted
  BY DEF Init, RegistrationsAccounted
<1>2. TypeOK /\ RegistrationsAccounted /\ [Next]_vars => RegistrationsAccounted'
  BY RegistrationsAccountedStep
<1>3. TypeOK /\ RegistrationsAccounted => LateRegistrationsBounded
  <2> SUFFICES ASSUME TypeOK, RegistrationsAccounted, NEW t \in Tokens, tokens[t] = "revoked"
               PROVE  late[t] <= Cardinality(Handlers)
    BY DEF LateRegistrationsBounded
  <2>1. Registering(t) \in SUBSET Handlers
    BY DEF Registering
  <2>2. Cardinality(Registering(t)) \in Nat /\ Cardinality(Handlers) \in Nat
    BY <2>1, HandlersFinite
  <2>3. late[t] + Cardinality(Registering(t)) <= Cardinality(Handlers) /\ late[t] \in Nat
    BY DEF RegistrationsAccounted, TypeOK
  <2> QED
    BY <2>2, <2>3
<1> QED
  BY <1>1, <1>2, <1>3, TypeCorrect, PTL DEF Spec

-----------------------------------------------------------------------------
(* References. *)

\* The peers stay pinned where they were, or to nothing.
LEMMA PinsDropped ==
  ASSUME DirectoryTypeOK, SentinelsAssumption,
         UNCHANGED peers \/ (\E s : ClearPins(s)) \/ (\E K \in SUBSET Known : Deactivate(K))
  PROVE  \A k \in Known' : k \in Known /\ peers'[k].server \in {peers[k].server, Unpinned}
<1>1. CASE UNCHANGED peers
  BY <1>1 DEF Known
<1>2. ASSUME NEW s, ClearPins(s)
      PROVE  \A k \in Known' : k \in Known /\ peers'[k].server \in {peers[k].server, Unpinned}
  BY <1>2 DEF ClearPins, Known, DirectoryTypeOK, Peer
<1>3. ASSUME NEW K \in SUBSET Known, Deactivate(K)
      PROVE  \A k \in Known' : k \in Known /\ peers'[k].server \in {peers[k].server, Unpinned}
  BY <1>3 DEF Deactivate, Known, DirectoryTypeOK, Peer
<1> QED
  BY <1>1, <1>2, <1>3

LEMMA ReferencesResolveStep ==
  ASSUME TypeOK, ReferencesResolve, [Next]_vars
  PROVE  ReferencesResolve'
<1> USE SentinelsAssumption DEF registry, tokenVars
<1>a. DirectoryTypeOK
  BY DEF TypeOK
<1>b. ASSUME Registered \subseteq Registered', metrics' \subseteq Registered',
             \/ UNCHANGED peers
             \/ \E s : ClearPins(s)
             \/ \E K \in SUBSET Known : Deactivate(K)
      PROVE  ReferencesResolve'
  BY <1>a, <1>b, PinsDropped DEF ReferencesResolve
<1>1. ASSUME NEW h \in Handlers, NEW u \in Users, NEW k \in Keys, NEW s \in Pins,
             NEW c \in Credentials, AddPeerRevoke(h, u, k, s, c)
      PROVE  ReferencesResolve'
  <2>1. ActiveKeysOf(u) \in SUBSET Known
    BY DEF ActiveKeysOf, ActiveKeys
  <2>2. Registered' = Registered /\ metrics' \subseteq Registered'
    BY <1>1 DEF AddPeerRevoke, Registered, ReferencesResolve
  <2> QED
    BY <1>1, <1>b, <2>1, <2>2 DEF AddPeerRevoke
<1>2. ASSUME NEW h \in Handlers, AddPeerCreate(h)
      PROVE  ReferencesResolve'
  <2>1. Registered' = Registered /\ metrics' \subseteq Registered'
    BY <1>2 DEF AddPeerCreate, Registered, ReferencesResolve
  <2>2. CASE UNCHANGED peers
    BY <1>b, <2>1, <2>2
  <2>3. CASE /\ CanCreate(handler[h])
             /\ Insert(handler[h].key, handler[h].user, handler[h].server, handler[h].auth)
    <3>1. \A k \in Keys : peers'[k] = IF k = handler[h].key
                                        THEN [user |-> handler[h].user, server |-> handler[h].server,
                                              auth |-> handler[h].auth, active |-> TRUE]
                                        ELSE peers[k]
      BY <1>a, <2>3 DEF Insert, DirectoryTypeOK
    <3>2. \A k \in Known' : peers'[k].server \in Registered \cup {Unpinned}
      BY <2>3, <3>1 DEF CanCreate, Known, ReferencesResolve
    <3> QED
      BY <2>1, <3>2 DEF ReferencesResolve
  <2> QED
    BY <1>2, <2>2, <2>3 DEF AddPeerCreate
<1>3. ASSUME NEW u \in Users, RevokeForUser(u)
      PROVE  ReferencesResolve'
  <2>1. ActiveKeysOf(u) \in SUBSET Known
    BY DEF ActiveKeysOf, ActiveKeys
  <2>2. Registered' = Registered /\ metrics' \subseteq Registered'
    BY <1>3 DEF RevokeForUser, Registered, ReferencesResolve
  <2> QED
    BY <1>3, <1>b, <2>1, <2>2 DEF RevokeForUser
<1>4. ASSUME NEW k \in Keys, RevokeByKey(k)
      PROVE  ReferencesResolve'
  <2>1. {k} \in SUBSET Known
    BY <1>4 DEF RevokeByKey
  <2>2. Registered' = Registered /\ metrics' \subseteq Registered'
    BY <1>4 DEF RevokeByKey, Registered, ReferencesResolve
  <2> QED
    BY <1>4, <1>b, <2>1, <2>2 DEF RevokeByKey
<1>5. ASSUME NEW h \in Handlers, DeleteServerRow(h)
      PROVE  ReferencesResolve'
  <2>1. CASE UNCHANGED <<peers, registry>>
    BY <2>1 DEF ReferencesResolve, Known, Registered
  <2>2. CASE /\ servers' = [servers EXCEPT ![handler[h].server] = Absent]
             /\ metrics' = metrics \ {handler[h].server}
             /\ ClearPins(handler[h].server)
    <3>1. Registered' = Registered \ {handler[h].server}
      BY <2>2 DEF Registered, TypeOK
    <3>2. \A k \in Known' : k \in Known /\ peers'[k].server \in {peers[k].server, Unpinned}
      BY <1>a, <2>2, PinsDropped
    <3>3. \A k \in Known' : peers'[k].server # handler[h].server \/ peers'[k].server = Unpinned
      BY <1>a, <2>2 DEF ClearPins, Known, DirectoryTypeOK, Peer
    <3> QED
      BY <2>2, <3>1, <3>2, <3>3 DEF ReferencesResolve
  <2> QED
    BY <1>5, <2>1, <2>2 DEF DeleteServerRow
<1>6. ASSUME NEW h \in Handlers, RegisterUpsertServer(h)
      PROVE  ReferencesResolve'
  <2>1. handler[h] \in RegisterRequest
    BY <1>6, RequestInProgress DEF RegisterUpsertServer
  <2>2. Upserted(handler[h].server, handler[h].body) \in Server
    BY <2>1, UpsertedTyped DEF RegisterRequest
  <2>3. Registered \subseteq Registered'
    BY <1>6, <2>2, ControlPlaneAssumption DEF RegisterUpsertServer, Registered, TypeOK
  <2> QED
    BY <1>6, <1>b, <2>3 DEF RegisterUpsertServer, ReferencesResolve
<1>7. CASE \/ UNCHANGED vars
           \/ Restart
           \/ \E h \in Handlers : DeleteServerClearPins(h) \/ RegisterCountUsage(h) \/ StatementFails(h)
           \/ \E h \in Handlers, s \in Servers : DeleteServerFind(h, s)
           \/ \E s \in Servers : IngestMetric(s)
           \/ \E h \in Handlers, t \in Tokens, s \in Servers, b \in RegisterBodies :
                 RegisterCheckToken(h, t, s, b)
           \/ \E t \in Tokens : CreateToken(t) \/ RevokeToken(t)
  <2>1. /\ servers' = servers
        /\ UNCHANGED peers \/ \E s : ClearPins(s)
        /\ metrics' \subseteq Registered
    BY <1>7 DEF vars, Restart, DeleteServerClearPins, RegisterCountUsage, StatementFails, DeleteServerFind,
                IngestMetric, RegisterCheckToken, CreateToken, RevokeToken, ReferencesResolve
  <2>2. Registered' = Registered
    BY <2>1 DEF Registered
  <2> QED
    BY <1>b, <2>1, <2>2
<1> QED
  BY <1>1, <1>2, <1>3, <1>4, <1>5, <1>6, <1>7
  DEF Next, PeerRequest, ServerRequest, NodeRequest, TokenRequest, Failure

(* No peer stays pinned to a server that is gone and no metric outlives its
   server, for any interleaving of deletes, peers and metrics
   (server.ts:361-391, schema.prisma 127-189).                               *)
THEOREM NothingDangles == Spec => []ReferencesResolve
<1>1. Init => ReferencesResolve
  BY DEF Init, DirectoryInit, ReferencesResolve, Known
<1>2. TypeOK /\ ReferencesResolve /\ [Next]_vars => ReferencesResolve'
  BY ReferencesResolveStep
<1> QED
  BY <1>1, <1>2, TypeCorrect, PTL DEF Spec

-----------------------------------------------------------------------------
(* The address of a node. *)

(* No registration or heartbeat forgets the address of a node whose row exists,
   whatever it carries and whatever it overlaps with (server.ts:190-218).       *)
THEOREM AddressNeverForgotten == Spec => AddressSticky
<1>1. ASSUME TypeOK, [Next]_vars
      PROVE  [\A s \in Servers : AddressKept(s)]_vars
  <2> USE DEF registry, tokenVars
  <2> SUFFICES ASSUME NEW s \in Servers, s \in Registered, s \in Registered', servers[s].ip
               PROVE  servers'[s].ip
    BY DEF AddressKept
  <2>1. CASE UNCHANGED servers
    BY <2>1
  <2>2. ASSUME NEW h \in Handlers, RegisterUpsertServer(h)
        PROVE  servers'[s].ip
    <3>1. CASE handler[h].server = s
      <4>1. servers'[s] = Upserted(s, handler[h].body)
        BY <1>1, <2>2, <3>1 DEF RegisterUpsertServer, TypeOK
      <4>2. Upserted(s, handler[h].body).ip
        BY DEF Upserted
      <4> QED
        BY <4>1, <4>2
    <3>2. CASE handler[h].server # s
      BY <1>1, <2>2, <3>2 DEF RegisterUpsertServer, TypeOK
    <3> QED
      BY <3>1, <3>2
  <2>3. ASSUME NEW h \in Handlers, DeleteServerRow(h)
        PROVE  servers'[s].ip
    <3>1. CASE UNCHANGED servers
      BY <3>1
    <3>2. CASE servers' = [servers EXCEPT ![handler[h].server] = Absent]
      BY <1>1, <3>2 DEF Registered, TypeOK
    <3> QED
      BY <2>3, <3>1, <3>2 DEF DeleteServerRow
  <2>4. \/ UNCHANGED servers
        \/ \E h \in Handlers : RegisterUpsertServer(h)
        \/ \E h \in Handlers : DeleteServerRow(h)
    BY <1>1 DEF Next, PeerRequest, ServerRequest, NodeRequest, TokenRequest, Failure, vars, AddPeerRevoke,
       AddPeerCreate, RevokeForUser, RevokeByKey, DeleteServerFind, DeleteServerClearPins, IngestMetric,
       RegisterCheckToken, RegisterCountUsage, CreateToken, RevokeToken, Restart, StatementFails
  <2> QED
    BY <2>1, <2>2, <2>3, <2>4
<1> QED
  BY <1>1, TypeCorrect, PTL DEF Spec, AddressSticky

-----------------------------------------------------------------------------
(* Refinement of the abstract directory. *)

LEMMA StepRefinesDirectory ==
  ASSUME TypeOK, [Next]_vars
  PROVE  [DirectoryNext]_peers
<1> USE DEF registry, tokenVars
<1>a. ASSUME NEW u \in Users, Deactivate(ActiveKeysOf(u))
      PROVE  DirectoryNext
  <2>1. ActiveKeysOf(u) \in SUBSET {k \in Known : peers[k].user = u}
    BY DEF ActiveKeysOf, ActiveKeys
  <2> QED
    BY <1>a, <2>1 DEF DirectoryNext, Withdraw
<1>1. ASSUME NEW h \in Handlers, NEW u \in Users, NEW k \in Keys, NEW s \in Pins,
             NEW c \in Credentials, AddPeerRevoke(h, u, k, s, c)
      PROVE  DirectoryNext
  BY <1>1, <1>a DEF AddPeerRevoke
<1>2. ASSUME NEW h \in Handlers, AddPeerCreate(h)
      PROVE  [DirectoryNext]_peers
  <2>1. handler[h] \in AddPeerRequest
    BY <1>2, RequestInProgress DEF AddPeerCreate
  <2>2. \/ UNCHANGED peers
        \/ Insert(handler[h].key, handler[h].user, handler[h].server, handler[h].auth)
    BY <1>2 DEF AddPeerCreate
  <2> QED
    BY <2>1, <2>2 DEF DirectoryNext, Admit, AddPeerRequest
<1>3. ASSUME NEW u \in Users, RevokeForUser(u)
      PROVE  DirectoryNext
  BY <1>3, <1>a DEF RevokeForUser
<1>4. ASSUME NEW k \in Keys, RevokeByKey(k)
      PROVE  DirectoryNext
  <2>1. peers[k].user \in Users
    BY <1>4 DEF RevokeByKey, TypeOK, DirectoryTypeOK, Known, Peer
  <2>2. {k} \in SUBSET {q \in Known : peers[q].user = peers[k].user}
    BY <1>4 DEF RevokeByKey
  <2> QED
    BY <1>4, <2>1, <2>2 DEF RevokeByKey, DirectoryNext, Withdraw
<1>5. ASSUME NEW h \in Handlers, DeleteServerClearPins(h)
      PROVE  DirectoryNext
  <2>1. handler[h].server \in Servers
    BY <1>5, RequestInProgress DEF DeleteServerClearPins, DeleteServerRequest
  <2> QED
    BY <1>5, <2>1 DEF DeleteServerClearPins, DirectoryNext, Unpin
<1>6. ASSUME NEW h \in Handlers, DeleteServerRow(h)
      PROVE  [DirectoryNext]_peers
  <2>1. handler[h].server \in Servers
    BY <1>6, RequestInProgress DEF DeleteServerRow, DeleteServerRequest
  <2> QED
    BY <1>6, <2>1 DEF DeleteServerRow, DirectoryNext, Unpin
<1>7. CASE UNCHANGED peers
  BY <1>7
<1> QED
  BY <1>1, <1>2, <1>3, <1>4, <1>5, <1>6, <1>7
  DEF Next, PeerRequest, ServerRequest, NodeRequest, TokenRequest, Failure, vars, DeleteServerFind,
      IngestMetric, RegisterCheckToken, RegisterCountUsage, RegisterUpsertServer, CreateToken,
      RevokeToken, Restart, StatementFails

(* The service, statement by statement, implements the directory that the web
   app and the nodes rely on: each statement admits one fresh key, withdraws
   keys of one user, unpins a server, or leaves the table alone.              *)
THEOREM ImplementsDirectory == Spec => DirectorySpec
<1>1. Init => DirectoryInit
  BY DEF Init
<1>2. TypeOK /\ [Next]_vars => [DirectoryNext]_peers
  BY StepRefinesDirectory
<1> QED
  BY <1>1, <1>2, TypeCorrect, PTL DEF Spec, DirectorySpec

-----------------------------------------------------------------------------
(* A key is admitted once and withdrawn for good, keeps its owner and its
   credentials, and its pin is never moved (server.ts:395-472): what lets a
   node treat the directory's answer as the whole truth.                      *)
THEOREM KeysLiveOnce == Spec => LifeCycle
  BY ImplementsDirectory, DirectoryKeepsLifeCycle

(***************************************************************************)
(* The nodes                                                               *)
(***************************************************************************)

-----------------------------------------------------------------------------
(* The list of backends, and what a backend makes of the peers it is handed. *)

LEMMA OrderFacts ==
  /\ Len(Order) \in Nat \ {0}
  /\ 1 \in 1..Len(Order)
  /\ \A i \in 1..Len(Order) : Order[i] \in Protocols
<1>1. Order \in Seq(Protocols) /\ Len(Order) > 0
  BY VpnNodeAssumption
<1>2. Len(Order) \in Nat
  BY <1>1
<1> QED
  BY <1>1, <1>2

LEMMA ShownBounds ==
  ASSUME NEW p, NEW K
  PROVE  /\ Shown(p, K) \subseteq K
         /\ p # "wireguard" => Shown(p, K) \subseteq WithLogin
  BY DEF Shown

LEMMA ServedAreKeys ==
  ASSUME NEW n
  PROVE  ServedTo(n) \subseteq Keys /\ ServedTo(n) \subseteq Known
  BY DEF ServedTo, ActiveKeys, Known

-----------------------------------------------------------------------------
(* Types *)

LEMMA AppliedTyped ==
  ASSUME NodeTypeOK, NEW n \in Nodes, NEW p \in Protocols, Applying(n, p), Applied(n) \/ NotApplied(n)
  PROVE  /\ phase' \in [Nodes -> Phases]
         /\ at' \in [Nodes -> 1..Len(Order)]
         /\ outcome' \in [Nodes -> {"none", "ok"} \cup Protocols]
<1>1. /\ at[n] \in 1..Len(Order)
      /\ Len(Order) \in Nat \ {0}
      /\ Order[at[n]] \in Protocols
  BY OrderFacts DEF NodeTypeOK
<1>a. ASSUME NEW r \in {"none", "ok"} \cup Protocols, EndPass(n, r)
      PROVE  /\ phase' \in [Nodes -> Phases]
             /\ at' \in [Nodes -> 1..Len(Order)]
             /\ outcome' \in [Nodes -> {"none", "ok"} \cup Protocols]
  BY <1>1, <1>a DEF EndPass, NodeTypeOK, Phases
<1>2. CASE NotApplied(n)
  BY <1>1, <1>2, <1>a DEF NotApplied
<1>3. CASE Applied(n) /\ at[n] < Len(Order)
  <2>1. at[n] + 1 \in 1..Len(Order)
    BY <1>1, <1>3
  <2>2. at' = [at EXCEPT ![n] = at[n] + 1] /\ UNCHANGED <<phase, outcome>>
    BY <1>3 DEF Applied
  <2> QED
    BY <2>1, <2>2 DEF NodeTypeOK
<1>4. CASE Applied(n) /\ ~(at[n] < Len(Order))
  <2>1. EndPass(n, "ok")
    BY <1>4 DEF Applied
  <2> QED
    BY <2>1, <1>a
<1> QED
  BY <1>2, <1>3, <1>4

\* A backend's peers are overwritten.
LEMMA PutTyped ==
  ASSUME NEW store \in [Nodes -> PeerSets], NEW n \in Nodes, NEW p \in Protocols, NEW K \in SUBSET AnyKey
  PROVE  /\ Put(store, n, p, K) \in [Nodes -> PeerSets]
         /\ \A m \in Nodes, q \in Protocols :
              Put(store, n, p, K)[m][q] = IF m = n /\ q = p THEN K ELSE store[m][q]
<1>1. store[n] \in [Protocols -> SUBSET AnyKey]
  BY DEF PeerSets
<1>2. [store[n] EXCEPT ![p] = K] \in [Protocols -> SUBSET AnyKey]
  BY <1>1
<1>3. [store EXCEPT ![n] = [store[n] EXCEPT ![p] = K]] \in [Nodes -> PeerSets]
  BY <1>2 DEF PeerSets
<1>4. ASSUME NEW m \in Nodes, NEW q \in Protocols
      PROVE  [store EXCEPT ![n] = [store[n] EXCEPT ![p] = K]][m][q]
               = IF m = n /\ q = p THEN K ELSE store[m][q]
  <2>1. CASE m = n
    BY <1>1, <2>1
  <2>2. CASE m # n
    BY <2>2
  <2> QED
    BY <2>1, <2>2
<1> QED
  BY <1>3, <1>4 DEF Put

LEMMA StoreNames == "wireguard" \in Protocols /\ "openvpn" \in Protocols /\ "ikev2" \in Protocols
  BY DEF Protocols

\* What apply_peers may do to a store of a backend.
LEMMA ShownTyped ==
  ASSUME NodeTypeOK, NEW n \in Nodes, NEW p
  PROVE  Shown(p, wanted[n]) \in SUBSET AnyKey
  BY ShownBounds DEF NodeTypeOK

LEMMA ApplyTyped ==
  ASSUME NodeTypeOK, NEW n \in Nodes, Apply(n)
  PROVE  file' \in [Nodes -> PeerSets] /\ live' \in [Nodes -> PeerSets]
<1>1. file \in [Nodes -> PeerSets] /\ live \in [Nodes -> PeerSets]
  BY DEF NodeTypeOK
<1>2. ASSUME NEW p \in Protocols, NEW store \in [Nodes -> PeerSets], NEW K \in SUBSET Shown(p, wanted[n])
      PROVE  /\ Put(store, n, p, K) \in [Nodes -> PeerSets]
             /\ Replaced(store, n, p) \in [Nodes -> PeerSets]
  <2>1. Shown(p, wanted[n]) \in SUBSET AnyKey /\ K \in SUBSET AnyKey
    BY ShownTyped
  <2> QED
    BY <2>1, PutTyped DEF Replaced
<1>3. CASE ApplyWireGuard(n) \/ ApplyWireGuardFails(n)
  <2>1. /\ file' = file \/ file' = Replaced(file, n, "wireguard")
        /\ live' = live \/ live' = Replaced(live, n, "wireguard")
    BY <1>3 DEF ApplyWireGuard, ApplyWireGuardFails, disk
  <2> QED
    BY <1>1, <1>2, <2>1, StoreNames
<1>4. CASE ApplyOpenVpn(n) \/ ApplyOpenVpnFails(n)
  <2>1. /\ \/ file' = file \/ file' = Replaced(file, n, "openvpn")
           \/ \E K \in SUBSET Shown("openvpn", wanted[n]) : file' = Put(file, n, "openvpn", K)
        /\ live' = live
    BY <1>4 DEF ApplyOpenVpn, ApplyOpenVpnFails
  <2>2. /\ Replaced(file, n, "openvpn") \in [Nodes -> PeerSets]
        /\ \A K \in SUBSET Shown("openvpn", wanted[n]) : Put(file, n, "openvpn", K) \in [Nodes -> PeerSets]
    BY <1>1, <1>2, StoreNames
  <2> QED
    BY <1>1, <2>1, <2>2
<1>5. CASE ApplyIkev2(n) \/ ApplyIkev2NotReloaded(n) \/ ApplyIkev2Fails(n)
  <2>1. /\ \/ file' = file \/ file' = Replaced(file, n, "ikev2")
           \/ \E K \in SUBSET Shown("ikev2", wanted[n]) : file' = Put(file, n, "ikev2", K)
        /\ live' = live \/ live' = Replaced(live, n, "ikev2")
    BY <1>5 DEF ApplyIkev2, ApplyIkev2NotReloaded, ApplyIkev2Fails
  <2>2. /\ Replaced(file, n, "ikev2") \in [Nodes -> PeerSets]
        /\ Replaced(live, n, "ikev2") \in [Nodes -> PeerSets]
        /\ \A K \in SUBSET Shown("ikev2", wanted[n]) : Put(file, n, "ikev2", K) \in [Nodes -> PeerSets]
    BY <1>1, <1>2, StoreNames
  <2> QED
    BY <1>1, <2>1, <2>2
<1> QED
  BY <1>3, <1>4, <1>5 DEF Apply

LEMMA NodeTypeOKStep ==
  ASSUME NodeTypeOK, AttemptsLeft, [NodeNext]_nodeVars
  PROVE  NodeTypeOK'
<1> USE DEF disk, progress
<1>t. /\ file \in [Nodes -> PeerSets] /\ live \in [Nodes -> PeerSets]
      /\ phase \in [Nodes -> Phases]
      /\ wanted \in [Nodes -> SUBSET AnyKey]
      /\ at \in [Nodes -> 1..Len(Order)]
      /\ outcome \in [Nodes -> {"none", "ok"} \cup Protocols]
      /\ attempts \in [Nodes -> 0..MaxAttempts]
      /\ crashes \in 0..MaxCrashes
  BY DEF NodeTypeOK
<1>b. ASSUME NEW n \in Nodes, NEW K \in SUBSET AnyKey, BeginPass(n, K)
      PROVE  /\ wanted' \in [Nodes -> SUBSET AnyKey]
             /\ at' \in [Nodes -> 1..Len(Order)]
             /\ outcome' \in [Nodes -> {"none", "ok"} \cup Protocols]
  <2>1. 1 \in 1..Len(Order)
    BY OrderFacts
  <2> QED
    BY <1>t, <1>b, <2>1 DEF BeginPass
<1>1. CASE DirectoryStep
  <2>1. DirectoryTypeOK'
    BY <1>1, DirectoryNextTyped DEF DirectoryStep, NodeTypeOK
  <2>2. \A n \in Nodes : ServedTo(n)' \subseteq Keys
    BY DEF ServedTo, ActiveKeys, Known
  <2>3. granted' \in [Nodes -> SUBSET Keys]
    BY <1>1, <2>2 DEF DirectoryStep, NodeTypeOK
  <2> QED
    BY <1>1, <2>1, <2>3 DEF DirectoryStep, NodeTypeOK
<1>2. ASSUME NEW n \in Nodes, Start(n)
      PROVE  NodeTypeOK'
  <2>1. live' \in [Nodes -> PeerSets]
    <3>1. \/ live' = live
          \/ live' = Put(live, n, "wireguard", file[n]["wireguard"])
      BY <1>2 DEF Start
    <3>2. file[n]["wireguard"] \in SUBSET AnyKey
      BY <1>t, StoreNames DEF PeerSets
    <3>3. Put(live, n, "wireguard", file[n]["wireguard"]) \in [Nodes -> PeerSets]
      BY <1>t, <3>2, PutTyped, StoreNames
    <3> QED
      BY <1>t, <3>1, <3>3
  <2>2. PICK K \in {{Static}, {}}, ph \in {"static", "ikev2"} :
          BeginPass(n, K) /\ phase' = [phase EXCEPT ![n] = ph]
    BY <1>2 DEF Start
  <2>3. phase' \in [Nodes -> Phases]
    BY <1>t, <2>2 DEF Phases
  <2>4. /\ wanted' \in [Nodes -> SUBSET AnyKey]
        /\ at' \in [Nodes -> 1..Len(Order)]
        /\ outcome' \in [Nodes -> {"none", "ok"} \cup Protocols]
    BY <1>b, <2>2 DEF AnyKey
  <2>5. attempts' \in [Nodes -> 0..MaxAttempts]
    BY <1>2, <1>t, VpnNodeAssumption DEF Start
  <2> QED
    BY <1>2, <2>1, <2>3, <2>4, <2>5 DEF Start, NodeTypeOK, DirectoryTypeOK
<1>3. ASSUME NEW n \in Nodes, SetupIkev2(n)
      PROVE  NodeTypeOK'
  <2>1. /\ file' = file \/ file' = Put(file, n, "ikev2", {})
        /\ live' = live \/ live' = Put(live, n, "ikev2", {})
    BY <1>3 DEF SetupIkev2
  <2>2. file' \in [Nodes -> PeerSets] /\ live' \in [Nodes -> PeerSets]
    <3>1. Put(file, n, "ikev2", {}) \in [Nodes -> PeerSets] /\ Put(live, n, "ikev2", {}) \in [Nodes -> PeerSets]
      BY <1>t, PutTyped, StoreNames
    <3> QED
      BY <1>t, <2>1, <3>1
  <2>3. phase' \in [Nodes -> Phases]
    BY <1>3, <1>t DEF SetupIkev2, Phases
  <2> QED
    BY <1>3, <2>2, <2>3 DEF SetupIkev2, NodeTypeOK, DirectoryTypeOK
<1>4. ASSUME NEW n \in Nodes, RegisterSucceeds(n)
      PROVE  NodeTypeOK'
  BY <1>4 DEF RegisterSucceeds, Phases, NodeTypeOK, DirectoryTypeOK
<1>5. ASSUME NEW n \in Nodes, RegisterFails(n)
      PROVE  NodeTypeOK'
  <2>1. MaxAttempts \in Nat /\ MaxCrashes \in Nat
    BY VpnNodeAssumption
  <2>2. attempts' \in [Nodes -> 0..MaxAttempts]
    <3>1. attempts[n] \in 0..(MaxAttempts - 1)
      BY <1>5, <1>t, <2>1 DEF RegisterFails, AttemptsLeft
    <3>2. attempts' = [attempts EXCEPT ![n] = attempts[n] + 1]
      BY <1>5 DEF RegisterFails
    <3> QED
      BY <1>t, <2>1, <3>1, <3>2
  <2>3. phase' = phase \/ phase' = [phase EXCEPT ![n] = "down"]
    BY <1>5 DEF RegisterFails
  <2>4. crashes' \in 0..MaxCrashes
    BY <1>5, <1>t, <2>1 DEF RegisterFails
  <2>5. phase' \in [Nodes -> Phases]
    BY <1>t, <2>3 DEF Phases
  <2> QED
    BY <1>5, <2>2, <2>4, <2>5 DEF RegisterFails, NodeTypeOK, DirectoryTypeOK
<1>6. ASSUME NEW n \in Nodes, FetchPeers(n)
      PROVE  NodeTypeOK'
  <2>1. ServedTo(n) \in SUBSET AnyKey
    BY ServedAreKeys DEF AnyKey
  <2>2. phase' \in [Nodes -> Phases]
    BY <1>6, <1>t DEF FetchPeers, Phases
  <2> QED
    BY <1>6, <1>b, <2>1, <2>2 DEF FetchPeers, NodeTypeOK, DirectoryTypeOK
<1>7. ASSUME NEW n \in Nodes, Apply(n)
      PROVE  NodeTypeOK'
  <2>1. \E p \in Protocols : Applying(n, p) /\ (Applied(n) \/ NotApplied(n))
    BY <1>7, StoreNames DEF Apply, ApplyWireGuard, ApplyWireGuardFails, ApplyOpenVpn,
         ApplyOpenVpnFails, ApplyIkev2, ApplyIkev2NotReloaded, ApplyIkev2Fails
  <2>2. UNCHANGED <<peers, attempts, wanted, granted, crashes>>
    BY <1>7 DEF Apply, ApplyWireGuard, ApplyWireGuardFails, ApplyOpenVpn, ApplyOpenVpnFails,
         ApplyIkev2, ApplyIkev2NotReloaded, ApplyIkev2Fails
  <2> QED
    BY <1>7, <2>1, <2>2, ApplyTyped, AppliedTyped DEF NodeTypeOK, DirectoryTypeOK
<1>8. ASSUME NEW n \in Nodes, Crash(n)
      PROVE  NodeTypeOK'
  <2>1. PICK lost \in SUBSET {"wireguard", "ikev2"} :
          live' = [live EXCEPT ![n] = [p \in Protocols |-> IF p \in lost THEN {} ELSE live[n][p]]]
    BY <1>8 DEF Crash
  <2>2. live' \in [Nodes -> PeerSets]
    <3>1. [p \in Protocols |-> IF p \in lost THEN {} ELSE live[n][p]] \in PeerSets
      BY <1>t DEF PeerSets
    <3> QED
      BY <1>t, <2>1, <3>1
  <2>3. file' \in [Nodes -> PeerSets]
    <3>1. Nobody \in PeerSets
      BY DEF Nobody, PeerSets
    <3>2. file' = file \/ file' = [file EXCEPT ![n] = Nobody]
      BY <1>8 DEF Crash
    <3> QED
      BY <1>t, <3>1, <3>2
  <2>4. crashes' \in 0..MaxCrashes
    BY <1>8, <1>t, VpnNodeAssumption DEF Crash
  <2>5. 1 \in 1..Len(Order)
    BY OrderFacts
  <2>6. /\ phase' \in [Nodes -> Phases]
        /\ at' \in [Nodes -> 1..Len(Order)]
        /\ outcome' \in [Nodes -> {"none", "ok"} \cup Protocols]
    BY <1>8, <1>t, <2>5 DEF Crash, Phases
  <2> QED
    BY <1>8, <2>2, <2>3, <2>4, <2>6 DEF Crash, NodeTypeOK, DirectoryTypeOK
<1>9. CASE UNCHANGED nodeVars
  BY <1>9 DEF nodeVars, NodeTypeOK, DirectoryTypeOK
<1> QED
  BY <1>1, <1>2, <1>3, <1>4, <1>5, <1>6, <1>7, <1>8, <1>9 DEF NodeNext, NodeStep

LEMMA AttemptsLeftStep ==
  ASSUME NodeTypeOK, AttemptsLeft, [NodeNext]_nodeVars
  PROVE  AttemptsLeft'
<1> USE DEF AttemptsLeft, disk, progress
<1>t. phase \in [Nodes -> Phases] /\ attempts \in [Nodes -> 0..MaxAttempts] /\ MaxAttempts \in Nat \ {0}
  BY VpnNodeAssumption DEF NodeTypeOK
<1>1. CASE UNCHANGED <<phase, attempts>>
  BY <1>1
<1>2. ASSUME NEW n \in Nodes, Start(n)
      PROVE  AttemptsLeft'
  <2>1. /\ attempts' = [attempts EXCEPT ![n] = 0]
        /\ \E ph \in Phases : phase' = [phase EXCEPT ![n] = ph]
    BY <1>2 DEF Start, Phases
  <2> QED
    BY <1>t, <2>1
<1>3. ASSUME NEW n \in Nodes, UNCHANGED attempts, phase[n] # "down",
             \E ph \in Phases : phase' = [phase EXCEPT ![n] = ph]
      PROVE  AttemptsLeft'
  BY <1>t, <1>3
<1>4. ASSUME NEW n \in Nodes, SetupIkev2(n) \/ RegisterSucceeds(n) \/ FetchPeers(n) \/ Crash(n)
      PROVE  AttemptsLeft'
  BY <1>3, <1>4 DEF SetupIkev2, RegisterSucceeds, FetchPeers, Crash, Phases
<1>5. ASSUME NEW n \in Nodes, RegisterFails(n)
      PROVE  AttemptsLeft'
  <2>1. attempts' = [attempts EXCEPT ![n] = attempts[n] + 1]
    BY <1>5 DEF RegisterFails
  <2>2. CASE attempts'[n] >= MaxAttempts
    <3>1. phase' = [phase EXCEPT ![n] = "down"]
      BY <1>5, <2>2 DEF RegisterFails
    <3> QED
      BY <1>t, <2>1, <3>1
  <2>3. CASE ~(attempts'[n] >= MaxAttempts)
    <3>1. UNCHANGED phase /\ attempts'[n] = attempts[n] + 1
      BY <1>5, <1>t, <2>1, <2>3 DEF RegisterFails
    <3> QED
      BY <1>t, <2>1, <2>3, <3>1
  <2> QED
    BY <2>2, <2>3
<1>6. ASSUME NEW n \in Nodes, Apply(n)
      PROVE  AttemptsLeft'
  <2>1. /\ phase[n] \in {"static", "applying"}
        /\ UNCHANGED attempts
        /\ Applied(n) \/ NotApplied(n)
    BY <1>6 DEF Apply, ApplyWireGuard, ApplyWireGuardFails, ApplyOpenVpn, ApplyOpenVpnFails,
         ApplyIkev2, ApplyIkev2NotReloaded, ApplyIkev2Fails, Applying
  <2>2. \/ UNCHANGED phase
        \/ phase' = [phase EXCEPT ![n] = IF phase[n] = "static" THEN "ikev2" ELSE "sleeping"]
    BY <2>1 DEF Applied, NotApplied, EndPass
  <2> QED
    BY <1>1, <1>3, <2>1, <2>2 DEF Phases
<1> QED
  BY <1>1, <1>2, <1>4, <1>5, <1>6 DEF NodeNext, NodeStep, DirectoryStep, nodeVars

LEMMA NodeInitTyped ==
  ASSUME NodeInit
  PROVE  NodeTypeOK /\ AttemptsLeft
<1>1. DirectoryTypeOK
  BY DirectoryInitTyped DEF NodeInit
<1>2. NodeTypeOK
  BY <1>1, OrderFacts, VpnNodeAssumption DEF NodeInit, NodeTypeOK, Phases, PeerSets, Nobody
<1>3. AttemptsLeft
  BY DEF NodeInit, AttemptsLeft
<1> QED
  BY <1>2, <1>3

(* Every reachable state of a node has its types: the agent never runs past its list
   of backends (vpn/mod.rs:232-246) nor beyond its attempts (main.rs:570-593).       *)
THEOREM NodeTypeCorrect == NodeSpec => []NodeTypeOK
<1>1. NodeInit => NodeTypeOK /\ AttemptsLeft
  BY NodeInitTyped
<1>2. NodeTypeOK /\ AttemptsLeft /\ [NodeNext]_nodeVars => NodeTypeOK' /\ AttemptsLeft'
  BY NodeTypeOKStep, AttemptsLeftStep
<1> QED
  BY <1>1, <1>2, PTL DEF NodeSpec

-----------------------------------------------------------------------------
(* What a node accepts *)

\* Whatever the directory does, a known key stays known and keeps its login.
LEMMA LoginsKept ==
  ASSUME DirectoryTypeOK, [DirectoryNext]_peers
  PROVE  Known \subseteq Known' /\ \A k \in Known : k \in WithLogin <=> k \in WithLogin'
<1>1. \A k \in Keys : KeyLifeCycle(k)
  BY DirectoryNextLifeCycle, SentinelsAssumption
<1> QED
  BY <1>1 DEF KeyLifeCycle, Known, WithLogin

\* The agent adds to a backend only what it was handed, with a login where one is needed.
LEMMA NodeStepKeepsGranted ==
  ASSUME OnlyGrantedStored, UNCHANGED <<peers, granted>>,
         \A m \in Nodes : wanted'[m] \subseteq granted[m] \cup {Static},
         \A m \in Nodes, q \in Protocols :
           Stored(m, q)' \subseteq Stored(m, q) \cup Shown(q, wanted[m])
  PROVE  OnlyGrantedStored'
<1>1. UNCHANGED WithLogin /\ UNCHANGED Known /\ \A m \in Nodes : ServedTo(m)' = ServedTo(m)
  BY DEF WithLogin, Known, ServedTo, ActiveKeys
<1>2. ASSUME NEW m \in Nodes, NEW q \in Protocols
      PROVE  /\ Stored(m, q)' \subseteq granted[m] \cup {Static}
             /\ q # "wireguard" => Stored(m, q)' \subseteq WithLogin
  <2>1. Shown(q, wanted[m]) \subseteq granted[m] \cup {Static}
    BY ShownBounds DEF OnlyGrantedStored
  <2> QED
    BY <2>1, ShownBounds DEF OnlyGrantedStored
<1> QED
  BY <1>1, <1>2 DEF OnlyGrantedStored

\* What a step of apply_peers leaves in the stores.
LEMMA ApplyStores ==
  ASSUME NodeTypeOK, NEW n \in Nodes, Apply(n)
  PROVE  /\ UNCHANGED <<peers, wanted, granted>>
         /\ \A m \in Nodes, q \in Protocols :
              Stored(m, q)' \subseteq Stored(m, q) \cup Shown(q, wanted[m])
<1>1. file \in [Nodes -> PeerSets] /\ live \in [Nodes -> PeerSets]
  BY DEF NodeTypeOK
<1>2. ASSUME NEW p \in Protocols, NEW store \in [Nodes -> PeerSets], NEW K \in SUBSET Shown(p, wanted[n]),
             NEW m \in Nodes, NEW q \in Protocols
      PROVE  /\ Put(store, n, p, K)[m][q] \subseteq store[m][q] \cup Shown(q, wanted[m])
             /\ Replaced(store, n, p)[m][q] \subseteq store[m][q] \cup Shown(q, wanted[m])
  <2>1. Shown(p, wanted[n]) \in SUBSET AnyKey /\ K \in SUBSET AnyKey
    BY ShownTyped
  <2>2. Put(store, n, p, K)[m][q] = IF m = n /\ q = p THEN K ELSE store[m][q]
    BY <2>1, PutTyped
  <2>3. Replaced(store, n, p)[m][q] = IF m = n /\ q = p THEN Shown(p, wanted[n]) ELSE store[m][q]
    BY <2>1, PutTyped DEF Replaced
  <2> QED
    BY <2>2, <2>3
<1>3. PICK p \in Protocols :
        /\ \/ file' = file \/ file' = Replaced(file, n, p)
           \/ \E K \in SUBSET Shown(p, wanted[n]) : file' = Put(file, n, p, K)
        /\ live' = live \/ live' = Replaced(live, n, p)
  BY StoreNames DEF Apply, ApplyWireGuard, ApplyWireGuardFails, ApplyOpenVpn, ApplyOpenVpnFails,
       ApplyIkev2, ApplyIkev2NotReloaded, ApplyIkev2Fails, disk
<1>4. ASSUME NEW m \in Nodes, NEW q \in Protocols
      PROVE  file'[m][q] \subseteq file[m][q] \cup Shown(q, wanted[m])
  <2>1. CASE file' = file
    BY <2>1
  <2>2. CASE file' = Replaced(file, n, p)
    BY <1>1, <1>2, <2>2
  <2>3. CASE \E K \in SUBSET Shown(p, wanted[n]) : file' = Put(file, n, p, K)
    BY <1>1, <1>2, <2>3
  <2> QED
    BY <1>3, <2>1, <2>2, <2>3
<1>5. ASSUME NEW m \in Nodes, NEW q \in Protocols
      PROVE  live'[m][q] \subseteq live[m][q] \cup Shown(q, wanted[m])
  <2>1. CASE live' = live
    BY <2>1
  <2>2. CASE live' = Replaced(live, n, p)
    BY <1>1, <1>2, <2>2
  <2> QED
    BY <1>3, <2>1, <2>2
<1>6. UNCHANGED <<peers, wanted, granted>>
  BY DEF Apply, ApplyWireGuard, ApplyWireGuardFails, ApplyOpenVpn, ApplyOpenVpnFails,
       ApplyIkev2, ApplyIkev2NotReloaded, ApplyIkev2Fails
<1> QED
  BY <1>4, <1>5, <1>6 DEF Stored

LEMMA OnlyGrantedStep ==
  ASSUME NodeTypeOK, OnlyGrantedStored, [NodeNext]_nodeVars
  PROVE  OnlyGrantedStored'
<1> USE DEF disk, progress
<1>t. /\ file \in [Nodes -> PeerSets] /\ live \in [Nodes -> PeerSets]
      /\ wanted \in [Nodes -> SUBSET AnyKey]
      /\ granted \in [Nodes -> SUBSET Keys]
  BY DEF NodeTypeOK
<1>w. ASSUME NEW n \in Nodes, NEW K \in SUBSET (granted[n] \cup {Static}), wanted' = [wanted EXCEPT ![n] = K]
      PROVE  \A m \in Nodes : wanted'[m] \subseteq granted[m] \cup {Static}
  BY <1>t, <1>w DEF OnlyGrantedStored
<1>u. \A m \in Nodes : wanted[m] \subseteq granted[m] \cup {Static}
  BY DEF OnlyGrantedStored
<1>1. CASE DirectoryStep
  <2>1. Known \subseteq Known' /\ \A k \in Known : k \in WithLogin => k \in WithLogin'
    BY <1>1, LoginsKept DEF DirectoryStep, NodeTypeOK
  <2>2. \A m \in Nodes : granted'[m] = granted[m] \cup ServedTo(m)' /\ ServedTo(m)' \subseteq Known'
    BY <1>1, <1>t DEF DirectoryStep, ServedTo, ActiveKeys
  <2>3. WithLogin \subseteq WithLogin'
    BY <2>1 DEF WithLogin
  <2>4. UNCHANGED <<wanted, file, live>>
    BY <1>1 DEF DirectoryStep
  <2> QED
    BY <2>1, <2>2, <2>3, <2>4 DEF OnlyGrantedStored, Stored
<1>2. ASSUME NEW n \in Nodes, Start(n)
      PROVE  OnlyGrantedStored'
  <2>1. \A m \in Nodes : wanted'[m] \subseteq granted[m] \cup {Static}
    BY <1>2, <1>w DEF Start, BeginPass
  <2>2. ASSUME NEW m \in Nodes, NEW q \in Protocols
        PROVE  Stored(m, q)' \subseteq Stored(m, q)
    <3>1. UNCHANGED file
      BY <1>2 DEF Start
    <3>2. CASE live' = live
      BY <3>1, <3>2 DEF Stored
    <3>3. CASE live' = Put(live, n, "wireguard", file[n]["wireguard"])
      <4>1. file[n]["wireguard"] \in SUBSET AnyKey
        BY <1>t, StoreNames DEF PeerSets
      <4>2. live'[m][q] = IF m = n /\ q = "wireguard" THEN file[n]["wireguard"] ELSE live[m][q]
        BY <1>t, <3>3, <4>1, PutTyped, StoreNames
      <4> QED
        BY <3>1, <4>2 DEF Stored
    <3> QED
      BY <1>2, <3>2, <3>3 DEF Start
  <2>3. UNCHANGED <<peers, granted>>
    BY <1>2 DEF Start
  <2> QED
    BY <2>1, <2>2, <2>3, NodeStepKeepsGranted
<1>3. ASSUME NEW n \in Nodes, SetupIkev2(n)
      PROVE  OnlyGrantedStored'
  <2>1. /\ file' = file \/ file' = Put(file, n, "ikev2", {})
        /\ live' = live \/ live' = Put(live, n, "ikev2", {})
        /\ UNCHANGED <<peers, wanted, granted>>
    BY <1>3 DEF SetupIkev2
  <2>2. ASSUME NEW m \in Nodes, NEW q \in Protocols, NEW store \in [Nodes -> PeerSets]
        PROVE  Put(store, n, "ikev2", {})[m][q] \subseteq store[m][q]
    <3>1. Put(store, n, "ikev2", {})[m][q] = IF m = n /\ q = "ikev2" THEN {} ELSE store[m][q]
      BY PutTyped, StoreNames
    <3> QED
      BY <3>1
  <2>3. ASSUME NEW m \in Nodes, NEW q \in Protocols
        PROVE  Stored(m, q)' \subseteq Stored(m, q)
    BY <1>t, <2>1, <2>2 DEF Stored
  <2> QED
    BY <1>u, <2>1, <2>3, NodeStepKeepsGranted
<1>4. ASSUME UNCHANGED <<peers, wanted, file, live, granted>>
      PROVE  OnlyGrantedStored'
  <2>1. \A m \in Nodes, q \in Protocols : Stored(m, q)' = Stored(m, q)
    BY <1>4 DEF Stored
  <2> QED
    BY <1>4, <1>u, <2>1, NodeStepKeepsGranted
<1>5. ASSUME NEW n \in Nodes, RegisterSucceeds(n) \/ RegisterFails(n)
      PROVE  OnlyGrantedStored'
  BY <1>4, <1>5 DEF RegisterSucceeds, RegisterFails
<1>6. ASSUME NEW n \in Nodes, FetchPeers(n)
      PROVE  OnlyGrantedStored'
  <2>1. ServedTo(n) \subseteq granted[n] \cup {Static}
    BY DEF OnlyGrantedStored
  <2>2. \A m \in Nodes : wanted'[m] \subseteq granted[m] \cup {Static}
    BY <1>6, <1>w, <2>1 DEF FetchPeers, BeginPass
  <2>3. UNCHANGED <<peers, file, live, granted>>
    BY <1>6 DEF FetchPeers
  <2>4. \A m \in Nodes, q \in Protocols : Stored(m, q)' = Stored(m, q)
    BY <2>3 DEF Stored
  <2> QED
    BY <2>2, <2>3, <2>4, NodeStepKeepsGranted
<1>7. ASSUME NEW n \in Nodes, Apply(n)
      PROVE  OnlyGrantedStored'
  BY <1>7, <1>u, ApplyStores, NodeStepKeepsGranted
<1>8. ASSUME NEW n \in Nodes, Crash(n)
      PROVE  OnlyGrantedStored'
  <2>1. PICK lost \in SUBSET {"wireguard", "ikev2"} :
          live' = [live EXCEPT ![n] = [p \in Protocols |-> IF p \in lost THEN {} ELSE live[n][p]]]
    BY <1>8 DEF Crash
  <2>2. file' = file \/ file' = [file EXCEPT ![n] = Nobody]
    BY <1>8 DEF Crash
  <2>3. \A m \in Nodes, q \in Protocols : live'[m][q] \subseteq live[m][q]
    BY <1>t, <2>1
  <2>4. \A m \in Nodes, q \in Protocols : file'[m][q] \subseteq file[m][q]
    BY <1>t, <2>2 DEF Nobody
  <2>5. UNCHANGED <<peers, wanted, granted>>
    BY <1>8 DEF Crash
  <2>6. \A m \in Nodes, q \in Protocols : Stored(m, q)' \subseteq Stored(m, q)
    BY <2>3, <2>4 DEF Stored
  <2> QED
    BY <1>u, <2>5, <2>6, NodeStepKeepsGranted
<1>9. CASE UNCHANGED nodeVars
  BY <1>4, <1>9 DEF nodeVars
<1> QED
  BY <1>1, <1>2, <1>3, <1>5, <1>6, <1>7, <1>8, <1>9 DEF NodeNext, NodeStep

LEMMA GrantedStoredInit ==
  ASSUME NodeInit
  PROVE  OnlyGrantedStored
<1>1. \A n \in Nodes : ServedTo(n) = {}
  BY DEF NodeInit, DirectoryInit, ServedTo, ActiveKeys, Known
<1> QED
  BY <1>1 DEF NodeInit, OnlyGrantedStored, Stored, Nobody

LEMMA GrantedStoredAlways == NodeSpec => []OnlyGrantedStored
<1>1. NodeInit => OnlyGrantedStored
  BY GrantedStoredInit
<1>2. NodeTypeOK /\ OnlyGrantedStored /\ [NodeNext]_nodeVars => OnlyGrantedStored'
  BY OnlyGrantedStep
<1> QED
  BY <1>1, <1>2, NodeTypeCorrect, PTL DEF NodeSpec

(* Through crashes, stale files, failed and interrupted passes a node accepts only
   peers the directory once had for it, and over OpenVPN and IKEv2 only those with a
   login (server.ts:254-262, vpn/wireguard.rs:255-343, openvpn.rs:202-227).         *)
THEOREM NodeServesOnlyGranted == NodeSpec => []OnlyGranted
<1>1. OnlyGrantedStored => OnlyGranted
  BY DEF OnlyGrantedStored, OnlyGranted, Stored, Accepts
<1> QED
  BY <1>1, GrantedStoredAlways, PTL
-----------------------------------------------------------------------------
(* What a pass leaves behind *)

\* Nobody gives the static peer a login.
LEMMA StaticHasNoLogin == Static \notin WithLogin /\ Static \notin WithLogin'
  BY VpnNodeAssumption DEF WithLogin, Known

LEMMA SettledKept ==
  ASSUME NEW m \in Nodes, NEW p \in Protocols,
         wanted'[m] = wanted[m], file'[m][p] = file[m][p], live'[m][p] = live[m][p],
         \A k \in wanted[m] : k \in WithLogin <=> k \in WithLogin',
         Settled(m, p)
  PROVE  Settled(m, p)'
  BY DEF Settled, Shown, Accepts

\* A step of one agent is none of the others.
LEMMA PassOfOthers ==
  ASSUME NodeTypeOK, PassInProgress, NEW n \in Nodes, UNCHANGED peers, PassOf(n)',
         \A m \in Nodes \ {n} : /\ phase'[m] = phase[m] /\ at'[m] = at[m]
                                /\ outcome'[m] = outcome[m] /\ wanted'[m] = wanted[m]
                                /\ file'[m] = file[m] /\ live'[m] = live[m]
  PROVE  PassInProgress'
<1>1. ASSUME NEW m \in Nodes \ {n}
      PROVE  PassOf(m)'
  <2>1. PassOf(m)
    BY DEF PassInProgress
  <2>2. UNCHANGED WithLogin
    BY DEF WithLogin, Known
  <2>3. \A p \in Protocols : Settled(m, p) => Settled(m, p)'
    BY <2>2, SettledKept
  <2>4. \A i \in 1..Len(Order) : Settled(m, Order[i]) => Settled(m, Order[i])'
    BY <2>3, OrderFacts
  <2>5. (\A i \in 1..Len(Order) : Settled(m, Order[i])) => \A i \in 1..Len(Order) : Settled(m, Order[i])'
    BY <2>4
  <2> QED
    <3>1. /\ phase'[m] = phase[m] /\ at'[m] = at[m]
          /\ outcome'[m] = outcome[m] /\ wanted'[m] = wanted[m]
      OBVIOUS
    <3>2. \A i \in 1..(at[m] - 1) : i \in 1..Len(Order)
      BY OrderFacts DEF NodeTypeOK
    <3> QED
      BY <2>1, <2>4, <2>5, <3>1, <3>2 DEF PassOf
<1> QED
  BY <1>1 DEF PassInProgress

\* apply_peers of one backend, if it ends well, settles that backend and no other.
LEMMA ApplySettles ==
  ASSUME NodeTypeOK, NEW n \in Nodes, Apply(n)
  PROVE  \E p \in Protocols :
           /\ Applying(n, p)
           /\ \A m \in Nodes, q \in Protocols : m # n \/ q # p =>
                file'[m][q] = file[m][q] /\ live'[m][q] = live[m][q]
           /\ (Applied(n) /\ Settled(n, p)') \/ NotApplied(n)
<1>t. file \in [Nodes -> PeerSets] /\ live \in [Nodes -> PeerSets]
  BY DEF NodeTypeOK
<1>u. UNCHANGED <<peers, wanted>> /\ \A p : Shown(p, wanted[n])' = Shown(p, wanted[n])
  <2>1. UNCHANGED <<peers, wanted>>
    BY ApplyStores
  <2> QED
    BY <2>1 DEF Shown, WithLogin, Known
<1>1. ASSUME NEW p \in Protocols, NEW store \in [Nodes -> PeerSets], NEW K \in SUBSET Shown(p, wanted[n]),
             NEW m \in Nodes, NEW q \in Protocols
      PROVE  Put(store, n, p, K)[m][q] = IF m = n /\ q = p THEN K ELSE store[m][q]
  <2>1. K \in SUBSET AnyKey
    BY ShownTyped
  <2> QED
    BY <2>1, PutTyped
<1>r. ASSUME NEW p \in Protocols, NEW store \in [Nodes -> PeerSets], NEW m \in Nodes, NEW q \in Protocols
      PROVE  Replaced(store, n, p)[m][q] = IF m = n /\ q = p THEN Shown(p, wanted[n]) ELSE store[m][q]
  BY <1>1 DEF Replaced
<1>2. PICK p \in Protocols :
        /\ Applying(n, p)
        /\ \/ file' = file \/ file' = Replaced(file, n, p)
           \/ \E K \in SUBSET Shown(p, wanted[n]) : file' = Put(file, n, p, K)
        /\ live' = live \/ live' = Replaced(live, n, p)
        /\ \/ /\ Applied(n)
              /\ file' = Replaced(file, n, p)
              /\ p = "wireguard" => live' = Replaced(live, n, p)
           \/ NotApplied(n)
  BY StoreNames DEF Apply, ApplyWireGuard, ApplyWireGuardFails, ApplyOpenVpn, ApplyOpenVpnFails,
       ApplyIkev2, ApplyIkev2NotReloaded, ApplyIkev2Fails, disk
<1>3. ASSUME NEW m \in Nodes, NEW q \in Protocols, m # n \/ q # p
      PROVE  file'[m][q] = file[m][q] /\ live'[m][q] = live[m][q]
  <2>1. file'[m][q] = file[m][q]
    <3>1. CASE file' = file \/ file' = Replaced(file, n, p)
      BY <1>t, <1>r, <1>3, <3>1
    <3>2. CASE \E K \in SUBSET Shown(p, wanted[n]) : file' = Put(file, n, p, K)
      BY <1>t, <1>1, <1>3, <3>2
    <3> QED
      BY <1>2, <3>1, <3>2
  <2>2. live'[m][q] = live[m][q]
    BY <1>t, <1>r, <1>2, <1>3
  <2> QED
    BY <2>1, <2>2
<1>4. ASSUME Applied(n), file' = Replaced(file, n, p), p = "wireguard" => live' = Replaced(live, n, p)
      PROVE  Settled(n, p)'
  <2>1. file'[n][p] = Shown(p, wanted[n])
    BY <1>t, <1>r, <1>4
  <2>2. p = "wireguard" => live'[n][p] = Shown(p, wanted[n])
    BY <1>t, <1>r, <1>4
  <2>3. p \in {"wireguard", "openvpn", "ikev2"}
    BY DEF Protocols
  <2> QED
    BY <1>u, <2>1, <2>2, <2>3 DEF Settled, Accepts
<1> QED
  BY <1>2, <1>3, <1>4

LEMMA PassStep ==
  ASSUME NodeTypeOK, OnlyGrantedStored, PassInProgress, [NodeNext]_nodeVars
  PROVE  PassInProgress'
<1> USE DEF disk, progress
<1>t. /\ file \in [Nodes -> PeerSets] /\ live \in [Nodes -> PeerSets]
      /\ phase \in [Nodes -> Phases]
      /\ wanted \in [Nodes -> SUBSET AnyKey]
      /\ at \in [Nodes -> 1..Len(Order)]
      /\ outcome \in [Nodes -> {"none", "ok"} \cup Protocols]
  BY DEF NodeTypeOK
<1>p. \A n \in Nodes : PassOf(n)
  BY DEF PassInProgress
<1>k. ASSUME NEW n \in Nodes, UNCHANGED <<peers, wanted, file, live>>
      PROVE  \A i \in 1..Len(Order) : Settled(n, Order[i])' <=> Settled(n, Order[i])
  BY <1>k DEF Settled, Accepts, Shown, WithLogin, Known
<1>1. CASE DirectoryStep
  <2>1. \A k \in Known : k \in WithLogin <=> k \in WithLogin'
    BY <1>1, LoginsKept DEF DirectoryStep, NodeTypeOK
  <2>2. UNCHANGED <<phase, at, outcome, wanted, file, live>>
    BY <1>1 DEF DirectoryStep
  <2>3. ASSUME NEW n \in Nodes, NEW p \in Protocols, Settled(n, p)
        PROVE  Settled(n, p)'
    <3>1. \A k \in wanted[n] : k \in WithLogin <=> k \in WithLogin'
      BY <2>1, StaticHasNoLogin DEF OnlyGrantedStored
    <3> QED
      BY <2>2, <2>3, <3>1, SettledKept
  <2>4. ASSUME NEW n \in Nodes
        PROVE  PassOf(n)'
    <3>1. \A i \in 1..Len(Order) : Settled(n, Order[i]) => Settled(n, Order[i])'
      BY <2>3, OrderFacts
    <3>2. 1..(at[n] - 1) \subseteq 1..Len(Order)
      BY <1>t, OrderFacts
    <3> HIDE DEF Settled
    <3> QED
      BY <1>p, <2>2, <3>1, <3>2 DEF PassOf
  <2> QED
    BY <2>4 DEF PassInProgress
<1>2. ASSUME NEW n \in Nodes, Start(n)
      PROVE  PassInProgress'
  <2>1. /\ at'[n] = 1 /\ outcome'[n] = "none"
        /\ wanted'[n] \subseteq {Static}
        /\ phase'[n] \in {"static", "ikev2"}
    BY <1>2, <1>t DEF Start, BeginPass
  <2>2. PassOf(n)'
    BY <2>1 DEF PassOf
  <2>3. \A m \in Nodes \ {n} : live'[m] = live[m]
    BY <1>2, <1>t DEF Start, Put
  <2>4. \A m \in Nodes \ {n} : /\ phase'[m] = phase[m] /\ at'[m] = at[m]
                                /\ outcome'[m] = outcome[m] /\ wanted'[m] = wanted[m]
    BY <1>2, <1>t DEF Start, BeginPass
  <2>5. UNCHANGED <<peers, file>>
    BY <1>2 DEF Start
  <2> QED
    BY <2>2, <2>3, <2>4, <2>5, PassOfOthers
<1>3. ASSUME NEW n \in Nodes, SetupIkev2(n)
      PROVE  PassInProgress'
  <2>1. /\ phase[n] = "ikev2" /\ phase' = [phase EXCEPT ![n] = "registering"]
        /\ file' = file \/ file' = Put(file, n, "ikev2", {})
        /\ live' = live \/ live' = Put(live, n, "ikev2", {})
        /\ UNCHANGED <<peers, at, outcome, wanted>>
    BY <1>3 DEF SetupIkev2
  <2>2. ASSUME NEW m \in Nodes, NEW q \in Protocols, NEW store \in [Nodes -> PeerSets]
        PROVE  Put(store, n, "ikev2", {})[m][q] = IF m = n /\ q = "ikev2" THEN {} ELSE store[m][q]
    BY PutTyped, StoreNames
  <2>3. Shown("ikev2", wanted[n]) = {}
    BY <1>p, <2>1, StaticHasNoLogin DEF PassOf, Shown
  <2>4. UNCHANGED WithLogin
    BY <2>1 DEF WithLogin, Known
  <2>5. ASSUME NEW q \in Protocols, Settled(n, q)
        PROVE  Settled(n, q)'
    <3>1. CASE q # "ikev2"
      <4>1. file'[n][q] = file[n][q] /\ live'[n][q] = live[n][q]
        BY <1>t, <2>1, <2>2, <3>1
      <4> QED
        BY <2>1, <2>4, <2>5, <4>1, SettledKept
    <3>2. CASE q = "ikev2"
      <4>1. file'[n][q] = {}
        BY <1>t, <2>1, <2>2, <2>3, <2>5, <3>2 DEF Settled
      <4> QED
        BY <2>1, <2>3, <2>4, <3>2, <4>1 DEF Settled, Shown
    <3> QED
      BY <3>1, <3>2
  <2>6. PassOf(n)'
    <3>1. \A i \in 1..Len(Order) : Settled(n, Order[i]) => Settled(n, Order[i])'
      BY <2>5, OrderFacts
    <3>2. phase'[n] = "registering"
      BY <1>t, <2>1
    <3> QED
      BY <1>p, <2>1, <3>1, <3>2 DEF PassOf
  <2>7. \A m \in Nodes \ {n} : file'[m] = file[m] /\ live'[m] = live[m] /\ phase'[m] = phase[m]
    BY <1>t, <2>1 DEF Put
  <2> QED
    BY <2>1, <2>6, <2>7, PassOfOthers
<1>4. ASSUME NEW n \in Nodes, RegisterSucceeds(n) \/ RegisterFails(n)
      PROVE  PassInProgress'
  <2>1. /\ phase[n] = "registering"
        /\ \E ph \in {"registering", "sleeping", "down"} : phase' = [phase EXCEPT ![n] = ph]
        /\ UNCHANGED <<peers, at, outcome, wanted, file, live>>
    BY <1>4, <1>t DEF RegisterSucceeds, RegisterFails
  <2>2. phase'[n] \in {"registering", "sleeping", "down"}
    BY <1>t, <2>1
  <2>3. PassOf(n)'
    BY <1>k, <1>p, <2>1, <2>2 DEF PassOf
  <2>4. \A m \in Nodes \ {n} : phase'[m] = phase[m]
    BY <1>t, <2>1
  <2> QED
    BY <2>1, <2>3, <2>4, PassOfOthers
<1>5. ASSUME NEW n \in Nodes, FetchPeers(n)
      PROVE  PassInProgress'
  <2>1. /\ at'[n] = 1 /\ phase'[n] = "applying"
        /\ UNCHANGED <<peers, file, live>>
    BY <1>5, <1>t DEF FetchPeers, BeginPass
  <2>2. PassOf(n)'
    BY <2>1 DEF PassOf
  <2>3. \A m \in Nodes \ {n} : /\ phase'[m] = phase[m] /\ at'[m] = at[m]
                                /\ outcome'[m] = outcome[m] /\ wanted'[m] = wanted[m]
    BY <1>5, <1>t DEF FetchPeers, BeginPass
  <2> QED
    BY <2>1, <2>2, <2>3, PassOfOthers
<1>6. ASSUME NEW n \in Nodes, Apply(n)
      PROVE  PassInProgress'
  <2>1. PICK p \in Protocols :
          /\ Applying(n, p)
          /\ \A m \in Nodes, q \in Protocols : m # n \/ q # p =>
               file'[m][q] = file[m][q] /\ live'[m][q] = live[m][q]
          /\ (Applied(n) /\ Settled(n, p)') \/ NotApplied(n)
    BY <1>6, ApplySettles
  <2>2. UNCHANGED <<peers, wanted>>
    BY <1>6, ApplyStores
  <2>3. /\ phase[n] \in {"static", "applying"} /\ Order[at[n]] = p
        /\ at[n] \in 1..Len(Order) /\ Len(Order) \in Nat /\ p # "ok"
    BY <1>t, <2>1, OrderFacts DEF Applying, Protocols
  <2>4. ASSUME NEW m \in Nodes \ {n}
        PROVE  file'[m] = file[m] /\ live'[m] = live[m]
    <3>1. file' \in [Nodes -> PeerSets] /\ live' \in [Nodes -> PeerSets]
      BY <1>6, ApplyTyped
    <3>2. \A q \in Protocols : file'[m][q] = file[m][q] /\ live'[m][q] = live[m][q]
      BY <2>1
    <3> QED
      BY <1>t, <3>1, <3>2 DEF PeerSets
  <2>5. UNCHANGED WithLogin
    BY <2>2 DEF WithLogin, Known
  <2>6. ASSUME NEW q \in Protocols, q # p, Settled(n, q)
        PROVE  Settled(n, q)'
    <3>1. file'[n][q] = file[n][q] /\ live'[n][q] = live[n][q]
      BY <2>1, <2>6
    <3> QED
      BY <2>2, <2>5, <2>6, <3>1, SettledKept
  <2>7. CASE Applied(n) /\ Settled(n, p)'
    <3>1. \A i \in 1..at[n] : Settled(n, Order[i])'
      <4>1. ASSUME NEW i \in 1..at[n]
            PROVE  Settled(n, Order[i])'
        <5>1. i \in 1..Len(Order) /\ Order[i] \in Protocols
          BY <2>3, OrderFacts
        <5>2. CASE Order[i] = p
          BY <2>7, <5>2
        <5>3. CASE Order[i] # p
          <6>1. i \in 1..(at[n] - 1)
            BY <2>3, <5>3
          <6>2. Settled(n, Order[i])
            BY <1>p, <2>3, <6>1 DEF PassOf
          <6> QED
            BY <2>6, <5>1, <5>3, <6>2
        <5> QED
          BY <5>2, <5>3
      <4> QED
        BY <4>1
    <3>2. CASE at[n] < Len(Order)
      <4>1. at' = [at EXCEPT ![n] = @ + 1] /\ UNCHANGED <<phase, outcome>>
        BY <2>7, <3>2 DEF Applied
      <4>2. at'[n] - 1 = at[n]
        BY <1>t, <2>3, <4>1
      <4>3. PassOf(n)'
        BY <1>p, <2>2, <2>3, <3>1, <4>1, <4>2 DEF PassOf
      <4> QED
        BY <1>t, <2>2, <2>4, <4>1, <4>3, PassOfOthers
    <3>3. CASE ~(at[n] < Len(Order))
      <4>1. EndPass(n, "ok") /\ at[n] = Len(Order)
        BY <2>3, <2>7, <3>3 DEF Applied
      <4>2. phase'[n] = IF phase[n] = "static" THEN "ikev2" ELSE "sleeping"
        BY <1>t, <4>1 DEF EndPass
      <4>3. PassOf(n)'
        BY <1>p, <2>2, <2>3, <3>1, <4>1, <4>2 DEF PassOf
      <4>4. \A m \in Nodes \ {n} : phase'[m] = phase[m] /\ at'[m] = at[m] /\ outcome'[m] = outcome[m]
        BY <1>t, <4>1 DEF EndPass
      <4> QED
        BY <2>2, <2>4, <4>3, <4>4, PassOfOthers
    <3> QED
      BY <3>2, <3>3
  <2>8. CASE NotApplied(n)
    <3>1. EndPass(n, p)
      BY <2>3, <2>8 DEF NotApplied
    <3>2. /\ phase'[n] = IF phase[n] = "static" THEN "ikev2" ELSE "sleeping"
          /\ outcome'[n] = p
      BY <1>t, <3>1 DEF EndPass
    <3>3. PassOf(n)'
      BY <1>p, <2>2, <2>3, <3>2 DEF PassOf
    <3>4. \A m \in Nodes \ {n} : phase'[m] = phase[m] /\ at'[m] = at[m] /\ outcome'[m] = outcome[m]
      BY <1>t, <3>1 DEF EndPass
    <3> QED
      BY <2>2, <2>4, <3>3, <3>4, PassOfOthers
  <2> QED
    BY <2>1, <2>7, <2>8
<1>7. ASSUME NEW n \in Nodes, Crash(n)
      PROVE  PassInProgress'
  <2>1. phase'[n] = "down"
    BY <1>7, <1>t DEF Crash
  <2>2. PassOf(n)'
    BY <2>1 DEF PassOf
  <2>3. \A m \in Nodes \ {n} : /\ phase'[m] = phase[m] /\ at'[m] = at[m]
                                /\ outcome'[m] = outcome[m] /\ wanted'[m] = wanted[m]
                                /\ file'[m] = file[m] /\ live'[m] = live[m]
    BY <1>7, <1>t DEF Crash
  <2>4. UNCHANGED peers
    BY <1>7 DEF Crash
  <2> QED
    BY <2>2, <2>3, <2>4, PassOfOthers
<1>8. CASE UNCHANGED nodeVars
  <2>1. UNCHANGED <<peers, phase, at, outcome, wanted, file, live>>
    BY <1>8 DEF nodeVars
  <2> QED
    <3>1. ASSUME NEW n \in Nodes
          PROVE  PassOf(n)'
      <4>1. \A i \in 1..Len(Order) : Settled(n, Order[i])' <=> Settled(n, Order[i])
        BY <1>k, <2>1
      <4>2. \A i \in 1..(at[n] - 1) : i \in 1..Len(Order)
        BY <1>t, OrderFacts
      <4> QED
        BY <1>p, <2>1, <4>1, <4>2 DEF PassOf
    <3> QED
      BY <3>1 DEF PassInProgress
<1> QED
  BY <1>1, <1>2, <1>3, <1>4, <1>5, <1>6, <1>7, <1>8 DEF NodeNext, NodeStep

LEMMA PassInProgressAlways == NodeSpec => []PassInProgress
<1>1. NodeInit => PassInProgress
  BY DEF NodeInit, PassInProgress, PassOf
<1>2. NodeTypeOK /\ OnlyGrantedStored /\ PassInProgress /\ [NodeNext]_nodeVars => PassInProgress'
  BY PassStep
<1> QED
  BY <1>1, <1>2, NodeTypeCorrect, GrantedStoredAlways, PTL DEF NodeSpec

\* A pass that reports no error leaves every backend with the peers it was handed and no
\* others, on disk and in the interface, so that a later start loads nothing that the
\* pass removed (vpn/mod.rs:219-249).
THEOREM PassLeavesNothing == NodeSpec => []PassSettles
<1>1. PassInProgress => PassSettles
  BY DEF PassInProgress, PassOf, PassSettles
<1> QED
  BY <1>1, PassInProgressAlways, PTL
(***************************************************************************)
(* The control plane and the nodes together                                *)
(***************************************************************************)

-----------------------------------------------------------------------------
(* Each part runs as it does alone. *)

\* A statement that leaves the table alone grants nothing: what the directory has for
\* a node was granted before.
LEMMA NothingGranted ==
  ASSUME NodeTypeOK, OnlyGrantedStored, UNCHANGED peers,
         granted' = [n \in Nodes |-> granted[n] \cup ServedTo(n)']
  PROVE  UNCHANGED granted
<1>1. \A n \in Nodes : ServedTo(n)' = ServedTo(n)
  BY DEF ServedTo, ActiveKeys, Known
<1>2. \A n \in Nodes : ServedTo(n) \subseteq granted[n]
  BY DEF OnlyGrantedStored
<1>3. \A n \in Nodes : granted[n] \cup ServedTo(n)' = granted[n]
  BY <1>1, <1>2
<1>4. granted \in [Nodes -> SUBSET Keys]
  BY DEF NodeTypeOK
<1>5. granted' = [n \in Nodes |-> granted[n]]
  BY <1>3
<1> QED
  BY <1>4, <1>5

LEMMA NetworkStepRunsControlPlane ==
  ASSUME [NetworkNext]_networkVars
  PROVE  [Next]_vars
<1>1. CASE ControlPlaneStep
  BY <1>1 DEF ControlPlaneStep
<1>2. CASE AgentStep
  <2>1. PICK n \in Nodes : NodeStep(n)
    BY <1>2 DEF AgentStep
  <2>2. UNCHANGED peers
    <3>1. CASE Apply(n)
      BY <3>1 DEF Apply, ApplyWireGuard, ApplyWireGuardFails, ApplyOpenVpn, ApplyOpenVpnFails,
           ApplyIkev2, ApplyIkev2NotReloaded, ApplyIkev2Fails
    <3>2. CASE ~Apply(n)
      BY <2>1, <3>2 DEF NodeStep, Start, SetupIkev2, RegisterSucceeds, RegisterFails, FetchPeers, Crash
    <3> QED
      BY <3>1, <3>2
  <2> QED
    BY <1>2, <2>2 DEF AgentStep, registry, tokenVars, vars
<1>3. CASE UNCHANGED networkVars
  BY <1>3 DEF networkVars, registry, tokenVars, vars
<1> QED
  BY <1>1, <1>2, <1>3 DEF NetworkNext

LEMMA NetworkStepRunsNodes ==
  ASSUME TypeOK, NodeTypeOK, OnlyGrantedStored, [NetworkNext]_networkVars
  PROVE  [NodeNext]_nodeVars
<1>1. CASE ControlPlaneStep
  <2>1. /\ granted' = [n \in Nodes |-> granted[n] \cup ServedTo(n)']
        /\ UNCHANGED <<progress, disk, crashes>>
    BY <1>1 DEF ControlPlaneStep
  <2>2. CASE UNCHANGED peers
    <3>1. UNCHANGED granted
      BY <2>1, <2>2, NothingGranted
    <3> QED
      BY <2>1, <2>2, <3>1 DEF nodeVars
  <2>3. CASE DirectoryNext
    BY <2>1, <2>3 DEF NodeNext, DirectoryStep
  <2> QED
    BY <1>1, <2>2, <2>3, StepRefinesDirectory DEF ControlPlaneStep
<1>2. CASE AgentStep
  BY <1>2 DEF AgentStep, NodeNext
<1>3. CASE UNCHANGED networkVars
  BY <1>3 DEF networkVars, nodeVars
<1> QED
  BY <1>1, <1>2, <1>3 DEF NetworkNext
(* However the requests of the control plane and the steps of the agents interleave,
   the control plane behaves as it does alone: an agent's requests are among those of
   ControlPlane, and it writes no table itself (client.rs:62-234).  What is proved of
   ControlPlane holds in the network.                                                *)
THEOREM NetworkRunsControlPlane == NetworkSpec => Spec
<1>1. NetworkInit => Init
  BY DEF NetworkInit
<1>2. [NetworkNext]_networkVars => [Next]_vars
  BY NetworkStepRunsControlPlane
<1> QED
  BY <1>1, <1>2, PTL DEF NetworkSpec, Spec

(* Nodes fed by the real control plane, whose handlers are cut into statements, overlap,
   fail and restart, behave as nodes fed by the abstract directory: what is proved of
   VpnNode (OnlyGranted, PassSettles) holds in the network (server.ts:236-290).       *)
THEOREM NetworkRunsNodes == NetworkSpec => NodeSpec
<1> DEFINE Inv == TypeOK /\ NodeTypeOK /\ AttemptsLeft /\ OnlyGrantedStored
<1>1. NetworkInit => NodeInit /\ Inv
  BY TypeOKInit, NodeInitTyped, GrantedStoredInit DEF NetworkInit
<1>2. Inv /\ [NetworkNext]_networkVars => [NodeNext]_nodeVars
  BY NetworkStepRunsNodes
<1>3. Inv /\ [NetworkNext]_networkVars => Inv'
  <2> SUFFICES ASSUME Inv, [NetworkNext]_networkVars
               PROVE  Inv'
    OBVIOUS
  <2>1. TypeOK'
    BY NetworkStepRunsControlPlane, TypeOKStep
  <2>2. NodeTypeOK' /\ AttemptsLeft' /\ OnlyGrantedStored'
    BY <1>2, NodeTypeOKStep, AttemptsLeftStep, OnlyGrantedStep
  <2> QED
    BY <2>1, <2>2
<1> HIDE DEF Inv
<1> QED
  BY <1>1, <1>2, <1>3, PTL DEF NetworkSpec, NodeSpec

-----------------------------------------------------------------------------
(* What a node accepts, and where the table and the registry have it *)

\* A pin is kept or dropped, never moved.
LEMMA GrantedPinsStep ==
  ASSUME NodeTypeOK, OnlyGrantedStored, GrantedPins, [NodeNext]_nodeVars
  PROVE  GrantedPins'
<1>1. CASE DirectoryStep
  <2>1. \A k \in Keys : KeyLifeCycle(k)
    BY <1>1, DirectoryNextLifeCycle, SentinelsAssumption DEF DirectoryStep, NodeTypeOK
  <2> SUFFICES ASSUME NEW n \in Nodes, NEW k \in granted'[n]
               PROVE  peers'[k].server \in {n, Unpinned}
    BY DEF GrantedPins
  <2>2. k \in granted[n] \/ k \in ServedTo(n)'
    BY <1>1 DEF DirectoryStep
  <2>3. CASE k \in granted[n]
    <3>1. k \in Keys /\ peers[k] # Absent
      BY <2>3 DEF OnlyGrantedStored, Known
    <3>2. peers'[k].server \in {peers[k].server, Unpinned}
      BY <2>1, <3>1 DEF KeyLifeCycle
    <3> QED
      BY <2>3, <3>2 DEF GrantedPins
  <2>4. CASE k \in ServedTo(n)'
    BY <2>4 DEF ServedTo
  <2> QED
    BY <2>2, <2>3, <2>4
<1>2. CASE UNCHANGED <<peers, granted>>
  BY <1>2 DEF GrantedPins
<1>3. ASSUME NEW n \in Nodes, NodeStep(n)
      PROVE  UNCHANGED <<peers, granted>>
  <2>1. CASE Apply(n)
    BY <2>1, ApplyStores
  <2>2. CASE ~Apply(n)
    BY <1>3, <2>2 DEF NodeStep, Start, SetupIkev2, RegisterSucceeds, RegisterFails, FetchPeers, Crash
  <2> QED
    BY <2>1, <2>2
<1> QED
  BY <1>1, <1>2, <1>3 DEF NodeNext, nodeVars

LEMMA GrantedPinsAlways == NodeSpec => []GrantedPins
<1>1. NodeInit => GrantedPins
  BY DEF NodeInit, GrantedPins
<1>2. NodeTypeOK /\ OnlyGrantedStored /\ GrantedPins /\ [NodeNext]_nodeVars => GrantedPins'
  BY GrantedPinsStep
<1> QED
  BY <1>1, <1>2, NodeTypeCorrect, GrantedStoredAlways, PTL DEF NodeSpec

(* A key that a node accepts, from its last pass or from an old file after a crash, is
   pinned to no other node; if it is pinned to this one the registry still has the node,
   whatever requests of POST /peers and DELETE /servers/:id overlapped (server.ts:254-262,
   371-380, 401-418).                                                                    *)
THEOREM NodesAcceptTheirOwn == NetworkSpec => []AcceptsItsOwn
<1>1. OnlyGrantedStored /\ GrantedPins /\ ReferencesResolve => AcceptsItsOwn
  <2> SUFFICES ASSUME OnlyGrantedStored, GrantedPins, ReferencesResolve,
                      NEW n \in Nodes, NEW p \in Protocols, NEW k \in Accepts(n, p) \ {Static}
               PROVE  /\ k \in Known
                      /\ peers[k].server \in {n, Unpinned}
                      /\ peers[k].server = n => n \in Registered
    BY DEF AcceptsItsOwn
  <2>1. k \in granted[n] /\ k \in Known
    BY DEF OnlyGrantedStored, Stored, Accepts
  <2>2. peers[k].server \in {n, Unpinned}
    BY <2>1 DEF GrantedPins
  <2>3. n # Unpinned
    BY SentinelsAssumption, VpnNodeAssumption
  <2>4. peers[k].server \in Registered \cup {Unpinned}
    BY <2>1 DEF ReferencesResolve
  <2> QED
    BY <2>1, <2>2, <2>3, <2>4
<1> QED
  BY <1>1, NetworkRunsControlPlane, NothingDangles, NetworkRunsNodes, GrantedStoredAlways,
     GrantedPinsAlways, PTL
=============================================================================
