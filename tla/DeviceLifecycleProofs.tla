------------------------ MODULE DeviceLifecycleProofs ------------------------
(***************************************************************************)
(* What DeviceLifecycle promises for any number of accounts, devices,      *)
(* machines, keys and overlapping requests.                                *)
(***************************************************************************)
EXTENDS DeviceLifecycle, PeerDirectoryProofs, FiniteSetTheorems, TLAPS

-----------------------------------------------------------------------------
(* Types: TypeOK is inductive. *)

HoldSteps == {"revokeOld", "rekey", "expireDelete", "revokeAll", "addPeer", "insert",
              "discard", "activate", "revokePeer", "deleteRow"}

RequestOK(q) ==
  /\ q \in Request
  /\ q.at # "idle" => q.user \in Users
  /\ q.at \in HoldSteps => q.device \in Devices /\ q.key \in Keys

Table == devices \in [Devices -> Device \cup {Absent}] /\ limit \in [Users -> Limits]

LEMMA IdleOK == RequestOK(Idle) /\ Idle.user = Absent /\ Idle.at = "idle" /\ Absent \notin Users
BY DeviceAssumption DEF RequestOK, Idle, Request, Steps, HoldSteps

LEMMA TypeParts ==
  TypeOK <=> /\ DirectoryTypeOK /\ Table /\ disturbed \subseteq Users
             /\ request \in [Requests -> Request]
             /\ \A r \in Requests : RequestOK(request[r])
BY DEF TypeOK, Table, RequestOK, HoldSteps

LEMMA RequestTyped ==
  ASSUME TypeOK, NEW r \in Requests
  PROVE  /\ RequestOK(request[r])
         /\ request[r].at \in Steps /\ request[r].user \in Users \cup {Absent}
         /\ request[r].machine \in Machines \cup {NoMachine} /\ request[r].limit \in Limits
         /\ request[r].device \in Devices \cup {Absent} /\ request[r].key \in Keys \cup {Absent}
         /\ request[r].login \in BOOLEAN /\ request[r].old \in SUBSET Found
BY TypeParts DEF Request

LEMMA RowTyped ==
  ASSUME TypeOK, NEW d \in Registered
  PROVE  /\ d \in Devices /\ devices[d] \in Device
         /\ devices[d].user \in Users /\ devices[d].key \in Keys
         /\ devices[d].machine \in Machines \cup {NoMachine} /\ devices[d].active \in BOOLEAN
BY TypeParts DEF Table, Registered, Device

\* What a step of request r has to show.
LEMMA StepTyped ==
  ASSUME TypeOK, NEW r \in Requests, NEW q, request' = [request EXCEPT ![r] = q], RequestOK(q),
         DirectoryTypeOK', Table', disturbed' \subseteq Users
  PROVE  TypeOK'
BY DEF TypeOK, Table, RequestOK, HoldSteps

LEMMA GotoTyped ==
  ASSUME TypeOK, NEW r \in Requests, NEW step \in Steps, Goto(r, step),
         request[r].at # "idle",
         step \in HoldSteps => request[r].device \in Devices /\ request[r].key \in Keys,
         DirectoryTypeOK', Table', disturbed' \subseteq Users
  PROVE  TypeOK'
<1> DEFINE q == [request[r] EXCEPT !.at = step]
<1>1. request' = [request EXCEPT ![r] = q]
  BY DEF Goto
<1>2. RequestOK(q)
  BY RequestTyped, TypeParts DEF RequestOK, Request
<1> QED
  BY <1>1, <1>2, StepTyped

LEMMA EndTyped ==
  ASSUME TypeOK, NEW r \in Requests, End(r), DirectoryTypeOK', Table', disturbed' \subseteq Users
  PROVE  TypeOK'
BY IdleOK, StepTyped DEF End

LEMMA ActiveKnown == \A u : ActiveKeysOf(u) \in SUBSET Known
BY DEF ActiveKeysOf, ActiveKeys

LEMMA RevokePeerTyped ==
  ASSUME TypeOK, NEW r \in Requests, request[r].at \in HoldSteps, RevokePeer(r)
  PROVE  DirectoryTypeOK' /\ disturbed' \subseteq Users
<1>1. DirectoryTypeOK /\ disturbed \subseteq Users /\ request[r].user \in Users
  BY TypeParts, RequestTyped DEF RequestOK, HoldSteps
<1>2. DirectoryTypeOK'
  <2>1. CASE UNCHANGED peers
    BY <1>1, <2>1 DEF DirectoryTypeOK
  <2>2. CASE request[r].key \in Known /\ Deactivate({request[r].key})
    BY <1>1, <2>2, DeactivateTyped
  <2> QED
    BY <2>1, <2>2 DEF RevokePeer
<1> QED
  BY <1>1, <1>2 DEF RevokePeer, Disturb

LEMMA BeginTyped ==
  ASSUME TypeOK, NEW r \in Requests, NEW u \in Users, NEW q, RequestOK(q), Begin(r, u, q),
         UNCHANGED <<peers, devices, limit>>
  PROVE  TypeOK'
<1>1. DirectoryTypeOK' /\ Table' /\ disturbed' \subseteq Users
  BY TypeParts DEF Begin, Disturb, DirectoryTypeOK, Table
<1> QED
  BY <1>1, StepTyped DEF Begin

LEMMA HoldingOK ==
  ASSUME TypeOK, NEW u \in Users, NEW d \in DevicesOf(u),
         NEW step \in {"activate", "revokePeer"}
  PROVE  /\ RequestOK(Holding(step, u, d))
         /\ Holding(step, u, d).at = step /\ Holding(step, u, d).user = u
         /\ Holding(step, u, d).device = d /\ Holding(step, u, d).key = devices[d].key
         /\ Holding(step, u, d).old = {} /\ Holding(step, u, d).machine = NoMachine
<1>1. d \in Devices /\ devices[d].key \in Keys
  BY RowTyped DEF DevicesOf
<1> QED
  BY <1>1, DeviceAssumption DEF Holding, Idle, RequestOK, Request, Steps, HoldSteps

LEMMA ArrivalTyped ==
  ASSUME TypeOK, NEW r \in Requests, NEW u \in Users, Arrival(r, u)
  PROVE  TypeOK'
<1>0. DirectoryTypeOK /\ Table /\ disturbed \subseteq Users
  BY TypeParts
<1>1. ASSUME NEW m \in Machines \cup {NoMachine}, RegisterBegin(r, u, m)
      PROVE  TypeOK'
  <2>1. RequestOK([Idle EXCEPT !.at = "find", !.user = u, !.machine = m, !.limit = limit[u]])
    BY <1>0, DeviceAssumption DEF Idle, RequestOK, Request, Steps, HoldSteps, Table
  <2> QED
    BY <1>1, <2>1, BeginTyped DEF RegisterBegin
<1>2. ASSUME NEW d \in Devices, ConfirmFind(r, u, d)
      PROVE  TypeOK'
  <2>1. RequestOK(Holding("activate", u, d))
    BY <1>2, HoldingOK DEF ConfirmFind, PendingOf
  <2> QED
    BY <1>0, <1>2, <2>1, StepTyped DEF ConfirmFind, DirectoryTypeOK, Table
<1>3. ASSUME NEW d \in Devices, CancelFind(r, u, d) \/ RevokeFind(r, u, d)
      PROVE  TypeOK'
  <2>1. RequestOK(Holding("revokePeer", u, d))
    BY <1>3, HoldingOK DEF CancelFind, RevokeFind, PendingOf
  <2> QED
    BY <1>3, <2>1, BeginTyped DEF CancelFind, RevokeFind
<1>4. ASSUME NEW n \in Limits, WebhookStore(r, u, n)
      PROVE  TypeOK'
  <2>1. Table' /\ DirectoryTypeOK' /\ disturbed' \subseteq Users
    BY <1>0, <1>4 DEF WebhookStore, Table, DirectoryTypeOK
  <2>2. RequestOK([Idle EXCEPT !.at = "cutoff", !.user = u])
    BY IdleOK DEF Idle, RequestOK, Request, Steps, HoldSteps
  <2> QED
    BY <1>4, <2>1, <2>2, StepTyped, TypeParts DEF WebhookStore
<1> QED
  BY <1>1, <1>2, <1>3, <1>4 DEF Arrival

LEMMA RegisterTyped ==
  ASSUME TypeOK, NEW r \in Requests, RegisterStep(r)
  PROVE  TypeOK'
<1> USE DEF HoldSteps, Steps
<1>0. /\ DirectoryTypeOK /\ Table /\ disturbed \subseteq Users /\ request[r] \in Request
      /\ UNCHANGED peers => DirectoryTypeOK'
      /\ UNCHANGED <<devices, limit>> => Table'
  BY TypeParts, RequestTyped DEF DirectoryTypeOK, Table
<1>1. CASE RegisterFind(r)
  <2>1. ASSUME NEW d \in OnMachine(request[r].user, request[r].machine),
               request' = [request EXCEPT ![r].at = "revokeOld", ![r].device = d, ![r].key = devices[d].key]
        PROVE  TypeOK'
    <3> DEFINE q == [request[r] EXCEPT !.at = "revokeOld", !.device = d, !.key = devices[d].key]
    <3>1. d \in Devices /\ devices[d].key \in Keys
      BY RowTyped DEF OnMachine, DevicesOf
    <3>2. request' = [request EXCEPT ![r] = q]
      BY <2>1
    <3>3. RequestOK(q)
      BY <1>1, <3>1, RequestTyped DEF RegisterFind, RequestOK, Request
    <3> QED
      BY <1>0, <1>1, <3>2, <3>3, StepTyped DEF RegisterFind
  <2>2. CASE Goto(r, "count")
    BY <1>0, <1>1, <2>2, GotoTyped DEF RegisterFind
  <2> QED
    BY <1>1, <2>1, <2>2 DEF RegisterFind
<1>2. CASE RegisterRevokeOld(r)
  <2>1. DirectoryTypeOK' /\ disturbed' \subseteq Users
    BY <1>2, RevokePeerTyped DEF RegisterRevokeOld
  <2> QED
    BY <1>0, <1>2, <2>1, GotoTyped, RequestTyped DEF RegisterRevokeOld, RequestOK
<1>3. CASE RegisterRekey(r)
  <2>1. CASE End(r) /\ UNCHANGED devices
    BY <1>0, <1>3, <2>1, EndTyped DEF RegisterRekey
  <2>2. ASSUME NEW k \in Keys, request[r].device \in Registered,
               devices' = [devices EXCEPT ![request[r].device].key = k, ![request[r].device].active = FALSE],
               request' = [request EXCEPT ![r].at = "addPeer", ![r].key = k]
        PROVE  TypeOK'
    <3> DEFINE q == [request[r] EXCEPT !.at = "addPeer", !.key = k]
               d == request[r].device
    <3>1. request' = [request EXCEPT ![r] = q]
      BY <2>2
    <3>2. RequestOK(q)
      BY <1>3, RequestTyped DEF RegisterRekey, RequestOK, Request
    <3>3. [devices[d] EXCEPT !.key = k, !.active = FALSE] \in Device
      BY <2>2, RowTyped DEF Device
    <3>4. devices' = [devices EXCEPT ![d] = [devices[d] EXCEPT !.key = k, !.active = FALSE]]
      BY <2>2
    <3>5. Table'
      BY <1>0, <1>3, <3>3, <3>4 DEF Table, RegisterRekey
    <3> QED
      BY <1>0, <1>3, <3>1, <3>2, <3>5, StepTyped DEF RegisterRekey
  <2> QED
    BY <1>3, <2>1, <2>2 DEF RegisterRekey
<1>4. CASE RegisterCount(r)
  BY <1>0, <1>4, EndTyped, GotoTyped DEF RegisterCount
<1>5. CASE RegisterFindOld(r)
  <2> PICK old \in SUBSET PendingOf(request[r].user) :
         request' = [request EXCEPT ![r].at = IF old = {} THEN "create" ELSE "expire",
                                    ![r].old = {[device |-> d, key |-> devices[d].key] : d \in old}]
    BY <1>5 DEF RegisterFindOld
  <2> DEFINE step == IF old = {} THEN "create" ELSE "expire"
             found == {[device |-> d, key |-> devices[d].key] : d \in old}
             q == [request[r] EXCEPT !.at = step, !.old = found]
  <2>1. found \in SUBSET Found
    BY RowTyped DEF PendingOf, DevicesOf, Found
  <2> HIDE DEF found
  <2>2. RequestOK(q)
    BY <1>5, <2>1, RequestTyped DEF RegisterFindOld, RequestOK, Request
  <2>3. request' = [request EXCEPT ![r] = q]
    BY DEF found
  <2> QED
    BY <1>0, <1>5, <2>2, <2>3, StepTyped DEF RegisterFindOld
<1>6. CASE RegisterExpire(r)
  <2> PICK o \in request[r].old :
         /\ \/ /\ IF o.key \in Known THEN Deactivate({o.key}) ELSE UNCHANGED peers
               /\ UNCHANGED disturbed
            \/ Faulty /\ Disturb(request[r].user) /\ UNCHANGED peers
         /\ request' = [request EXCEPT ![r].at = "expireDelete", ![r].device = o.device,
                                       ![r].key = o.key, ![r].old = @ \ {o}]
    BY <1>6 DEF RegisterExpire
  <2>1. o.device \in Devices /\ o.key \in Keys /\ request[r].user \in Users
    BY <1>6, RequestTyped DEF Found, RegisterExpire, RequestOK
  <2>2. DirectoryTypeOK'
    <3>1. CASE o.key \in Known /\ Deactivate({o.key})
      BY <1>0, <3>1, DeactivateTyped
    <3> QED
      BY <1>0, <3>1
  <2>3. disturbed' \subseteq Users
    BY <1>0, <2>1 DEF Disturb
  <2> DEFINE q == [request[r] EXCEPT !.at = "expireDelete", !.device = o.device,
                                     !.key = o.key, !.old = @ \ {o}]
  <2>4. request' = [request EXCEPT ![r] = q]
    OBVIOUS
  <2>5. RequestOK(q)
    BY <1>0, <2>1, RequestTyped DEF RequestOK, Request
  <2> QED
    BY <1>0, <1>6, <2>2, <2>3, <2>4, <2>5, StepTyped DEF RegisterExpire
<1>7. CASE RegisterExpireDelete(r)
  <2>1. Table'
    BY <1>0, <1>7 DEF RegisterExpireDelete, Delete, Table
  <2> QED
    BY <1>0, <1>7, <2>1, EndTyped, GotoTyped DEF RegisterExpireDelete
<1>8. CASE RegisterCreate(r)
  <2> PICK d \in Devices, k \in Keys :
         /\ devices' = [devices EXCEPT ![d] =
              [user |-> request[r].user, key |-> k, machine |-> request[r].machine, active |-> FALSE]]
         /\ request' = [request EXCEPT ![r].at = "revokeAll", ![r].device = d, ![r].key = k,
                                       ![r].login = TRUE]
    BY <1>8 DEF RegisterCreate
  <2> DEFINE q == [request[r] EXCEPT !.at = "revokeAll", !.device = d, !.key = k, !.login = TRUE]
  <2>1. request' = [request EXCEPT ![r] = q]
    OBVIOUS
  <2>2. RequestOK(q) /\ request[r].user \in Users
    BY <1>8, RequestTyped DEF RegisterCreate, RequestOK, Request
  <2>3. Table'
    BY <1>0, <1>8, <2>2, RequestTyped DEF RegisterCreate, Table, Device
  <2> QED
    BY <1>0, <1>8, <2>1, <2>2, <2>3, StepTyped DEF RegisterCreate
<1>9. CASE RegisterRevokeAll(r) \/ AddPeerRevoke(r)
  <2>1. DirectoryTypeOK'
    BY <1>0, <1>9, DeactivateTyped, ActiveKnown DEF RegisterRevokeAll, AddPeerRevoke
  <2>2. request[r].device \in Devices /\ request[r].key \in Keys
    BY <1>9, RequestTyped DEF RequestOK, RegisterRevokeAll, AddPeerRevoke
  <2>3. Goto(r, "addPeer") \/ Goto(r, "discard") \/ Goto(r, "insert") \/ End(r)
    BY <1>9 DEF RegisterRevokeAll, AddPeerRevoke, AddPeerFails
  <2> QED
    BY <1>0, <1>9, <2>1, <2>2, <2>3, EndTyped, GotoTyped DEF RegisterRevokeAll, AddPeerRevoke
<1>10. CASE AddPeerInsert(r)
  <2>1. /\ request[r].device \in Devices /\ request[r].key \in Keys /\ request[r].user \in Users
        /\ request[r].login \in Credentials
    BY <1>10, RequestTyped, DeviceAssumption DEF RequestOK, AddPeerInsert
  <2>2. DirectoryTypeOK'
    BY <1>0, <1>10, <2>1, InsertTyped DEF AddPeerInsert, Pins
  <2>3. disturbed' \subseteq Users
    BY <1>0, <1>10, <2>1 DEF AddPeerInsert, Disturb
  <2>4. Goto(r, "discard") \/ End(r)
    BY <1>10 DEF AddPeerInsert, AddPeerFails
  <2> QED
    BY <1>0, <1>10, <2>1, <2>2, <2>3, <2>4, EndTyped, GotoTyped DEF AddPeerInsert
<1>11. CASE RegisterDiscard(r)
  <2>1. Table'
    BY <1>0, <1>11 DEF RegisterDiscard, Delete, Table
  <2> QED
    BY <1>0, <1>11, <2>1, EndTyped DEF RegisterDiscard
<1> QED
  BY <1>1, <1>2, <1>3, <1>4, <1>5, <1>6, <1>7, <1>8, <1>9, <1>10, <1>11 DEF RegisterStep

LEMMA OtherTyped ==
  ASSUME TypeOK, NEW r \in Requests, OtherStep(r)
  PROVE  TypeOK'
<1> USE DEF HoldSteps, Steps
<1>0. /\ DirectoryTypeOK /\ Table /\ disturbed \subseteq Users
      /\ UNCHANGED peers => DirectoryTypeOK'
      /\ UNCHANGED <<devices, limit>> => Table'
  BY TypeParts DEF DirectoryTypeOK, Table
<1>1. CASE ConfirmUpdate(r)
  <2> DEFINE d == request[r].device
  <2>1. CASE d \in Registered
    <3>1. devices' = [devices EXCEPT ![d] = [devices[d] EXCEPT !.active = TRUE]]
      BY <1>1, <2>1 DEF ConfirmUpdate
    <3>2. [devices[d] EXCEPT !.active = TRUE] \in Device
      BY <2>1, RowTyped DEF Device
    <3>3. Table'
      BY <1>0, <1>1, <3>1, <3>2 DEF ConfirmUpdate, Table
    <3> QED
      BY <1>0, <1>1, <3>3, EndTyped DEF ConfirmUpdate
  <2>2. CASE d \notin Registered
    BY <1>0, <1>1, <2>2, EndTyped DEF ConfirmUpdate
  <2> QED
    BY <2>1, <2>2
<1>2. CASE RemoveRevokePeer(r)
  <2>1. DirectoryTypeOK' /\ disturbed' \subseteq Users
    BY <1>2, RevokePeerTyped DEF RemoveRevokePeer
  <2> QED
    BY <1>0, <1>2, <2>1, GotoTyped, RequestTyped DEF RemoveRevokePeer, RequestOK
<1>3. CASE RemoveDelete(r)
  <2>1. Table'
    BY <1>0, <1>3 DEF RemoveDelete, Delete, Table
  <2> QED
    BY <1>0, <1>3, <2>1, EndTyped DEF RemoveDelete
<1>4. CASE WebhookCutoff(r)
  <2>1. DirectoryTypeOK'
    BY <1>0, <1>4, DeactivateTyped, ActiveKnown DEF WebhookCutoff
  <2> QED
    BY <1>0, <1>4, <2>1, EndTyped DEF WebhookCutoff
<1> QED
  BY <1>1, <1>2, <1>3, <1>4 DEF OtherStep

LEMMA InitTyped == Init => TypeOK
BY IdleOK, TypeParts DEF Init, DirectoryInit, DirectoryTypeOK, Table, RequestOK

LEMMA NextTyped == TypeOK /\ [Next]_vars => TypeOK'
<1> SUFFICES ASSUME TypeOK, [Next]_vars
             PROVE  TypeOK'
  OBVIOUS
<1>1. CASE UNCHANGED vars
  BY <1>1 DEF vars, TypeOK, DirectoryTypeOK
<1> QED
  BY <1>1, ArrivalTyped, RegisterTyped, OtherTyped DEF Next

(* Every reachable state of the web app's devices has its types: a request past a look-up
   has the account, the device and the key that its next statements use
   (device.ts:227-714).                                                          *)
THEOREM TypeCorrect == Spec => []TypeOK
  BY InitTyped, NextTyped, PTL DEF Spec

-----------------------------------------------------------------------------
(* KeysHeld.  What a request names belongs to its account, and a key about to be added
   is in no other such request and not in the table yet.                         *)

NewSteps == {"revokeAll", "addPeer", "insert"}

Named(q) == {q.device} \cup {o.device : o \in q.old}
Owned == \A r \in Requests : \A d \in Registered \cap Named(request[r]) : devices[d].user = request[r].user

NewKeys ==
  \A r \in Requests : request[r].at \in NewSteps =>
    /\ request[r].key \notin Known
    /\ \A s \in Requests : request[s].at \in NewSteps /\ request[s].key = request[r].key => s = r

(* Account by account: one request at most changes its keys, and what that request
   relies on in its next step holds.  Before the peer is revoked, and until a new one is
   added, the row has the key that the request has in hand; when the row is about to lose
   its key or to go, that key is not usable.                                      *)

KeyChange(q, u) == q.user = u /\ q.at \notin {"activate", "cutoff"}

Held(u) == \A k, l \in ActiveKeysOf(u) : k = l /\ \E d \in DevicesOf(u) : devices[d].key = k

RowKeyIs(u, d, k) == d \in DevicesOf(u) => devices[d].key = k
RowKeyUnused(u, d) == d \in DevicesOf(u) => devices[d].key \notin ActiveKeysOf(u)

Prepared(q, u) ==
  /\ q.at \in {"revokeOld", "revokePeer"} \cup NewSteps => RowKeyIs(u, q.device, q.key)
  /\ q.at \in {"expire", "expireDelete"} => \A o \in q.old : RowKeyIs(u, o.device, o.key)
  /\ q.at \in {"rekey", "expireDelete", "discard", "deleteRow"} => RowKeyUnused(u, q.device)
  /\ q.at \in NewSteps => q.device \in DevicesOf(u)
  /\ q.at = "insert" => ActiveKeysOf(u) = {}

Settled(u) ==
  /\ Held(u)
  /\ \A r \in Requests : KeyChange(request[r], u) =>
       /\ Prepared(request[r], u)
       /\ \A s \in Requests : KeyChange(request[s], u) => s = r

HeldInv == Owned /\ NewKeys /\ \A u \in Users \ disturbed : Settled(u)

\* The steps that give no account a usable key and no device a key: request r goes on with
\* the key it has in hand, and only its own account loses devices, whose keys are unused.
Shrinks == Known' = Known /\ \A u \in Users : ActiveKeysOf(u)' \subseteq ActiveKeysOf(u)

SameRows ==
  \A d \in Registered' : d \in Registered /\ devices'[d].user = devices[d].user
                                          /\ devices'[d].key = devices[d].key

GoneUnused(r) ==
  \A u \in Users : \A d \in DevicesOf(u) \ Registered' :
    /\ KeyChange(request[r], u)
    /\ u \notin disturbed' => devices[d].key \notin ActiveKeysOf(u)'

GoesOn(r) ==
  /\ request' = [request EXCEPT ![r] = request'[r]]
  /\ \A d \in Registered' \cap Named(request'[r]) : devices'[d].user = request'[r].user
  /\ request'[r].at \in NewSteps =>
       request[r].at \in NewSteps /\ request'[r].key = request[r].key
  /\ \A u \in Users \ disturbed' : KeyChange(request'[r], u) =>
       KeyChange(request[r], u) /\ Prepared(request[r], u)'

LEMMA StepHeld ==
  ASSUME TypeOK, HeldInv, NEW r \in Requests, Shrinks, SameRows, GoneUnused(r), GoesOn(r),
         disturbed \subseteq disturbed'
  PROVE  HeldInv'
<1>0. request \in [Requests -> Request] /\ \A s \in Requests \ {r} : request'[s] = request[s]
  BY TypeParts DEF GoesOn
<1>1. Owned'
  <2> SUFFICES ASSUME NEW s \in Requests, NEW d \in Registered' \cap Named(request'[s])
               PROVE  devices'[d].user = request'[s].user
    BY DEF Owned, Named
  <2>1. CASE s = r
    BY <2>1 DEF GoesOn
  <2>2. CASE s # r
    BY <1>0, <2>2 DEF SameRows, HeldInv, Owned
  <2> QED
    BY <2>1, <2>2
<1>2. NewKeys'
  BY <1>0 DEF GoesOn, Shrinks, HeldInv, NewKeys
<1>3. ASSUME NEW u \in Users \ disturbed'
      PROVE  Settled(u)'
  <2>0. Settled(u)
    BY DEF HeldInv
  <2>1. ActiveKeysOf(u)' \subseteq ActiveKeysOf(u)
    BY DEF Shrinks
  <2>2. \A d \in DevicesOf(u)' : d \in DevicesOf(u) /\ devices'[d].key = devices[d].key
    BY DEF SameRows, DevicesOf
  <2>3. \A d \in DevicesOf(u) : d \notin DevicesOf(u)' =>
          (KeyChange(request[r], u) /\ devices[d].key \notin ActiveKeysOf(u)')
    <3> SUFFICES ASSUME NEW d \in DevicesOf(u), d \notin DevicesOf(u)'
                 PROVE  KeyChange(request[r], u) /\ devices[d].key \notin ActiveKeysOf(u)'
      OBVIOUS
    <3>1. d \notin Registered'
      BY DEF SameRows, DevicesOf
    <3> QED
      BY <3>1 DEF GoneUnused
  <2>4. Held(u)'
    BY <2>0, <2>1, <2>2, <2>3 DEF Settled, Held
  <2>5. ASSUME NEW s \in Requests \ {r}, KeyChange(request[s], u)
        PROVE  Prepared(request[s], u)'
    <3>1. Prepared(request[s], u) /\ ~KeyChange(request[r], u) /\ request'[s] = request[s]
      BY <1>0, <2>0, <2>5 DEF Settled
    <3>2. \A d \in DevicesOf(u) : d \in DevicesOf(u)'
      BY <2>3, <3>1
    <3> QED
      BY <2>1, <2>2, <3>1, <3>2 DEF Prepared, RowKeyIs, RowKeyUnused
  <2>6. \A s \in Requests : KeyChange(request'[s], u) => KeyChange(request[s], u)
    BY <1>0 DEF GoesOn
  <2>7. \A s \in Requests : KeyChange(request'[s], u) => Prepared(request[s], u)'
    BY <1>0, <2>5, <2>6 DEF GoesOn
  <2>8. \A s, t \in Requests : KeyChange(request'[s], u) /\ KeyChange(request'[t], u) => s = t
    BY <2>0, <2>6 DEF Settled
  <2> QED
    BY <2>4, <2>7, <2>8 DEF Settled, KeyChange
<1> QED
  BY <1>1, <1>2, <1>3 DEF HeldInv

\* The same for a step that only answers, and for one that goes on to another step.
LEMMA EndGoesOn ==
  ASSUME TypeOK, NEW r \in Requests, End(r), SameRows
  PROVE  GoesOn(r)
<1>1. request'[r] = Idle /\ request' = [request EXCEPT ![r] = request'[r]]
  BY TypeParts DEF End
<1>2. Named(Idle) = {Absent} /\ Absent \notin Registered'
  BY DeviceAssumption DEF Named, Idle, Registered
<1> QED
  BY <1>1, <1>2, IdleOK DEF GoesOn, KeyChange, NewSteps

LEMMA GotoFields ==
  ASSUME TypeOK, NEW r \in Requests, NEW step, Goto(r, step)
  PROVE  /\ request'[r] = [request[r] EXCEPT !.at = step]
         /\ request' = [request EXCEPT ![r] = request'[r]]
         /\ request'[r].user = request[r].user /\ request'[r].key = request[r].key
         /\ request'[r].device = request[r].device /\ request'[r].old = request[r].old
         /\ request'[r].at = step /\ request'[r].machine = request[r].machine
         /\ Named(request'[r]) = Named(request[r])
<1>1. /\ request'[r] = [request[r] EXCEPT !.at = step] /\ request[r] \in Request
      /\ request' = [request EXCEPT ![r] = request'[r]]
  BY TypeParts DEF Goto
<1> QED
  BY <1>1 DEF Request, Named

LEMMA GotoGoesOn ==
  ASSUME TypeOK, HeldInv, NEW r \in Requests, NEW step, Goto(r, step), SameRows,
         request[r].at \notin {"activate", "cutoff"},
         step \in NewSteps => request[r].at \in NewSteps,
         \A u \in Users \ disturbed' : KeyChange(request[r], u) => Prepared(request[r], u)'
  PROVE  GoesOn(r)
<1>0. \A d \in Registered \cap Named(request[r]) : devices[d].user = request[r].user
  BY DEF HeldInv, Owned
<1>1. \A d \in Registered' \cap Named(request'[r]) : devices'[d].user = request'[r].user
  <2>1. Named(request'[r]) = Named(request[r]) /\ request'[r].user = request[r].user
    BY GotoFields
  <2> QED
    BY <1>0, <2>1 DEF SameRows
<1>2. \A u \in Users \ disturbed' : KeyChange(request'[r], u) => KeyChange(request[r], u)
  BY GotoFields DEF KeyChange
<1> QED
  BY <1>1, <1>2, GotoFields DEF GoesOn

LEMMA Ready ==
  ASSUME HeldInv, disturbed \subseteq disturbed', NEW r \in Requests, NEW u \in Users \ disturbed',
         KeyChange(request[r], u)
  PROVE  Prepared(request[r], u) /\ u = request[r].user /\ Held(u)
BY DEF HeldInv, Settled, KeyChange

\* The tables as such steps leave them.
LEMMA PeersSame ==
  ASSUME UNCHANGED peers
  PROVE  Shrinks /\ \A u : ActiveKeysOf(u)' = ActiveKeysOf(u)
BY DEF Shrinks, Known, ActiveKeysOf, ActiveKeys

LEMMA PeersDeactivated ==
  ASSUME TypeOK, NEW K \in SUBSET Known, Deactivate(K)
  PROVE  Shrinks /\ \A u \in Users : ActiveKeysOf(u)' = ActiveKeysOf(u) \ K
<1>1. \A u \in Users : ActiveKeysOf(u)' = ActiveKeysOf(u) \ K
  BY DeactivateActive, SentinelsAssumption, TypeParts
<1>2. Known' = Known
  BY TypeParts, SentinelsAssumption DEF Deactivate, Known, DirectoryTypeOK, Peer, Pins
<1> QED
  BY <1>1, <1>2 DEF Shrinks

LEMMA RowsSame ==
  ASSUME UNCHANGED devices
  PROVE  /\ SameRows /\ Registered' = Registered /\ \A r : GoneUnused(r)
         /\ \A u : DevicesOf(u)' = DevicesOf(u)
BY DEF SameRows, Registered, GoneUnused, DevicesOf

LEMMA RowDeleted ==
  ASSUME TypeOK, NEW d \in Devices, Delete(d)
  PROVE  /\ SameRows /\ Registered' = Registered \ {d}
         /\ \A u : DevicesOf(u)' = DevicesOf(u) \ {d}
         /\ \A e \in Devices \ {d} : devices'[e] = devices[e]
<1>1. devices \in [Devices -> Device \cup {Absent}]
  BY TypeParts DEF Table
<1>2. devices'[d] = Absent /\ \A e \in Devices \ {d} : devices'[e] = devices[e]
  BY <1>1 DEF Delete
<1> QED
  BY <1>2 DEF Registered, SameRows, DevicesOf

\* The request's key is withdrawn, or the account is disturbed.
LEMMA PeerRevoked ==
  ASSUME TypeOK, NEW r \in Requests, request[r].at \in HoldSteps, RevokePeer(r)
  PROVE  /\ Shrinks /\ disturbed \subseteq disturbed'
         /\ \A u \in Users \ disturbed' : u = request[r].user =>
              request[r].key \notin ActiveKeysOf(u)'
<1> DEFINE k == request[r].key
<1>1. CASE k \in Known /\ Deactivate({k}) /\ UNCHANGED disturbed
  <2>1. Shrinks /\ \A v \in Users : ActiveKeysOf(v)' = ActiveKeysOf(v) \ {k}
    BY <1>1, PeersDeactivated
  <2> QED
    BY <1>1, <2>1
<1>2. CASE k \notin Known /\ UNCHANGED <<peers, disturbed>>
  BY <1>2, PeersSame, ActiveKnown
<1>3. CASE Disturb(request[r].user) /\ UNCHANGED peers
  BY <1>3, PeersSame DEF Disturb
<1> QED
  BY <1>1, <1>2, <1>3 DEF RevokePeer

-----------------------------------------------------------------------------
(* Step by step. *)

LEMMA BeginHeld ==
  ASSUME TypeOK, HeldInv, NEW r \in Requests, NEW u \in Users, NEW q, q.user = u, Begin(r, u, q),
         \/ q.at = "find"
         \/ q.at = "revokePeer" /\ q.key = devices[q.device].key,
         \A d \in Registered \cap Named(q) : devices[d].user = u,
         UNCHANGED <<peers, devices, limit>>
  PROVE  HeldInv'
<1>0. /\ request \in [Requests -> Request] /\ request[r] = Idle /\ disturbed \subseteq disturbed'
      /\ request'[r] = q /\ \A s \in Requests \ {r} : request'[s] = request[s]
  BY TypeParts DEF Begin, Disturb
<1>1. /\ Shrinks /\ (\A v : ActiveKeysOf(v)' = ActiveKeysOf(v)) /\ SameRows /\ Registered' = Registered
      /\ \A v : DevicesOf(v)' = DevicesOf(v)
  BY PeersSame, RowsSame
<1>2. Owned'
  <2>1. \A s \in Requests : \A d \in Registered \cap Named(request'[s]) : devices[d].user = request'[s].user
    BY <1>0 DEF HeldInv, Owned
  <2> QED
    BY <1>1, <2>1 DEF Owned, Named
<1>3. NewKeys'
  <2>1. \A s \in Requests : request'[s].at \in NewSteps => s # r
    BY <1>0 DEF NewSteps
  <2> QED
    BY <1>0, <1>1, <2>1 DEF Shrinks, HeldInv, NewKeys
<1>4. ASSUME NEW v \in Users \ disturbed'
      PROVE  Settled(v)'
  <2>0. Settled(v)
    BY <1>0 DEF HeldInv
  <2>1. Held(v)'
    BY <1>1, <2>0 DEF Settled, Held
  <2>2. v = u => \A s \in Requests : ~KeyChange(request[s], u)
    BY DEF Begin, Disturb, Changing, KeyChange
  <2>3. ~KeyChange(request[r], v)
    BY <1>0, IdleOK DEF KeyChange
  <2>4. ASSUME NEW s \in Requests, KeyChange(request'[s], v)
        PROVE  Prepared(request[s], v)' /\ \A t \in Requests : KeyChange(request'[t], v) => t = s
    <3>1. CASE v = u
      <4>1. \A t \in Requests : KeyChange(request'[t], v) => t = r
        BY <1>0, <2>2, <3>1
      <4>2. Prepared(request[r], v)'
        BY <1>0, <1>1 DEF Prepared, RowKeyIs, NewSteps
      <4> QED
        BY <2>4, <4>1, <4>2
    <3>2. CASE v # u
      <4>1. \A t \in Requests : KeyChange(request'[t], v) => t # r
        BY <1>0, <3>2 DEF KeyChange
      <4>2. /\ s # r /\ KeyChange(request[s], v)
            /\ \A t \in Requests : KeyChange(request'[t], v) => KeyChange(request[t], v)
        BY <1>0, <2>4, <4>1
      <4>3. Prepared(request[s], v) /\ \A t \in Requests : KeyChange(request[t], v) => t = s
        BY <2>0, <4>2 DEF Settled
      <4>4. Prepared(request[s], v)'
        BY <1>0, <1>1, <4>2, <4>3 DEF Prepared, RowKeyIs, RowKeyUnused
      <4> QED
        BY <4>2, <4>3, <4>4
    <3> QED
      BY <3>1, <3>2
  <2> QED
    BY <2>1, <2>4 DEF Settled, KeyChange
<1> QED
  BY <1>2, <1>3, <1>4 DEF HeldInv

LEMMA ArrivalHeld ==
  ASSUME TypeOK, HeldInv, NEW r \in Requests, NEW u \in Users, Arrival(r, u)
  PROVE  HeldInv'
<1>0. Absent \notin Registered
  BY DeviceAssumption DEF Registered
<1>1. ASSUME NEW m \in Machines \cup {NoMachine}, RegisterBegin(r, u, m)
      PROVE  HeldInv'
  <2> DEFINE q == [Idle EXCEPT !.at = "find", !.user = u, !.machine = m, !.limit = limit[u]]
  <2>1. q.user = u /\ q.at = "find" /\ Named(q) = {Absent}
    BY DEF Idle, Named
  <2>2. Begin(r, u, q) /\ UNCHANGED <<peers, devices, limit>>
    BY <1>1 DEF RegisterBegin
  <2> HIDE DEF q
  <2> QED
    BY <1>0, <2>1, <2>2, BeginHeld
<1>2. ASSUME NEW d \in Devices, CancelFind(r, u, d) \/ RevokeFind(r, u, d)
      PROVE  HeldInv'
  <2> DEFINE q == Holding("revokePeer", u, d)
  <2>1. d \in DevicesOf(u) /\ Begin(r, u, q) /\ UNCHANGED <<peers, devices, limit>>
    BY <1>2 DEF CancelFind, RevokeFind, PendingOf
  <2>2. q.user = u /\ q.at = "revokePeer" /\ q.device = d /\ q.key = devices[d].key /\ q.old = {}
    BY <2>1, HoldingOK
  <2>3. \A e \in Registered \cap Named(q) : devices[e].user = u
    BY <2>1, <2>2 DEF Named, DevicesOf
  <2> HIDE DEF q
  <2> QED
    BY <2>1, <2>2, <2>3, BeginHeld
<1>3. ASSUME NEW d \in Devices, ConfirmFind(r, u, d)
      PROVE  HeldInv'
  <2> DEFINE q == Holding("activate", u, d)
  <2>1. /\ d \in DevicesOf(u) /\ request' = [request EXCEPT ![r] = q]
        /\ UNCHANGED <<peers, devices, limit, disturbed>>
    BY <1>3 DEF ConfirmFind, PendingOf
  <2>2. q.user = u /\ q.at = "activate" /\ q.device = d /\ q.old = {}
    BY <2>1, HoldingOK
  <2> HIDE DEF q
  <2>3. request'[r] = q
    BY <2>1, TypeParts
  <2>4. Shrinks /\ SameRows /\ GoneUnused(r)
    BY <2>1, PeersSame, RowsSame
  <2>5. \A e \in Registered' \cap Named(request'[r]) : devices'[e].user = request'[r].user
    BY <2>1, <2>2, <2>3 DEF Named, DevicesOf
  <2>6. GoesOn(r)
    BY <2>1, <2>2, <2>3, <2>5 DEF GoesOn, NewSteps, KeyChange
  <2> QED
    BY <2>1, <2>4, <2>6, StepHeld
<1>4. ASSUME NEW n \in Limits, WebhookStore(r, u, n)
      PROVE  HeldInv'
  <2> DEFINE q == [Idle EXCEPT !.at = "cutoff", !.user = u]
  <2>1. Shrinks /\ SameRows /\ GoneUnused(r) /\ disturbed' = disturbed
    BY <1>4, PeersSame, RowsSame DEF WebhookStore
  <2>2. request[r] = Idle /\ (request' = [request EXCEPT ![r] = q] \/ UNCHANGED request)
    BY <1>4 DEF WebhookStore
  <2>3. q.at = "cutoff" /\ Named(q) = {Absent} /\ Named(Idle) = {Absent}
    BY DEF Idle, Named
  <2> HIDE DEF q
  <2>4. request' = [request EXCEPT ![r] = request'[r]] /\ request'[r] \in {q, Idle}
    BY <2>2, TypeParts
  <2>5. Absent \notin Registered'
    BY DeviceAssumption DEF Registered
  <2>6. GoesOn(r)
    BY <2>3, <2>4, <2>5, IdleOK DEF GoesOn, NewSteps, KeyChange
  <2> QED
    BY <2>1, <2>6, StepHeld
<1> QED
  BY <1>1, <1>2, <1>3, <1>4 DEF Arrival

\* A request that reads, or that goes on without touching the tables.
LEMMA ReadsHeld ==
  ASSUME TypeOK, HeldInv, NEW r \in Requests,
         RegisterFind(r) \/ RegisterCount(r) \/ RegisterFindOld(r)
  PROVE  HeldInv'
<1>0. /\ UNCHANGED <<peers, devices, limit, disturbed>>
      /\ request[r].at \in {"find", "count", "findOld"}
  BY DEF RegisterFind, RegisterCount, RegisterFindOld
<1>1. Shrinks /\ SameRows /\ GoneUnused(r) /\ disturbed' = disturbed
  BY <1>0, PeersSame, RowsSame
<1>2. ASSUME End(r)
      PROVE  HeldInv'
  BY <1>1, <1>2, EndGoesOn, StepHeld
<1>3. ASSUME NEW step \in {"count", "findOld"}, Goto(r, step)
      PROVE  HeldInv'
  <2>1. \A u \in Users \ disturbed' : Prepared(request[r], u)'
    <3>1. request'[r].at = step
      BY <1>3, GotoFields
    <3> QED
      BY <3>1 DEF Prepared, NewSteps
  <2>2. GoesOn(r)
    BY <1>0, <1>1, <1>3, <2>1, GotoGoesOn DEF NewSteps
  <2> QED
    BY <1>1, <2>2, StepHeld
<1>4. ASSUME NEW q, request' = [request EXCEPT ![r] = q], q.user = request[r].user,
             q.at \in {"revokeOld", "create", "expire"},
             \A d \in Registered \cap Named(q) : devices[d].user = q.user,
             q.at = "revokeOld" => q.key = devices[q.device].key,
             \A o \in q.old : q.at = "expire" => devices[o.device].key = o.key
      PROVE  HeldInv'
  <2>1. request'[r] = q /\ request' = [request EXCEPT ![r] = request'[r]]
    BY <1>4, TypeParts
  <2>2. \A u \in Users \ disturbed' : KeyChange(request'[r], u) => KeyChange(request[r], u)
    BY <1>0, <1>4, <2>1 DEF KeyChange
  <2>3. \A u \in Users \ disturbed' : Prepared(request[r], u)'
    BY <1>0, <1>4, <2>1 DEF Prepared, RowKeyIs, NewSteps
  <2>4. \A d \in Registered' \cap Named(request'[r]) : devices'[d].user = request'[r].user
    BY <1>0, <1>4, <2>1, RowsSame
  <2>5. GoesOn(r)
    BY <1>4, <2>1, <2>2, <2>3, <2>4 DEF GoesOn, NewSteps
  <2> QED
    BY <1>1, <2>5, StepHeld
<1>5. CASE RegisterFind(r)
  <2>1. CASE Goto(r, "count")
    BY <1>3, <2>1
  <2>2. ASSUME NEW d \in OnMachine(request[r].user, request[r].machine),
               request' = [request EXCEPT ![r].at = "revokeOld", ![r].device = d, ![r].key = devices[d].key]
        PROVE  HeldInv'
    <3> DEFINE q == [request[r] EXCEPT !.at = "revokeOld", !.device = d, !.key = devices[d].key]
    <3>1. request' = [request EXCEPT ![r] = q]
      BY <2>2
    <3>2. request[r] \in Request
      BY TypeParts
    <3>3. /\ q.at = "revokeOld" /\ q.user = request[r].user /\ q.key = devices[q.device].key
          /\ q.device = d /\ q.old = request[r].old
      BY <3>2 DEF Request
    <3> HIDE DEF q
    <3>4. \A e \in Registered \cap Named(q) : devices[e].user = q.user
      <4>1. devices[d].user = q.user
        BY <3>3 DEF OnMachine, DevicesOf
      <4>2. \A e \in Registered \cap Named(request[r]) : devices[e].user = request[r].user
        BY DEF HeldInv, Owned
      <4> QED
        BY <3>3, <4>1, <4>2 DEF Named
    <3> QED
      BY <1>4, <3>1, <3>3, <3>4
  <2> QED
    BY <1>5, <2>1, <2>2 DEF RegisterFind
<1>6. CASE RegisterCount(r)
  BY <1>2, <1>3, <1>6 DEF RegisterCount
<1>7. CASE RegisterFindOld(r)
  <2> PICK old \in SUBSET PendingOf(request[r].user) :
         request' = [request EXCEPT ![r].at = IF old = {} THEN "create" ELSE "expire",
                                    ![r].old = {[device |-> d, key |-> devices[d].key] : d \in old}]
    BY <1>7 DEF RegisterFindOld
  <2> DEFINE step == IF old = {} THEN "create" ELSE "expire"
             found == {[device |-> d, key |-> devices[d].key] : d \in old}
             q == [request[r] EXCEPT !.at = step, !.old = found]
  <2>1. \A o \in found : /\ devices[o.device].user = request[r].user
                         /\ devices[o.device].key = o.key
    BY DEF PendingOf, DevicesOf
  <2> HIDE DEF found
  <2>2. request' = [request EXCEPT ![r] = q] /\ request[r] \in Request
    BY TypeParts DEF found
  <2>3. /\ q.at \in {"create", "expire"} /\ q.user = request[r].user
        /\ q.device = request[r].device /\ q.old = found
    BY <2>2 DEF Request
  <2> HIDE DEF q
  <2>4. \A e \in Registered \cap Named(q) : devices[e].user = q.user
    <3>1. \A e \in Registered \cap Named(request[r]) : devices[e].user = request[r].user
      BY DEF HeldInv, Owned
    <3> QED
      BY <2>1, <2>3, <3>1 DEF Named
  <2> QED
    BY <1>4, <2>1, <2>2, <2>3, <2>4
<1> QED
  BY <1>5, <1>6, <1>7

\* A request that withdraws the key of a row before it replaces or deletes it.
LEMMA RevokesHeld ==
  ASSUME TypeOK, HeldInv, NEW r \in Requests, RegisterRevokeOld(r) \/ RemoveRevokePeer(r)
  PROVE  HeldInv'
<1>0. PICK step \in {"rekey", "deleteRow"} :
        /\ request[r].at \in {"revokeOld", "revokePeer"} /\ RevokePeer(r) /\ Goto(r, step)
        /\ UNCHANGED devices
  BY DEF RegisterRevokeOld, RemoveRevokePeer
<1>1. /\ Shrinks /\ disturbed \subseteq disturbed'
      /\ \A u \in Users \ disturbed' : u = request[r].user => request[r].key \notin ActiveKeysOf(u)'
  BY <1>0, PeerRevoked DEF HoldSteps
<1>2. SameRows /\ GoneUnused(r)
  BY <1>0, RowsSame
<1>3. ASSUME NEW u \in Users \ disturbed', KeyChange(request[r], u)
      PROVE  Prepared(request[r], u)'
  <2>1. RowKeyIs(u, request[r].device, request[r].key) /\ u = request[r].user
    BY <1>0, <1>1, <1>3, Ready DEF Prepared
  <2>2. request'[r].at = step /\ request'[r].device = request[r].device
    BY <1>0, GotoFields
  <2>3. \A d \in DevicesOf(u)' : d \in DevicesOf(u) /\ devices'[d].key = devices[d].key
    BY <1>0, RowsSame
  <2> QED
    BY <1>1, <2>1, <2>2, <2>3 DEF Prepared, RowKeyIs, RowKeyUnused, NewSteps
<1>4. GoesOn(r)
  BY <1>0, <1>2, <1>3, GotoGoesOn DEF NewSteps
<1> QED
  BY <1>1, <1>2, <1>4, StepHeld

LEMMA ExpireHeld ==
  ASSUME TypeOK, HeldInv, NEW r \in Requests, RegisterExpire(r)
  PROVE  HeldInv'
<1> PICK o \in request[r].old :
       /\ \/ /\ IF o.key \in Known THEN Deactivate({o.key}) ELSE UNCHANGED peers
             /\ UNCHANGED disturbed
          \/ Faulty /\ Disturb(request[r].user) /\ UNCHANGED peers
       /\ request' = [request EXCEPT ![r].at = "expireDelete", ![r].device = o.device,
                                     ![r].key = o.key, ![r].old = @ \ {o}]
  BY DEF RegisterExpire
<1>0. request[r].at = "expire" /\ UNCHANGED devices
  BY DEF RegisterExpire
<1>1. /\ Shrinks /\ disturbed \subseteq disturbed'
      /\ \A u \in Users \ disturbed' : u = request[r].user => o.key \notin ActiveKeysOf(u)'
  <2>1. CASE o.key \in Known /\ Deactivate({o.key}) /\ UNCHANGED disturbed
    <3>1. Shrinks /\ \A v \in Users : ActiveKeysOf(v)' = ActiveKeysOf(v) \ {o.key}
      BY <2>1, PeersDeactivated
    <3> QED
      BY <2>1, <3>1
  <2>2. CASE o.key \notin Known /\ UNCHANGED <<peers, disturbed>>
    BY <2>2, PeersSame, ActiveKnown
  <2>3. CASE Disturb(request[r].user) /\ UNCHANGED peers
    BY <2>3, PeersSame DEF Disturb
  <2> QED
    BY <2>1, <2>2, <2>3
<1>2. SameRows /\ GoneUnused(r)
  BY <1>0, RowsSame
<1> DEFINE q == [request[r] EXCEPT !.at = "expireDelete", !.device = o.device,
                                   !.key = o.key, !.old = @ \ {o}]
<1>3. request' = [request EXCEPT ![r] = q] /\ request[r] \in Request
  BY TypeParts
<1>4. /\ q.at = "expireDelete" /\ q.user = request[r].user /\ q.device = o.device
      /\ q.old = request[r].old \ {o}
  BY <1>3 DEF Request
<1> HIDE DEF q
<1>5. request'[r] = q /\ request' = [request EXCEPT ![r] = request'[r]]
  BY <1>3, TypeParts
<1>6. \A d \in Registered' \cap Named(request'[r]) : devices'[d].user = request'[r].user
  <2>1. \A d \in Registered \cap Named(request[r]) : devices[d].user = request[r].user
    BY DEF HeldInv, Owned
  <2>2. Named(q) \subseteq Named(request[r])
    BY <1>4 DEF Named
  <2> QED
    BY <1>0, <1>4, <1>5, <2>1, <2>2, RowsSame
<1>7. ASSUME NEW u \in Users \ disturbed', KeyChange(request'[r], u)
      PROVE  KeyChange(request[r], u) /\ Prepared(request[r], u)'
  <2>1. KeyChange(request[r], u) /\ u = request[r].user
    BY <1>0, <1>4, <1>5, <1>7 DEF KeyChange
  <2>2. \A p \in request[r].old : RowKeyIs(u, p.device, p.key)
    BY <1>0, <1>1, <2>1, Ready DEF Prepared
  <2>3. DevicesOf(u)' = DevicesOf(u) /\ devices' = devices
    BY <1>0, RowsSame
  <2>4. RowKeyUnused(u, o.device)'
    BY <1>1, <2>1, <2>2, <2>3 DEF RowKeyIs, RowKeyUnused
  <2>5. \A p \in q.old : RowKeyIs(u, p.device, p.key)'
    BY <1>4, <2>2, <2>3 DEF RowKeyIs
  <2> QED
    BY <1>4, <1>5, <2>1, <2>4, <2>5 DEF Prepared, NewSteps
<1>8. GoesOn(r)
  BY <1>4, <1>5, <1>6, <1>7 DEF GoesOn, NewSteps
<1> QED
  BY <1>1, <1>2, <1>8, StepHeld

\* A request that deletes the row it has in hand.
LEMMA DeletesHeld ==
  ASSUME TypeOK, HeldInv, NEW r \in Requests,
         RegisterExpireDelete(r) \/ RegisterDiscard(r) \/ RemoveDelete(r)
  PROVE  HeldInv'
<1> DEFINE d == request[r].device
<1>0. /\ request[r].at \in {"expireDelete", "discard", "deleteRow"}
      /\ UNCHANGED <<peers, disturbed>>
  BY DEF RegisterExpireDelete, RegisterDiscard, RemoveDelete
<1>1. Shrinks /\ \A u : ActiveKeysOf(u)' = ActiveKeysOf(u)
  BY <1>0, PeersSame
<1>2. CASE End(r) /\ UNCHANGED devices
  <2>1. SameRows /\ GoneUnused(r)
    BY <1>2, RowsSame
  <2> QED
    BY <1>0, <1>1, <1>2, <2>1, EndGoesOn, StepHeld
<1>3. CASE Delete(d)
  <2>1. d \in Devices
    BY <1>0, RequestTyped DEF RequestOK, HoldSteps
  <2>2. SameRows /\ Registered' = Registered \ {d} /\ \A u : DevicesOf(u)' = DevicesOf(u) \ {d}
    BY <1>3, <2>1, RowDeleted
  <2>3. GoneUnused(r)
    <3> SUFFICES ASSUME NEW u \in Users, NEW e \in DevicesOf(u) \ Registered'
                 PROVE  /\ KeyChange(request[r], u)
                        /\ u \notin disturbed' => devices[e].key \notin ActiveKeysOf(u)'
      BY DEF GoneUnused
    <3>1. e = d /\ d \in Registered /\ devices[d].user = u
      BY <2>2 DEF DevicesOf
    <3>2. request[r].user = u
      BY <3>1 DEF HeldInv, Owned, Named
    <3>3. KeyChange(request[r], u)
      BY <1>0, <3>2 DEF KeyChange
    <3>4. u \notin disturbed' => RowKeyUnused(u, d)
      BY <1>0, <3>3, Ready DEF Prepared
    <3> QED
      BY <1>1, <3>1, <3>3, <3>4 DEF RowKeyUnused
  <2>4. CASE End(r)
    BY <1>0, <1>1, <2>2, <2>3, <2>4, EndGoesOn, StepHeld
  <2>5. ASSUME NEW step \in {"create", "expire"}, request[r].at = "expireDelete", Goto(r, step)
        PROVE  HeldInv'
    <3>1. ASSUME NEW u \in Users \ disturbed', KeyChange(request[r], u)
          PROVE  Prepared(request[r], u)'
      <4>1. \A o \in request[r].old : RowKeyIs(u, o.device, o.key)
        BY <1>0, <2>5, <3>1, Ready DEF Prepared
      <4>2. request'[r].at = step /\ request'[r].old = request[r].old
        BY <2>5, GotoFields
      <4>3. \A e \in DevicesOf(u)' : e \in DevicesOf(u) /\ devices'[e].key = devices[e].key
        BY <2>2 DEF SameRows, DevicesOf
      <4>4. \A o \in request[r].old : RowKeyIs(u, o.device, o.key)'
        BY <4>1, <4>3 DEF RowKeyIs
      <4> QED
        BY <4>2, <4>4 DEF Prepared, NewSteps
    <3>2. GoesOn(r)
      BY <2>2, <2>5, <3>1, GotoGoesOn DEF NewSteps
    <3> QED
      BY <1>0, <1>1, <2>2, <2>3, <3>2, StepHeld
  <2> QED
    BY <2>4, <2>5 DEF RegisterExpireDelete, RegisterDiscard, RemoveDelete
<1> QED
  BY <1>2, <1>3 DEF RegisterExpireDelete, RegisterDiscard, RemoveDelete

\* A request that withdraws all keys of its account, or fails to.
LEMMA WithdrawsHeld ==
  ASSUME TypeOK, HeldInv, NEW r \in Requests,
         RegisterRevokeAll(r) \/ AddPeerRevoke(r) \/ WebhookCutoff(r)
  PROVE  HeldInv'
<1> DEFINE v == request[r].user
<1>0. /\ request[r].at \in {"revokeAll", "addPeer", "cutoff"} /\ v \in Users
      /\ UNCHANGED <<devices, disturbed>>
      /\ UNCHANGED peers \/ Deactivate(ActiveKeysOf(v))
  BY RequestTyped DEF RegisterRevokeAll, AddPeerRevoke, WebhookCutoff, RequestOK
<1>1. Shrinks /\ (Deactivate(ActiveKeysOf(v)) => \A u \in Users : u = v => ActiveKeysOf(u)' = {})
  <2>1. CASE Deactivate(ActiveKeysOf(v))
    <3>1. Shrinks /\ \A u \in Users : ActiveKeysOf(u)' = ActiveKeysOf(u) \ ActiveKeysOf(v)
      BY <2>1, PeersDeactivated, ActiveKnown
    <3> QED
      BY <3>1
  <2>2. CASE ~Deactivate(ActiveKeysOf(v))
    BY <1>0, <2>2, PeersSame
  <2> QED
    BY <2>1, <2>2
<1>2. SameRows /\ GoneUnused(r) /\ \A u : DevicesOf(u)' = DevicesOf(u)
  BY <1>0, RowsSame
<1>3. CASE End(r)
  BY <1>0, <1>1, <1>2, <1>3, EndGoesOn, StepHeld
<1>4. ASSUME NEW step \in {"addPeer", "insert", "discard"}, Goto(r, step),
             request[r].at \in {"revokeAll", "addPeer"},
             step = "insert" => Deactivate(ActiveKeysOf(v))
      PROVE  HeldInv'
  <2>1. ASSUME NEW u \in Users \ disturbed', KeyChange(request[r], u)
        PROVE  Prepared(request[r], u)'
    <3>1. /\ RowKeyIs(u, request[r].device, request[r].key)
          /\ request[r].device \in DevicesOf(u) /\ u = v
      BY <1>0, <1>4, <2>1, Ready DEF Prepared, NewSteps
    <3>2. request[r].key \notin ActiveKeysOf(u)
      <4>1. request[r].key \notin Known
        BY <1>4 DEF HeldInv, NewKeys, NewSteps
      <4> QED
        BY <4>1, ActiveKnown
    <3>3. /\ request'[r].at = step /\ request'[r].device = request[r].device
          /\ request'[r].key = request[r].key
      BY <1>4, GotoFields
    <3>4. step = "insert" => ActiveKeysOf(u)' = {}
      BY <1>1, <1>4, <3>1
    <3>5. ActiveKeysOf(u)' \subseteq ActiveKeysOf(u)
      BY <1>1 DEF Shrinks
    <3>6. devices'[request[r].device].key = request[r].key
      BY <1>0, <3>1 DEF RowKeyIs
    <3> QED
      BY <1>2, <3>1, <3>2, <3>3, <3>4, <3>5, <3>6 DEF Prepared, RowKeyIs, RowKeyUnused, NewSteps
  <2>2. GoesOn(r)
    BY <1>2, <1>4, <2>1, GotoGoesOn DEF NewSteps
  <2> QED
    BY <1>0, <1>1, <1>2, <2>2, StepHeld
<1> QED
  BY <1>3, <1>4 DEF RegisterRevokeAll, AddPeerRevoke, WebhookCutoff, AddPeerFails

LEMMA ConfirmHeld ==
  ASSUME TypeOK, HeldInv, NEW r \in Requests, ConfirmUpdate(r)
  PROVE  HeldInv'
<1> DEFINE d == request[r].device
<1>0. UNCHANGED <<peers, disturbed>> /\ End(r)
  BY DEF ConfirmUpdate
<1>1. /\ Registered' = Registered
      /\ \A e \in Registered : devices'[e].user = devices[e].user /\ devices'[e].key = devices[e].key
  <2>1. CASE d \in Registered
    <3>1. devices' = [devices EXCEPT ![d] = [devices[d] EXCEPT !.active = TRUE]]
      BY <2>1 DEF ConfirmUpdate
    <3>2. [devices[d] EXCEPT !.active = TRUE] \in Device /\ devices[d] \in Device /\ Absent \notin Device
      BY <2>1, RowTyped, DeviceAssumption DEF Device
    <3>3. devices \in [Devices -> Device \cup {Absent}]
      BY TypeParts DEF Table
    <3> QED
      BY <3>1, <3>2, <3>3, <2>1 DEF Registered, Device
  <2>2. CASE d \notin Registered
    BY <2>2 DEF ConfirmUpdate, Registered
  <2> QED
    BY <2>1, <2>2
<1>2. SameRows /\ GoneUnused(r)
  BY <1>1 DEF SameRows, GoneUnused, DevicesOf
<1>3. Shrinks
  BY <1>0, PeersSame
<1> QED
  BY <1>0, <1>2, <1>3, EndGoesOn, StepHeld

\* An account whose devices and usable keys a step leaves alone, and none of whose
\* requests it brings to a new step.
LEMMA OthersSettled ==
  ASSUME TypeOK, NEW r \in Requests, NEW u \in Users, Settled(u),
         request' = [request EXCEPT ![r] = request'[r]], ~KeyChange(request'[r], u),
         ActiveKeysOf(u)' = ActiveKeysOf(u), DevicesOf(u)' = DevicesOf(u),
         \A d \in DevicesOf(u) : devices'[d].key = devices[d].key
  PROVE  Settled(u)'
<1>0. \A s \in Requests \ {r} : request'[s] = request[s]
  BY TypeParts
<1>1. Held(u)'
  BY DEF Settled, Held
<1>2. ASSUME NEW s \in Requests, KeyChange(request'[s], u)
      PROVE  Prepared(request[s], u)' /\ \A t \in Requests : KeyChange(request'[t], u) => t = s
  <2>1. \A t \in Requests : KeyChange(request'[t], u) => KeyChange(request[t], u) /\ request'[t] = request[t]
    BY <1>0
  <2>2. Prepared(request[s], u) /\ \A t \in Requests : KeyChange(request[t], u) => t = s
    BY <1>2, <2>1 DEF Settled
  <2>3. Prepared(request[s], u)'
    BY <1>2, <2>1, <2>2 DEF Prepared, RowKeyIs, RowKeyUnused
  <2> QED
    BY <2>1, <2>2, <2>3
<1> QED
  BY <1>1, <1>2 DEF Settled, KeyChange

\* The new key becomes usable: the account had no usable key, and its device has this one.
LEMMA InsertHeld ==
  ASSUME TypeOK, HeldInv, NEW r \in Requests, AddPeerInsert(r)
  PROVE  HeldInv'
<1> DEFINE v == request[r].user
           k == request[r].key
<1>0. /\ request[r].at = "insert" /\ v \in Users /\ k \in Keys /\ request[r].login \in Credentials
      /\ UNCHANGED devices
  BY RequestTyped, DeviceAssumption DEF AddPeerInsert, RequestOK, HoldSteps
<1>1. SameRows /\ GoneUnused(r) /\ Registered' = Registered /\ \A u : DevicesOf(u)' = DevicesOf(u)
  BY <1>0, RowsSame
<1>2. CASE UNCHANGED <<peers, disturbed>> /\ AddPeerFails(r)
  <2>1. Shrinks /\ \A u : ActiveKeysOf(u)' = ActiveKeysOf(u)
    BY <1>2, PeersSame
  <2>2. CASE End(r)
    BY <1>1, <1>2, <2>1, <2>2, EndGoesOn, StepHeld
  <2>3. CASE Goto(r, "discard")
    <3>1. ASSUME NEW u \in Users \ disturbed', KeyChange(request[r], u)
          PROVE  Prepared(request[r], u)'
      <4>1. RowKeyIs(u, request[r].device, k) /\ ActiveKeysOf(u) = {}
        BY <1>0, <1>2, <3>1, Ready DEF Prepared, NewSteps
      <4>2. request'[r].at = "discard" /\ request'[r].device = request[r].device
        BY <2>3, GotoFields
      <4> QED
        BY <2>1, <4>1, <4>2 DEF Prepared, RowKeyUnused, NewSteps
    <3>2. GoesOn(r)
      BY <1>0, <1>1, <2>3, <3>1, GotoGoesOn DEF NewSteps
    <3> QED
      BY <1>1, <1>2, <2>1, <3>2, StepHeld
  <2> QED
    BY <1>2, <2>2, <2>3 DEF AddPeerFails
<1>3. ASSUME NEW s \in Servers, Insert(k, v, s, request[r].login),
             \/ End(r) /\ UNCHANGED disturbed
             \/ AddPeerFails(r) /\ Disturb(v)
      PROVE  HeldInv'
  <2>1. \A u \in Users : ActiveKeysOf(u)' = IF u = v THEN ActiveKeysOf(u) \cup {k} ELSE ActiveKeysOf(u)
    BY <1>0, <1>3, InsertActive, TypeParts, SentinelsAssumption DEF Pins
  <2>2. Known' \subseteq Known \cup {k}
    BY <1>0, <1>3, TypeParts DEF Insert, Known, DirectoryTypeOK
  <2>3. /\ request' = [request EXCEPT ![r] = request'[r]]
        /\ request'[r].at \in {"idle", "discard"} /\ request'[r].user \in {v, Absent}
        /\ Named(request'[r]) \cap Registered \subseteq Named(request[r])
        /\ request'[r].user = Absent => Named(request'[r]) = {Absent}
        /\ v \notin disturbed' => request'[r].user = Absent
    <3>1. CASE End(r)
      <4>1. request'[r] = Idle /\ request' = [request EXCEPT ![r] = request'[r]]
        BY <3>1, TypeParts DEF End
      <4>2. Named(Idle) = {Absent} /\ Absent \notin Registered
        BY DeviceAssumption DEF Named, Idle, Registered
      <4> QED
        BY <4>1, <4>2, IdleOK
    <3>2. CASE Goto(r, "discard") /\ Disturb(v)
      BY <1>0, <3>2, GotoFields, IdleOK DEF Disturb
    <3> QED
      BY <1>3, <3>1, <3>2 DEF AddPeerFails
  <2>4. \A t \in Requests \ {r} : request'[t] = request[t]
    BY <2>3, TypeParts
  <2>5. Owned'
    <3>1. Absent \notin Registered
      BY DeviceAssumption DEF Registered
    <3>2. \A t \in Requests : \A d \in Registered \cap Named(request[t]) : devices[d].user = request[t].user
      BY DEF HeldInv, Owned
    <3>3. \A t \in Requests : \A d \in Registered \cap Named(request'[t]) : devices[d].user = request'[t].user
      <4> SUFFICES ASSUME NEW t \in Requests, NEW d \in Registered \cap Named(request'[t])
                   PROVE  devices[d].user = request'[t].user
        OBVIOUS
      <4>1. CASE t = r
        BY <2>3, <3>1, <3>2, <4>1
      <4>2. CASE t # r
        BY <2>4, <3>2, <4>2
      <4> QED
        BY <4>1, <4>2
    <3> QED
      BY <1>0, <1>1, <3>3 DEF Owned, Named
  <2>6. NewKeys'
    <3>1. \A t \in Requests : request'[t].at \in NewSteps => t # r
      BY <2>3 DEF NewSteps
    <3>2. \A t \in Requests \ {r} : request[t].at \in NewSteps => request[t].key # k
      BY <1>0 DEF HeldInv, NewKeys, NewSteps
    <3> QED
      BY <2>2, <2>4, <3>1, <3>2 DEF HeldInv, NewKeys
  <2>7. disturbed \subseteq disturbed'
    BY <1>3 DEF Disturb
  <2>8. ASSUME NEW u \in Users \ disturbed'
        PROVE  Settled(u)'
    <3>1. Settled(u)
      BY <2>7 DEF HeldInv
    <3>2. CASE u = v
      <4>1. KeyChange(request[r], u) /\ request'[r].user # u
        BY <1>0, <2>3, <3>2, IdleOK DEF KeyChange
      <4>2. \A t \in Requests : ~KeyChange(request'[t], u)
        BY <2>4, <3>1, <4>1 DEF Settled, KeyChange
      <4>3. /\ RowKeyIs(u, request[r].device, k) /\ request[r].device \in DevicesOf(u)
            /\ ActiveKeysOf(u) = {}
        BY <1>0, <2>7, <4>1, Ready DEF Prepared, NewSteps
      <4>4. Held(u)'
        BY <1>0, <1>1, <2>1, <3>2, <4>3 DEF Held, RowKeyIs
      <4> QED
        BY <4>2, <4>4 DEF Settled, KeyChange
    <3>3. CASE u # v
      BY <1>0, <1>1, <2>1, <2>3, <3>1, <3>3, IdleOK, OthersSettled DEF KeyChange
    <3> QED
      BY <3>2, <3>3
  <2> QED
    BY <2>5, <2>6, <2>8 DEF HeldInv
<1> QED
  BY <1>2, <1>3 DEF AddPeerInsert

\* A device gets a key that nobody has: it had an unused one, or is a new device.
LEMMA NewKeyHeld ==
  ASSUME TypeOK, HeldInv, NEW r \in Requests, NEW d \in Devices, NEW k \in Keys, Fresh(k),
         UNCHANGED <<peers, disturbed>>, request[r].at \in {"rekey", "create"},
         request' = [request EXCEPT ![r] = request'[r]],
         request'[r].at \in {"revokeAll", "addPeer"}, request'[r].user = request[r].user,
         request'[r].device = d, request'[r].key = k, request'[r].old = request[r].old,
         devices'[d] # Absent, devices'[d].user = request[r].user, devices'[d].key = k,
         \A e \in Devices \ {d} : devices'[e] = devices[e],
         \/ d \in Registered /\ d = request[r].device /\ request[r].at = "rekey"
         \/ FreshId(d)
  PROVE  HeldInv'
<1> DEFINE v == request[r].user
<1>0. v \in Users /\ \A t \in Requests \ {r} : request'[t] = request[t]
  BY RequestTyped, TypeParts DEF RequestOK
<1>1. (\A u : ActiveKeysOf(u)' = ActiveKeysOf(u)) /\ Known' = Known
  BY PeersSame DEF Shrinks
<1>2. Registered' = Registered \cup {d}
  BY DEF Registered
<1>3. d \in Registered => devices[d].user = v
  BY DEF FreshId, Registered, HeldInv, Owned, Named
<1>4. \A e \in Registered' \ {d} : e \in Registered /\ devices'[e] = devices[e]
  BY <1>2 DEF Registered
<1>5. Owned'
  <2>1. \A t \in Requests : \A e \in Registered \cap Named(request[t]) : devices[e].user = request[t].user
    BY DEF HeldInv, Owned
  <2>2. ASSUME NEW t \in Requests, NEW e \in Registered' \cap Named(request'[t])
        PROVE  devices'[e].user = request'[t].user
    <3>1. CASE e = d /\ t = r
      BY <3>1
    <3>2. CASE e = d /\ t # r
      <4>1. d \in Named(request[t])
        BY <1>0, <2>2, <3>2
      <4>2. d \in Registered
        BY <4>1 DEF FreshId, Named, NamedBy
      <4> QED
        BY <1>0, <1>3, <2>1, <3>2, <4>1, <4>2
    <3>3. CASE e # d
      <4>1. e \in Named(request[t]) /\ request'[t].user = request[t].user
        BY <1>0, <2>2, <3>3 DEF Named
      <4> QED
        BY <1>4, <2>1, <2>2, <3>3, <4>1
    <3> QED
      BY <3>1, <3>2, <3>3
  <2> QED
    BY <2>2 DEF Owned, Named
<1>6. NewKeys'
  <2>1. k \notin Known /\ \A t \in Requests : request[t].key # k
    BY DEF Fresh, Known, InHand
  <2> QED
    BY <1>0, <1>1, <2>1 DEF HeldInv, NewKeys, NewSteps
<1>7. ASSUME NEW u \in Users \ disturbed'
      PROVE  Settled(u)'
  <2>1. Settled(u)
    BY DEF HeldInv
  <2>2. CASE u # v
    <3>1. DevicesOf(u)' = DevicesOf(u)
      BY <1>2, <1>3, <1>4, <2>2 DEF DevicesOf
    <3>2. \A e \in DevicesOf(u) : devices'[e].key = devices[e].key
      BY <1>3, <2>2 DEF DevicesOf, Registered
    <3> QED
      BY <1>1, <2>1, <2>2, <3>1, <3>2, OthersSettled DEF KeyChange
  <2>3. CASE u = v
    <3>1. DevicesOf(u)' = DevicesOf(u) \cup {d}
      BY <1>2, <1>3, <1>4, <2>3 DEF DevicesOf
    <3>2. KeyChange(request[r], u) /\ Prepared(request[r], u)
      BY <2>1, <2>3 DEF KeyChange, Settled
    <3>3. d \in DevicesOf(u) => devices[d].key \notin ActiveKeysOf(u)
      BY <3>2 DEF Prepared, RowKeyUnused, FreshId, DevicesOf, Registered
    <3>4. Held(u)'
      <4> SUFFICES ASSUME NEW j \in ActiveKeysOf(u), NEW l \in ActiveKeysOf(u)
                   PROVE  j = l /\ \E e \in DevicesOf(u)' : devices'[e].key = j
        BY <1>1 DEF Held
      <4>1. PICK e \in DevicesOf(u) : devices[e].key = j
        BY <2>1 DEF Settled, Held
      <4>2. e # d /\ e \in Devices
        BY <3>3, <4>1 DEF DevicesOf, Registered
      <4> QED
        BY <2>1, <3>1, <4>1, <4>2 DEF Settled, Held
    <3>5. \A t \in Requests : KeyChange(request'[t], u) => t = r
      BY <1>0, <2>1, <3>2 DEF Settled
    <3>6. Prepared(request[r], u)'
      BY <3>1 DEF Prepared, RowKeyIs, NewSteps
    <3> QED
      BY <3>4, <3>5, <3>6 DEF Settled, KeyChange
  <2> QED
    BY <2>2, <2>3
<1> QED
  BY <1>5, <1>6, <1>7 DEF HeldInv

LEMMA RekeyHeld ==
  ASSUME TypeOK, HeldInv, NEW r \in Requests, RegisterRekey(r)
  PROVE  HeldInv'
<1> DEFINE d == request[r].device
<1>0. request[r].at = "rekey" /\ UNCHANGED <<peers, disturbed>>
  BY DEF RegisterRekey
<1>1. CASE End(r) /\ UNCHANGED devices
  <2>1. SameRows /\ GoneUnused(r) /\ Shrinks
    BY <1>0, <1>1, RowsSame, PeersSame
  <2> QED
    BY <1>0, <1>1, <2>1, EndGoesOn, StepHeld
<1>2. ASSUME NEW k \in Keys, Fresh(k), d \in Registered,
             devices' = [devices EXCEPT ![d].key = k, ![d].active = FALSE],
             request' = [request EXCEPT ![r].at = "addPeer", ![r].key = k]
      PROVE  HeldInv'
  <2> DEFINE row == [devices[d] EXCEPT !.key = k, !.active = FALSE]
             q == [request[r] EXCEPT !.at = "addPeer", !.key = k]
  <2>1. d \in Devices /\ devices[d] \in Device /\ devices[d].user = request[r].user
    BY <1>2, RowTyped DEF HeldInv, Owned, Named
  <2>2. row \in Device /\ row.user = request[r].user /\ row.key = k
    BY <2>1 DEF Device
  <2>3. devices' = [devices EXCEPT ![d] = row] /\ request' = [request EXCEPT ![r] = q]
    BY <1>2
  <2>4. request[r] \in Request
    BY TypeParts
  <2>5. q.at = "addPeer" /\ q.user = request[r].user /\ q.device = d /\ q.key = k /\ q.old = request[r].old
    BY <2>4 DEF Request
  <2> HIDE DEF q, row
  <2>6. devices'[d] = row /\ \A e \in Devices \ {d} : devices'[e] = devices[e]
    BY <2>1, <2>3, TypeParts DEF Table
  <2>7. request'[r] = q /\ request' = [request EXCEPT ![r] = request'[r]]
    BY <2>3, TypeParts
  <2>8. devices'[d] # Absent
    BY <2>2, <2>6, DeviceAssumption DEF Device
  <2> QED
    BY <1>0, <1>2, <2>1, <2>2, <2>5, <2>6, <2>7, <2>8, NewKeyHeld
<1> QED
  BY <1>1, <1>2 DEF RegisterRekey

LEMMA CreateHeld ==
  ASSUME TypeOK, HeldInv, NEW r \in Requests, RegisterCreate(r)
  PROVE  HeldInv'
<1> PICK d \in Devices, k \in Keys :
       /\ FreshId(d) /\ Fresh(k)
       /\ devices' = [devices EXCEPT ![d] =
            [user |-> request[r].user, key |-> k, machine |-> request[r].machine, active |-> FALSE]]
       /\ request' = [request EXCEPT ![r].at = "revokeAll", ![r].device = d, ![r].key = k,
                                     ![r].login = TRUE]
  BY DEF RegisterCreate
<1> DEFINE row == [user |-> request[r].user, key |-> k, machine |-> request[r].machine, active |-> FALSE]
           q == [request[r] EXCEPT !.at = "revokeAll", !.device = d, !.key = k, !.login = TRUE]
<1>1. request[r].at = "create" /\ UNCHANGED <<peers, disturbed>>
  BY DEF RegisterCreate
<1>2. row \in Device /\ row.user = request[r].user /\ row.key = k
  BY <1>1, RequestTyped DEF RequestOK, Device
<1>3. devices' = [devices EXCEPT ![d] = row] /\ request' = [request EXCEPT ![r] = q]
  OBVIOUS
<1>4. request[r] \in Request
  BY TypeParts
<1>5. q.at = "revokeAll" /\ q.user = request[r].user /\ q.device = d /\ q.key = k /\ q.old = request[r].old
  BY <1>4 DEF Request
<1> HIDE DEF q, row
<1>6. devices'[d] = row /\ \A e \in Devices \ {d} : devices'[e] = devices[e]
  BY <1>3, TypeParts DEF Table
<1>7. request'[r] = q /\ request' = [request EXCEPT ![r] = request'[r]]
  BY <1>3, TypeParts
<1>8. devices'[d] # Absent
  BY <1>2, <1>6, DeviceAssumption DEF Device
<1>9. /\ FreshId(d) /\ Fresh(k) /\ UNCHANGED <<peers, disturbed>> /\ request[r].at \in {"rekey", "create"}
      /\ request'[r].at \in {"revokeAll", "addPeer"} /\ request'[r].user = request[r].user
      /\ request'[r].device = d /\ request'[r].key = k /\ request'[r].old = request[r].old
      /\ devices'[d].user = request[r].user /\ devices'[d].key = k
  BY <1>1, <1>2, <1>5, <1>6, <1>7
<1> HIDE DEF row, q
<1> QED
  BY <1>6, <1>7, <1>8, <1>9, NewKeyHeld

LEMMA NextHeld == TypeOK /\ HeldInv /\ [Next]_vars => HeldInv'
<1> SUFFICES ASSUME TypeOK, HeldInv, [Next]_vars
             PROVE  HeldInv'
  OBVIOUS
<1>1. ASSUME NEW r \in Requests, RegisterStep(r)
      PROVE  HeldInv'
  BY <1>1, ReadsHeld, RevokesHeld, ExpireHeld, DeletesHeld, WithdrawsHeld, InsertHeld,
     RekeyHeld, CreateHeld DEF RegisterStep
<1>2. ASSUME NEW r \in Requests, OtherStep(r)
      PROVE  HeldInv'
  BY <1>2, RevokesHeld, DeletesHeld, WithdrawsHeld, ConfirmHeld DEF OtherStep
<1>3. CASE UNCHANGED vars
  BY <1>3 DEF vars, HeldInv, Owned, Named, Registered, NewKeys, Known, Settled, Held, KeyChange,
              Prepared, RowKeyIs, RowKeyUnused, ActiveKeysOf, ActiveKeys, DevicesOf
<1> QED
  BY <1>1, <1>2, <1>3, ArrivalHeld DEF Next

LEMMA InitHeld == Init => HeldInv
<1> SUFFICES ASSUME Init
             PROVE  HeldInv
  OBVIOUS
<1>1. Registered = {} /\ \A r \in Requests : request[r] = Idle
  BY DEF Init, Registered
<1>2. \A u \in Users, r \in Requests : ~KeyChange(request[r], u)
  BY <1>1, IdleOK DEF KeyChange
<1>3. \A u : ActiveKeysOf(u) = {}
  BY DEF Init, DirectoryInit, ActiveKeysOf, ActiveKeys, Known
<1> QED
  BY <1>1, <1>2, <1>3, IdleOK DEF HeldInv, Owned, NewKeys, NewSteps, Settled, Held

(* An account has one usable key at most, which a device of its has, however requests of
   all accounts interleave and whatever fails, unless its own overlapped or a call on its
   behalf failed (device.ts:362-406, 498-526, 598-612, 636-650, 674-690).         *)
THEOREM KeysHeldEver == Spec => []KeysHeld
<1>1. TypeOK /\ HeldInv => KeysHeld
  BY DEF HeldInv, Settled, Held, KeysHeld
<1> QED
  BY <1>1, InitTyped, NextTyped, InitHeld, NextHeld, PTL DEF Spec

-----------------------------------------------------------------------------
(* MachineDevicesBounded.  A request comes to create a device only when it found the
   machine has none; from then on the machine's devices and the requests still about to
   create one are together as many as there are requests at most.                 *)

ClaimSteps == {"count", "findOld", "expire", "expireDelete", "create"}
Claiming(u, m) ==
  {r \in Requests : request[r].user = u /\ request[r].machine = m /\ request[r].at \in ClaimSteps}

MachinesAccounted ==
  \A u \in Users, m \in Machines :
    Cardinality(OnMachine(u, m)) + Cardinality(Claiming(u, m)) <= Cardinality(Requests)

LEMMA MachineSets ==
  ASSUME NEW u, NEW m
  PROVE  /\ IsFiniteSet(OnMachine(u, m)) /\ Cardinality(OnMachine(u, m)) \in Nat
         /\ IsFiniteSet(Claiming(u, m)) /\ Cardinality(Claiming(u, m)) \in Nat
         /\ Cardinality(Claiming(u, m)) <= Cardinality(Requests) /\ Cardinality(Requests) \in Nat
<1>1. OnMachine(u, m) \in SUBSET Devices /\ Claiming(u, m) \in SUBSET Requests
  BY DEF OnMachine, DevicesOf, Registered, Claiming
<1>2. IsFiniteSet(Devices) /\ IsFiniteSet(Requests)
  BY DeviceAssumption
<1> QED
  BY <1>1, <1>2, FS_Subset, FS_CardinalityType

\* Neither set grows.
LEMMA AccountKept ==
  ASSUME NEW u \in Users, NEW m \in Machines, MachinesAccounted,
         OnMachine(u, m)' \subseteq OnMachine(u, m), Claiming(u, m)' \subseteq Claiming(u, m)
  PROVE  Cardinality(OnMachine(u, m)') + Cardinality(Claiming(u, m)') <= Cardinality(Requests)
<1> DEFINE A == OnMachine(u, m)
           B == Claiming(u, m)
           C == OnMachine(u, m)'
           D == Claiming(u, m)'
<1>1. /\ IsFiniteSet(A) /\ IsFiniteSet(B) /\ Cardinality(A) \in Nat /\ Cardinality(B) \in Nat
      /\ Cardinality(Requests) \in Nat
  BY MachineSets
<1>2. Cardinality(A) + Cardinality(B) <= Cardinality(Requests) /\ C \subseteq A /\ D \subseteq B
  BY DEF MachinesAccounted
<1> HIDE DEF A, B, C, D
<1>3. /\ Cardinality(C) <= Cardinality(A) /\ Cardinality(D) <= Cardinality(B)
      /\ IsFiniteSet(C) /\ IsFiniteSet(D)
  BY <1>1, <1>2, FS_Subset
<1>4. Cardinality(C) \in Nat /\ Cardinality(D) \in Nat
  BY <1>3, FS_CardinalityType
<1>5. Cardinality(C) + Cardinality(D) <= Cardinality(Requests)
  BY <1>1, <1>2, <1>3, <1>4
<1> QED
  BY <1>5 DEF C, D

\* A request that does not come to create a device, and creates none.
LEMMA NoneClaimed ==
  ASSUME TypeOK, MachinesAccounted, NEW r \in Requests,
         request' = [request EXCEPT ![r] = request'[r]],
         request'[r].at \in ClaimSteps =>
           /\ request[r].at \in ClaimSteps /\ request'[r].user = request[r].user
           /\ request'[r].machine = request[r].machine,
         \A d \in Registered' : /\ d \in Registered /\ devices'[d].user = devices[d].user
                                /\ devices'[d].machine = devices[d].machine
  PROVE  MachinesAccounted'
<1> SUFFICES ASSUME NEW u \in Users, NEW m \in Machines
             PROVE  Cardinality(OnMachine(u, m)') + Cardinality(Claiming(u, m)') <= Cardinality(Requests)
  BY DEF MachinesAccounted
<1>1. OnMachine(u, m)' \subseteq OnMachine(u, m)
  BY DEF OnMachine, DevicesOf
<1>2. \A s \in Requests \ {r} : request'[s] = request[s]
  BY TypeParts
<1>3. Claiming(u, m)' \subseteq Claiming(u, m)
  BY <1>2 DEF Claiming
<1> QED
  BY <1>1, <1>3, AccountKept

LEMMA RowsKept ==
  ASSUME UNCHANGED devices
  PROVE  \A d \in Registered' : /\ d \in Registered /\ devices'[d].user = devices[d].user
                                /\ devices'[d].machine = devices[d].machine
BY DEF Registered

LEMMA FindAccounted ==
  ASSUME TypeOK, MachinesAccounted, NEW r \in Requests, RegisterFind(r)
  PROVE  MachinesAccounted'
<1>0. UNCHANGED devices /\ request[r].at = "find"
  BY DEF RegisterFind
<1>1. ASSUME NEW d, request' = [request EXCEPT ![r].at = "revokeOld", ![r].device = d, ![r].key = devices[d].key]
      PROVE  MachinesAccounted'
  <2> DEFINE q == [request[r] EXCEPT !.at = "revokeOld", !.device = d, !.key = devices[d].key]
  <2>1. request' = [request EXCEPT ![r] = q] /\ request[r] \in Request
    BY <1>1, TypeParts
  <2>2. q.at = "revokeOld"
    BY <2>1 DEF Request
  <2> HIDE DEF q
  <2>3. request'[r] = q
    BY <2>1, TypeParts
  <2> QED
    BY <1>0, <2>1, <2>2, <2>3, NoneClaimed, RowsKept DEF ClaimSteps
<1>2. ASSUME Goto(r, "count"),
             request[r].machine = NoMachine \/ OnMachine(request[r].user, request[r].machine) = {}
      PROVE  MachinesAccounted'
  <2> SUFFICES ASSUME NEW u \in Users, NEW m \in Machines
               PROVE  Cardinality(OnMachine(u, m)') + Cardinality(Claiming(u, m)') <= Cardinality(Requests)
    BY DEF MachinesAccounted
  <2>1. \A s \in Requests \ {r} : request'[s] = request[s]
    BY <1>2, TypeParts, GotoFields
  <2>2. OnMachine(u, m)' = OnMachine(u, m)
    BY <1>0 DEF OnMachine, DevicesOf, Registered
  <2>3. CASE request[r].user = u /\ request[r].machine = m
    <3>1. OnMachine(u, m)' = {}
      BY <1>2, <2>2, <2>3, DeviceAssumption
    <3>2. Claiming(u, m)' \in SUBSET Requests /\ IsFiniteSet(Requests)
      BY DeviceAssumption DEF Claiming
    <3>3. Cardinality(Claiming(u, m)') <= Cardinality(Requests) /\ IsFiniteSet(Claiming(u, m)')
      BY <3>2, FS_Subset
    <3>4. Cardinality(Claiming(u, m)') \in Nat /\ Cardinality(Requests) \in Nat
      BY <3>2, <3>3, FS_CardinalityType
    <3> QED
      BY <3>1, <3>3, <3>4, FS_EmptySet
  <2>4. CASE ~(request[r].user = u /\ request[r].machine = m)
    <3>1. ~(request'[r].user = u /\ request'[r].machine = m)
      BY <1>2, <2>4, GotoFields
    <3>2. Claiming(u, m)' \subseteq Claiming(u, m)
      BY <2>1, <3>1 DEF Claiming
    <3> QED
      BY <2>2, <3>2, AccountKept
  <2> QED
    BY <2>3, <2>4
<1> QED
  BY <1>1, <1>2 DEF RegisterFind

LEMMA CreateAccounted ==
  ASSUME TypeOK, MachinesAccounted, NEW r \in Requests, RegisterCreate(r)
  PROVE  MachinesAccounted'
<1> PICK d \in Devices, k \in Keys :
       /\ FreshId(d) /\ Fresh(k)
       /\ devices' = [devices EXCEPT ![d] =
            [user |-> request[r].user, key |-> k, machine |-> request[r].machine, active |-> FALSE]]
       /\ request' = [request EXCEPT ![r].at = "revokeAll", ![r].device = d, ![r].key = k,
                                     ![r].login = TRUE]
  BY DEF RegisterCreate
<1> DEFINE row == [user |-> request[r].user, key |-> k, machine |-> request[r].machine, active |-> FALSE]
           q == [request[r] EXCEPT !.at = "revokeAll", !.device = d, !.key = k, !.login = TRUE]
<1>0. request[r].at = "create" /\ request[r] \in Request /\ devices[d] = Absent
  BY TypeParts DEF RegisterCreate, FreshId
<1>1. /\ devices' = [devices EXCEPT ![d] = row] /\ request' = [request EXCEPT ![r] = q]
      /\ row.user = request[r].user /\ row.machine = request[r].machine
  OBVIOUS
<1>2. q.at = "revokeAll"
  BY <1>0 DEF Request
<1> HIDE DEF q, row
<1>3. /\ devices'[d] = row /\ \A e \in Devices \ {d} : devices'[e] = devices[e]
      /\ request'[r] = q /\ \A s \in Requests \ {r} : request'[s] = request[s]
  BY <1>1, TypeParts DEF Table
<1> SUFFICES ASSUME NEW u \in Users, NEW m \in Machines
             PROVE  Cardinality(OnMachine(u, m)') + Cardinality(Claiming(u, m)') <= Cardinality(Requests)
  BY DEF MachinesAccounted
<1>4. CASE request[r].user = u /\ request[r].machine = m
  <2> DEFINE A == OnMachine(u, m)
             B == Claiming(u, m)
             C == OnMachine(u, m)'
             D == Claiming(u, m)'
  <2>1. C \subseteq A \cup {d}
    BY <1>3 DEF OnMachine, DevicesOf, Registered
  <2>2. r \in B /\ D = B \ {r}
    BY <1>0, <1>2, <1>3, <1>4 DEF Claiming, ClaimSteps
  <2>3. /\ IsFiniteSet(A) /\ IsFiniteSet(B) /\ Cardinality(A) \in Nat /\ Cardinality(B) \in Nat
        /\ Cardinality(Requests) \in Nat
    BY MachineSets
  <2>4. Cardinality(A) + Cardinality(B) <= Cardinality(Requests)
    BY DEF MachinesAccounted
  <2> HIDE DEF A, B, C, D
  <2>5. Cardinality(D) = Cardinality(B) - 1
    BY <2>2, <2>3, FS_RemoveElement
  <2>6. IsFiniteSet(A \cup {d}) /\ Cardinality(A \cup {d}) <= Cardinality(A) + 1
    <3>1. IsFiniteSet(A \cup {d})
      BY <2>3, FS_AddElement
    <3>2. Cardinality(A \cup {d}) = IF d \in A THEN Cardinality(A) ELSE Cardinality(A) + 1
      BY <2>3, FS_AddElement
    <3> QED
      BY <2>3, <3>1, <3>2
  <2>7. IsFiniteSet(C) /\ Cardinality(C) <= Cardinality(A \cup {d})
    BY <2>1, <2>6, FS_Subset
  <2>8. Cardinality(C) \in Nat /\ Cardinality(A \cup {d}) \in Nat
    BY <2>6, <2>7, FS_CardinalityType
  <2>9. Cardinality(C) + Cardinality(D) <= Cardinality(Requests)
    BY <2>3, <2>4, <2>5, <2>6, <2>7, <2>8
  <2> QED
    BY <2>9 DEF C, D
<1>5. CASE ~(request[r].user = u /\ request[r].machine = m)
  <2>1. OnMachine(u, m)' \subseteq OnMachine(u, m)
    BY <1>1, <1>3, <1>5 DEF OnMachine, DevicesOf, Registered
  <2>2. Claiming(u, m)' \subseteq Claiming(u, m)
    BY <1>2, <1>3 DEF Claiming, ClaimSteps
  <2> QED
    BY <2>1, <2>2, AccountKept
<1> QED
  BY <1>4, <1>5

LEMMA NextAccounted == TypeOK /\ MachinesAccounted /\ [Next]_vars => MachinesAccounted'
<1> SUFFICES ASSUME TypeOK, MachinesAccounted, [Next]_vars
             PROVE  MachinesAccounted'
  OBVIOUS
<1>1. ASSUME NEW r \in Requests, NEW q, request' = [request EXCEPT ![r] = q],
             q.at \notin ClaimSteps, UNCHANGED devices
      PROVE  MachinesAccounted'
  <2>1. request'[r] = q /\ request' = [request EXCEPT ![r] = request'[r]]
    BY <1>1, TypeParts
  <2> QED
    BY <1>1, <2>1, NoneClaimed, RowsKept
<1>2. ASSUME NEW r \in Requests, End(r),
             \A d \in Registered' : /\ d \in Registered /\ devices'[d].user = devices[d].user
                                    /\ devices'[d].machine = devices[d].machine
      PROVE  MachinesAccounted'
  <2>1. request'[r] = Idle /\ request' = [request EXCEPT ![r] = request'[r]]
    BY <1>2, TypeParts DEF End
  <2> QED
    BY <1>2, <2>1, IdleOK, NoneClaimed DEF ClaimSteps
<1>3. ASSUME NEW r \in Requests, NEW step, Goto(r, step), step \in ClaimSteps => request[r].at \in ClaimSteps,
             \A d \in Registered' : /\ d \in Registered /\ devices'[d].user = devices[d].user
                                    /\ devices'[d].machine = devices[d].machine
      PROVE  MachinesAccounted'
  <2>1. /\ request' = [request EXCEPT ![r] = request'[r]] /\ request'[r].at = step
        /\ request'[r].user = request[r].user /\ request'[r].machine = request[r].machine
    BY <1>3, GotoFields
  <2> QED
    BY <1>3, <2>1, NoneClaimed
<1>4. ASSUME NEW r \in Requests, NEW u \in Users, Arrival(r, u)
      PROVE  MachinesAccounted'
  <2>0. UNCHANGED devices
    BY <1>4 DEF Arrival, RegisterBegin, ConfirmFind, CancelFind, RevokeFind, WebhookStore
  <2>1. ASSUME NEW m \in Machines \cup {NoMachine}, RegisterBegin(r, u, m)
        PROVE  MachinesAccounted'
    <3> DEFINE q == [Idle EXCEPT !.at = "find", !.user = u, !.machine = m, !.limit = limit[u]]
    <3>1. request' = [request EXCEPT ![r] = q]
      BY <2>1 DEF RegisterBegin, Begin
    <3>2. q.at \notin ClaimSteps
      BY DEF Idle, ClaimSteps
    <3> HIDE DEF q
    <3> QED
      BY <1>1, <2>0, <3>1, <3>2
  <2>2. ASSUME NEW d \in Devices, NEW step \in {"activate", "revokePeer"},
               request' = [request EXCEPT ![r] = Holding(step, u, d)]
        PROVE  MachinesAccounted'
    <3>1. Holding(step, u, d).at \notin ClaimSteps
      BY DEF Holding, Idle, ClaimSteps
    <3> QED
      BY <1>1, <2>0, <2>2, <3>1
  <2>3. ASSUME NEW n \in Limits, WebhookStore(r, u, n)
        PROVE  MachinesAccounted'
    <3> DEFINE q == [Idle EXCEPT !.at = "cutoff", !.user = u]
    <3>1. CASE request' = [request EXCEPT ![r] = q]
      <4>1. q.at \notin ClaimSteps
        BY DEF Idle, ClaimSteps
      <4> HIDE DEF q
      <4> QED
        BY <1>1, <2>0, <3>1, <4>1
    <3>2. CASE UNCHANGED request
      <4>1. request' = [request EXCEPT ![r] = request'[r]]
        BY <3>2, TypeParts
      <4> QED
        BY <2>0, <3>2, <4>1, NoneClaimed, RowsKept
    <3> QED
      BY <2>3, <3>1, <3>2 DEF WebhookStore
  <2> QED
    BY <1>4, <2>1, <2>2, <2>3 DEF Arrival, ConfirmFind, CancelFind, RevokeFind, Begin
<1>5. ASSUME NEW r \in Requests, RegisterStep(r)
      PROVE  MachinesAccounted'
  <2> USE DEF ClaimSteps
  <2>1. CASE RegisterFind(r)
    BY <2>1, FindAccounted
  <2>2. CASE RegisterCreate(r)
    BY <2>2, CreateAccounted
  <2>3. CASE RegisterRevokeOld(r) \/ RegisterCount(r) \/ RegisterRevokeAll(r) \/ AddPeerRevoke(r) \/ AddPeerInsert(r)
    <3>1. UNCHANGED devices
      BY <2>3 DEF RegisterRevokeOld, RegisterCount, RegisterRevokeAll, AddPeerRevoke, AddPeerInsert
    <3>2. \/ End(r)
          \/ Goto(r, "rekey") \/ Goto(r, "addPeer") \/ Goto(r, "discard") \/ Goto(r, "insert")
          \/ request[r].at = "count" /\ Goto(r, "findOld")
      BY <2>3 DEF RegisterRevokeOld, RegisterCount, RegisterRevokeAll, AddPeerRevoke, AddPeerInsert, AddPeerFails
    <3> QED
      BY <1>2, <1>3, <3>1, <3>2, RowsKept
  <2>4. CASE RegisterFindOld(r)
    <3> PICK old \in SUBSET PendingOf(request[r].user) :
           request' = [request EXCEPT ![r].at = IF old = {} THEN "create" ELSE "expire",
                                      ![r].old = {[device |-> d, key |-> devices[d].key] : d \in old}]
      BY <2>4 DEF RegisterFindOld
    <3> DEFINE found == {[device |-> d, key |-> devices[d].key] : d \in old}
               q == [request[r] EXCEPT !.at = IF old = {} THEN "create" ELSE "expire", !.old = found]
    <3> HIDE DEF found
    <3>1. request' = [request EXCEPT ![r] = q] /\ request[r] \in Request
      BY TypeParts DEF found
    <3>2. q.user = request[r].user /\ q.machine = request[r].machine
      BY <3>1 DEF Request
    <3> HIDE DEF q
    <3>3. request'[r] = q /\ request' = [request EXCEPT ![r] = request'[r]]
      BY <3>1, TypeParts
    <3>4. request[r].at \in ClaimSteps /\ UNCHANGED devices
      BY <2>4 DEF RegisterFindOld
    <3> QED
      BY <3>2, <3>3, <3>4, NoneClaimed, RowsKept
  <2>5. CASE RegisterExpire(r)
    <3> PICK o \in request[r].old :
           request' = [request EXCEPT ![r].at = "expireDelete", ![r].device = o.device,
                                      ![r].key = o.key, ![r].old = @ \ {o}]
      BY <2>5 DEF RegisterExpire
    <3> DEFINE q == [request[r] EXCEPT !.at = "expireDelete", !.device = o.device,
                                       !.key = o.key, !.old = @ \ {o}]
    <3>1. request' = [request EXCEPT ![r] = q] /\ request[r] \in Request
      BY TypeParts
    <3>2. q.user = request[r].user /\ q.machine = request[r].machine
      BY <3>1 DEF Request
    <3> HIDE DEF q
    <3>3. request'[r] = q /\ request' = [request EXCEPT ![r] = request'[r]]
      BY <3>1, TypeParts
    <3>4. request[r].at \in ClaimSteps /\ UNCHANGED devices
      BY <2>5 DEF RegisterExpire
    <3> QED
      BY <3>2, <3>3, <3>4, NoneClaimed, RowsKept
  <2>6. CASE RegisterExpireDelete(r) \/ RegisterDiscard(r)
    <3>1. request[r].device \in Devices
      BY <2>6, RequestTyped DEF RegisterExpireDelete, RegisterDiscard, RequestOK, HoldSteps
    <3>2. UNCHANGED devices \/ Delete(request[r].device)
      BY <2>6 DEF RegisterExpireDelete, RegisterDiscard
    <3>3. \A d \in Registered' : d \in Registered /\ devices'[d] = devices[d]
      BY <3>1, <3>2, RowDeleted DEF Registered
    <3>4. \/ End(r)
          \/ request[r].at = "expireDelete" /\ (Goto(r, "create") \/ Goto(r, "expire"))
      BY <2>6 DEF RegisterExpireDelete, RegisterDiscard
    <3> QED
      BY <1>2, <1>3, <3>3, <3>4
  <2>7. CASE RegisterRekey(r)
    <3> DEFINE d == request[r].device
    <3>1. CASE End(r) /\ UNCHANGED devices
      BY <1>2, <3>1, RowsKept
    <3>2. ASSUME NEW k \in Keys, d \in Registered,
                 devices' = [devices EXCEPT ![d].key = k, ![d].active = FALSE],
                 request' = [request EXCEPT ![r].at = "addPeer", ![r].key = k]
          PROVE  MachinesAccounted'
      <4> DEFINE row == [devices[d] EXCEPT !.key = k, !.active = FALSE]
                 q == [request[r] EXCEPT !.at = "addPeer", !.key = k]
      <4>1. d \in Devices /\ devices[d] \in Device
        BY <3>2, RowTyped
      <4>2. row.user = devices[d].user /\ row.machine = devices[d].machine
        BY <4>1 DEF Device
      <4>3. devices' = [devices EXCEPT ![d] = row] /\ request' = [request EXCEPT ![r] = q]
        BY <3>2
      <4>4. request[r] \in Request
        BY TypeParts
      <4>5. q.at = "addPeer"
        BY <4>4 DEF Request
      <4> HIDE DEF q, row
      <4>6. devices'[d] = row /\ \A e \in Devices \ {d} : devices'[e] = devices[e]
        BY <4>1, <4>3, TypeParts DEF Table
      <4>7. request'[r] = q /\ request' = [request EXCEPT ![r] = request'[r]]
        BY <4>3, TypeParts
      <4>8. \A e \in Registered' : /\ e \in Registered /\ devices'[e].user = devices[e].user
                                   /\ devices'[e].machine = devices[e].machine
        BY <3>2, <4>2, <4>6 DEF Registered
      <4> QED
        BY <4>5, <4>7, <4>8, NoneClaimed
    <3> QED
      BY <2>7, <3>1, <3>2 DEF RegisterRekey
  <2> QED
    BY <1>5, <2>1, <2>2, <2>3, <2>4, <2>5, <2>6, <2>7 DEF RegisterStep
<1>6. ASSUME NEW r \in Requests, OtherStep(r)
      PROVE  MachinesAccounted'
  <2>1. CASE ConfirmUpdate(r)
    <3> DEFINE d == request[r].device
    <3>1. CASE d \in Registered
      <4>1. devices' = [devices EXCEPT ![d] = [devices[d] EXCEPT !.active = TRUE]]
        BY <2>1, <3>1 DEF ConfirmUpdate
      <4>2. devices[d] \in Device /\ d \in Devices
        BY <3>1, RowTyped
      <4>3. \A e \in Registered' : /\ e \in Registered /\ devices'[e].user = devices[e].user
                                   /\ devices'[e].machine = devices[e].machine
        BY <3>1, <4>1, <4>2, TypeParts DEF Table, Registered, Device
      <4> QED
        BY <1>2, <2>1, <4>3 DEF ConfirmUpdate
    <3>2. CASE d \notin Registered
      BY <1>2, <2>1, <3>2, RowsKept DEF ConfirmUpdate
    <3> QED
      BY <3>1, <3>2
  <2>2. CASE RemoveRevokePeer(r)
    BY <1>3, <2>2, RowsKept DEF RemoveRevokePeer, ClaimSteps
  <2>3. CASE RemoveDelete(r)
    <3>1. request[r].device \in Devices /\ Delete(request[r].device)
      BY <2>3, RequestTyped DEF RemoveDelete, RequestOK, HoldSteps
    <3>2. \A d \in Registered' : d \in Registered /\ devices'[d] = devices[d]
      BY <3>1, RowDeleted DEF Registered
    <3> QED
      BY <1>2, <2>3, <3>2 DEF RemoveDelete
  <2>4. CASE WebhookCutoff(r)
    BY <1>2, <2>4, RowsKept DEF WebhookCutoff
  <2> QED
    BY <1>6, <2>1, <2>2, <2>3, <2>4 DEF OtherStep
<1>7. CASE UNCHANGED vars
  BY <1>7 DEF vars, MachinesAccounted, OnMachine, DevicesOf, Registered, Claiming
<1> QED
  BY <1>4, <1>5, <1>6, <1>7 DEF Next

LEMMA InitAccounted == Init => MachinesAccounted
<1> SUFFICES ASSUME Init, NEW u \in Users, NEW m \in Machines
             PROVE  Cardinality(OnMachine(u, m)) + Cardinality(Claiming(u, m)) <= Cardinality(Requests)
  BY DEF MachinesAccounted
<1>1. OnMachine(u, m) = {}
  BY DEF Init, OnMachine, DevicesOf, Registered
<1> QED
  BY <1>1, MachineSets, FS_EmptySet

(* A machine has no more devices than requests may overlap, for any number of both,
   although nothing but a look-up keeps it to one (device.ts:222-224, 362-372).   *)
THEOREM MachineDevicesBoundedEver == Spec => []MachineDevicesBounded
<1>1. MachinesAccounted => MachineDevicesBounded
  <2> SUFFICES ASSUME MachinesAccounted, NEW u \in Users, NEW m \in Machines
               PROVE  Cardinality(OnMachine(u, m)) <= Cardinality(Requests)
    BY DEF MachineDevicesBounded
  <2>1. Cardinality(OnMachine(u, m)) + Cardinality(Claiming(u, m)) <= Cardinality(Requests)
    BY DEF MachinesAccounted
  <2> QED
    BY <2>1, MachineSets
<1> QED
  BY <1>1, InitTyped, NextTyped, InitAccounted, NextAccounted, PTL DEF Spec

-----------------------------------------------------------------------------
(* The web app's calls are steps of the directory. *)

LEMMA StepOfDirectory == TypeOK /\ [Next]_vars => [DirectoryNext]_peers
<1> SUFFICES ASSUME TypeOK, [Next]_vars
             PROVE  [DirectoryNext]_peers
  OBVIOUS
<1>1. ASSUME NEW u \in Users, Deactivate(ActiveKeysOf(u))
      PROVE  DirectoryNext
  BY <1>1 DEF DirectoryNext, Withdraw, ActiveKeysOf, ActiveKeys
<1>2. ASSUME NEW k \in Known, Deactivate({k})
      PROVE  DirectoryNext
  <2>1. peers[k].user \in Users /\ {k} \in SUBSET {l \in Known : peers[l].user = peers[k].user}
    BY TypeParts DEF DirectoryTypeOK, Peer, Known
  <2> QED
    BY <1>2, <2>1 DEF DirectoryNext, Withdraw
<1>3. ASSUME NEW r \in Requests, NEW s \in Servers, request[r].at = "insert",
             Insert(request[r].key, request[r].user, s, request[r].login)
      PROVE  DirectoryNext
  <2>1. request[r].key \in Keys /\ request[r].user \in Users /\ request[r].login \in Credentials
    BY <1>3, RequestTyped, DeviceAssumption DEF RequestOK, HoldSteps
  <2> QED
    BY <1>3, <2>1 DEF DirectoryNext, Admit, Pins
<1>4. ASSUME NEW r \in Requests, RegisterStep(r) \/ OtherStep(r)
      PROVE  DirectoryNext \/ UNCHANGED peers
  <2>0. request[r].at # "idle" => request[r].user \in Users
    BY RequestTyped DEF RequestOK
  <2>1. CASE RegisterRevokeOld(r) \/ RemoveRevokePeer(r)
    BY <1>2, <2>1 DEF RegisterRevokeOld, RemoveRevokePeer, RevokePeer
  <2>2. CASE RegisterExpire(r)
    BY <1>2, <2>2 DEF RegisterExpire
  <2>3. CASE RegisterRevokeAll(r) \/ AddPeerRevoke(r) \/ WebhookCutoff(r)
    BY <1>1, <2>0, <2>3 DEF RegisterRevokeAll, AddPeerRevoke, WebhookCutoff
  <2>4. CASE AddPeerInsert(r)
    BY <1>3, <2>4 DEF AddPeerInsert
  <2> QED
    BY <1>4, <2>1, <2>2, <2>3, <2>4 DEF RegisterStep, OtherStep, RegisterFind, RegisterRekey,
         RegisterCount, RegisterFindOld, RegisterExpireDelete, RegisterCreate, RegisterDiscard,
         ConfirmUpdate, RemoveDelete
<1>5. ASSUME NEW r \in Requests, NEW u \in Users, Arrival(r, u)
      PROVE  UNCHANGED peers
  BY <1>5 DEF Arrival, RegisterBegin, ConfirmFind, CancelFind, RevokeFind, WebhookStore
<1> QED
  BY <1>4, <1>5 DEF Next, vars

(* Whatever the web app's requests do, in any order, a key is admitted once, withdrawn
   for good and never changes hands: the interleavings of whole handlers of the web app
   are behaviours of the directory that nodes rely on (device.ts:227-714).         *)
THEOREM DevicesUseDirectory == Spec => DirectorySpec /\ LifeCycle
<1>1. Init => DirectoryInit
  BY DEF Init
<1>2. Spec => DirectorySpec
  BY <1>1, StepOfDirectory, TypeCorrect, PTL DEF Spec, DirectorySpec
<1> QED
  BY <1>2, DirectoryKeepsLifeCycle
=============================================================================
