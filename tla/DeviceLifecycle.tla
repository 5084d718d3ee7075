---------------------------- MODULE DeviceLifecycle ----------------------------
(***************************************************************************)
(* apps/web: the devices of an account (lib/trpc/routers/device.ts), the   *)
(* subscription that limits them (the Stripe webhook), and the keys the    *)
(* web app asks the control plane to admit and withdraw on their behalf.   *)
(*                                                                         *)
(* A handler is a sequence of awaits: a statement on the web app's tables  *)
(* or an HTTP call to the control plane.  No transaction spans two of      *)
(* them, so other handlers run in between.  A call to the control plane    *)
(* may fail before it is served or after, its answer lost; some handlers   *)
(* ignore that.  POST /peers is two statements there (ControlPlane.tla),   *)
(* the other calls one, on the VpnPeer table of PeerDirectory.tla.         *)
(*                                                                         *)
(* All devices are registered on one server: which one makes no            *)
(* difference to what the handlers do.                                     *)
(***************************************************************************)
EXTENDS PeerDirectory, Integers, FiniteSets

CONSTANTS
  Devices,    \* device ids
  Machines,   \* machine ids of desktop apps
  NoMachine,  \* machineId = NULL, as web clients have it
  Requests,   \* slots for requests in progress: how many overlap
  Limits,     \* the device limits of the tiers an account may be on
  FreeLimit,  \* that of an account without an active subscription
  Faulty      \* may calls to the control plane fail?

ASSUME DeviceAssumption ==
  /\ Servers # {}
  /\ Credentials = BOOLEAN
  /\ NoMachine \notin Machines
  /\ Limits \subseteq Nat /\ FreeLimit \in Limits
  /\ IsFiniteSet(Requests) /\ IsFiniteSet(Devices)
  /\ Faulty \in BOOLEAN
  /\ Absent \notin [user: Users, key: Keys, machine: Machines \cup {NoMachine}, active: BOOLEAN]
  /\ Absent \notin Devices \cup Keys \cup Users

VARIABLES
  devices,    \* the Device table, by id
  limit,      \* by account: the device limit its Subscription rows give it
  request,    \* the requests in progress, by slot
  disturbed   \* history: accounts with overlapping requests or a failed call

vars == <<peers, devices, limit, request, disturbed>>

\* A Device row; active: its status is "active", not "pending".
Device == [user: Users, key: Keys, machine: Machines \cup {NoMachine}, active: BOOLEAN]

Registered == {d \in Devices : devices[d] # Absent}
DevicesOf(u) == {d \in Registered : devices[d].user = u}
PendingOf(u) == {d \in DevicesOf(u) : ~devices[d].active}
ActiveOf(u) == {d \in DevicesOf(u) : devices[d].active}
OnMachine(u, m) == {d \in DevicesOf(u) : devices[d].machine = m}

\* A device as findMany returned it.
Found == [device: Devices, key: Keys]

Steps == {"idle", "find", "revokeOld", "rekey", "count", "findOld", "expire", "expireDelete",
          "create", "revokeAll", "addPeer", "insert", "discard", "activate",
          "revokePeer", "deleteRow", "cutoff"}

\* A request, named after what it does next.  device, key: those it works on; login:
\* whether it gives the peer a login; old: pending devices it found too old.
Request == [at: Steps, user: Users \cup {Absent}, machine: Machines \cup {NoMachine},
            limit: Limits, device: Devices \cup {Absent}, key: Keys \cup {Absent},
            login: BOOLEAN, old: SUBSET Found]

Idle == [at |-> "idle", user |-> Absent, machine |-> NoMachine, limit |-> FreeLimit,
         device |-> Absent, key |-> Absent, login |-> FALSE, old |-> {}]

(* The tables hold rows of their models, and a request in progress carries what its
   handler has in hand at that point (device.ts:227-714).                        *)
TypeOK ==
  /\ DirectoryTypeOK
  /\ devices \in [Devices -> Device \cup {Absent}]
  /\ limit \in [Users -> Limits]
  /\ request \in [Requests -> Request]
  /\ \A r \in Requests :
       /\ request[r].at # "idle" => request[r].user \in Users
       /\ request[r].at \in {"revokeOld", "rekey", "expireDelete", "revokeAll", "addPeer", "insert",
                             "discard", "activate", "revokePeer", "deleteRow"} =>
            request[r].device \in Devices /\ request[r].key \in Keys
  /\ disturbed \subseteq Users

InHand(r) == {request[r].key} \cup {o.key : o \in request[r].old}
NamedBy(r) == {request[r].device} \cup {o.device : o \in request[r].old}

\* generateWireGuardKeyPair: a key never seen before.
Fresh(k) ==
  /\ peers[k] = Absent
  /\ \A d \in Registered : devices[d].key # k
  /\ \A r \in Requests : k \notin InHand(r)

\* cuid(): an id never seen before.
FreshId(d) == devices[d] = Absent /\ \A r \in Requests : d \notin NamedBy(r)

\* Bound: a registration begins while there is a key and an id for it and for each
\* request in progress.
IdsLeft ==
  LET busy == Cardinality({r \in Requests : request[r] # Idle}) IN
  /\ Cardinality({k \in Keys : Fresh(k)}) > busy
  /\ Cardinality({d \in Devices : FreshId(d)}) > busy

Goto(r, step) == request' = [request EXCEPT ![r].at = step]
End(r) == request' = [request EXCEPT ![r] = Idle]
Disturb(u) == disturbed' = disturbed \cup {u}

\* Account u has a request in progress that changes its devices' keys.
Changing(u) == \E r \in Requests : request[r].user = u /\ request[r].at \notin {"activate", "cutoff"}

\* Such a request of account u arrives.
Begin(r, u, req) ==
  /\ request[r] = Idle
  /\ request' = [request EXCEPT ![r] = req]
  /\ IF Changing(u) THEN Disturb(u) ELSE UNCHANGED disturbed

Delete(d) == devices' = [devices EXCEPT ![d] = Absent]

\* revokePeerByPublicKey: an unknown key is an error, which the callers ignore, like
\* the call's failure.
RevokePeer(r) ==
  LET k == request[r].key IN
  \/ /\ IF k \in Known THEN Deactivate({k}) ELSE UNCHANGED peers
     /\ UNCHANGED disturbed
  \/ /\ Faulty
     /\ Disturb(request[r].user)
     /\ UNCHANGED peers

-----------------------------------------------------------------------------
(* device.register *)

\* paidProcedure reads the subscription; then the server is looked up.
RegisterBegin(r, u, m) ==
  /\ IdsLeft
  /\ Begin(r, u, [Idle EXCEPT !.at = "find", !.user = u, !.machine = m, !.limit = limit[u]])
  /\ UNCHANGED <<peers, devices, limit>>

\* Mutant: the machine is not looked for.
RegisterFindNone(r) ==
  /\ request[r].at = "find"
  /\ Goto(r, "count")
  /\ UNCHANGED <<peers, devices, limit, disturbed>>

\* findFirst by account and machine.
RegisterFind(r) ==
  LET known == OnMachine(request[r].user, request[r].machine) IN
  /\ request[r].at = "find"
  /\ \/ /\ request[r].machine # NoMachine
        /\ \E d \in known :
             request' = [request EXCEPT ![r].at = "revokeOld", ![r].device = d, ![r].key = devices[d].key]
     \/ /\ request[r].machine = NoMachine \/ known = {}
        /\ Goto(r, "count")
  /\ UNCHANGED <<peers, devices, limit, disturbed>>

RegisterRevokeOld(r) ==
  /\ request[r].at = "revokeOld"
  /\ RevokePeer(r)
  /\ Goto(r, "rekey")
  /\ UNCHANGED <<devices, limit>>

\* The known device gets a fresh key and is pending again; a row that is gone throws.
RegisterRekey(r) ==
  LET d == request[r].device IN
  /\ request[r].at = "rekey"
  /\ \/ /\ d \in Registered
        /\ \E k \in Keys :
             /\ Fresh(k)
             /\ devices' = [devices EXCEPT ![d].key = k, ![d].active = FALSE]
             /\ request' = [request EXCEPT ![r].at = "addPeer", ![r].key = k]
     \/ d \notin Registered /\ End(r) /\ UNCHANGED devices
  /\ UNCHANGED <<peers, limit, disturbed>>

\* Another device: pending ones do not count.
RegisterCount(r) ==
  /\ request[r].at = "count"
  /\ IF Cardinality(ActiveOf(request[r].user)) >= request[r].limit
       THEN End(r)
       ELSE Goto(r, "findOld")
  /\ UNCHANGED <<peers, devices, limit, disturbed>>

\* Pending devices created more than ten minutes ago, which may be any of them.
RegisterFindOld(r) ==
  /\ request[r].at = "findOld"
  /\ \E old \in SUBSET PendingOf(request[r].user) :
       request' = [request EXCEPT ![r].at = IF old = {} THEN "create" ELSE "expire",
                                  ![r].old = {[device |-> d, key |-> devices[d].key] : d \in old}]
  /\ UNCHANGED <<peers, devices, limit, disturbed>>

RegisterExpire(r) ==
  /\ request[r].at = "expire"
  /\ \E o \in request[r].old :
       /\ \/ /\ IF o.key \in Known THEN Deactivate({o.key}) ELSE UNCHANGED peers
             /\ UNCHANGED disturbed
          \/ Faulty /\ Disturb(request[r].user) /\ UNCHANGED peers
       /\ request' = [request EXCEPT ![r].at = "expireDelete", ![r].device = o.device,
                                     ![r].key = o.key, ![r].old = @ \ {o}]
  /\ UNCHANGED <<devices, limit>>

RegisterExpireDelete(r) ==
  LET d == request[r].device IN
  /\ request[r].at = "expireDelete"
  /\ IF d \in Registered
       THEN Delete(d) /\ Goto(r, IF request[r].old = {} THEN "create" ELSE "expire")
       ELSE End(r) /\ UNCHANGED devices
  /\ UNCHANGED <<peers, limit, disturbed>>

RegisterCreate(r) ==
  /\ request[r].at = "create"
  /\ \E d \in Devices, k \in Keys :
       /\ FreshId(d) /\ Fresh(k)
       /\ devices' = [devices EXCEPT ![d] =
            [user |-> request[r].user, key |-> k, machine |-> request[r].machine, active |-> FALSE]]
       /\ request' = [request EXCEPT ![r].at = "revokeAll", ![r].device = d, ![r].key = k,
                                     ![r].login = TRUE]
  /\ UNCHANGED <<peers, limit, disturbed>>

RegisterRevokeAll(r) ==
  /\ request[r].at = "revokeAll"
  /\ \/ /\ Deactivate(ActiveKeysOf(request[r].user))
        /\ Goto(r, "addPeer") \/ (Faulty /\ Goto(r, "discard"))
     \/ Faulty /\ UNCHANGED peers /\ Goto(r, "discard")
  /\ UNCHANGED <<devices, limit, disturbed>>

\* addPeerForDevice threw: a new device is deleted again, a known one stays as it is.
AddPeerFails(r) == IF request[r].login THEN Goto(r, "discard") ELSE End(r)

\* The first statement of POST /peers.
AddPeerRevoke(r) ==
  /\ request[r].at = "addPeer"
  /\ \/ Deactivate(ActiveKeysOf(request[r].user)) /\ Goto(r, "insert")
     \/ Faulty /\ UNCHANGED peers /\ AddPeerFails(r)
  /\ UNCHANGED <<devices, limit, disturbed>>

\* The second.  Only a new device's peer gets the login that the answer carries.  That
\* the configurations are then built, or that this throws, changes nothing.
AddPeerInsert(r) ==
  LET q == request[r] IN
  /\ q.at = "insert"
  /\ \/ /\ \E s \in Servers : Insert(q.key, q.user, s, q.login)
        /\ \/ End(r) /\ UNCHANGED disturbed
           \/ Faulty /\ AddPeerFails(r) /\ Disturb(q.user)
     \/ Faulty /\ UNCHANGED <<peers, disturbed>> /\ AddPeerFails(r)
  /\ UNCHANGED <<devices, limit>>

RegisterDiscard(r) ==
  /\ request[r].at = "discard"
  /\ Delete(request[r].device)
  /\ End(r)
  /\ UNCHANGED <<peers, limit, disturbed>>

-----------------------------------------------------------------------------
(* device.confirmConnection, device.cancelConnection and device.revoke, of a device
   that exists and is the caller's; otherwise they change nothing.               *)

Holding(step, u, d) ==
  [Idle EXCEPT !.at = step, !.user = u, !.device = d, !.key = devices[d].key]

ConfirmFind(r, u, d) ==
  /\ request[r] = Idle
  /\ d \in PendingOf(u)
  /\ request' = [request EXCEPT ![r] = Holding("activate", u, d)]
  /\ UNCHANGED <<peers, devices, limit, disturbed>>

\* Mutant: the whole row is written back as it was not read.
ConfirmUpdateUpserts(r) ==
  /\ request[r].at = "activate"
  /\ devices' = [devices EXCEPT ![request[r].device] = [active |-> TRUE]]
  /\ End(r)
  /\ UNCHANGED <<peers, limit, disturbed>>

\* UPDATE by id, whatever key the row has by now.
ConfirmUpdate(r) ==
  LET d == request[r].device IN
  /\ request[r].at = "activate"
  /\ devices' = IF d \in Registered THEN [devices EXCEPT ![d].active = TRUE] ELSE devices
  /\ End(r)
  /\ UNCHANGED <<peers, limit, disturbed>>

CancelFind(r, u, d) ==
  /\ d \in PendingOf(u)
  /\ Begin(r, u, Holding("revokePeer", u, d))
  /\ UNCHANGED <<peers, devices, limit>>

RevokeFind(r, u, d) ==
  /\ d \in DevicesOf(u)
  /\ Begin(r, u, Holding("revokePeer", u, d))
  /\ UNCHANGED <<peers, devices, limit>>

\* Mutant: the row is deleted without a word to the control plane.
RemoveRevokePeerSkipped(r) ==
  /\ request[r].at = "revokePeer"
  /\ Goto(r, "deleteRow")
  /\ UNCHANGED <<peers, devices, limit, disturbed>>

RemoveRevokePeer(r) ==
  /\ request[r].at = "revokePeer"
  /\ RevokePeer(r)
  /\ Goto(r, "deleteRow")
  /\ UNCHANGED <<devices, limit>>

\* DELETE by id; a row that is gone throws.
RemoveDelete(r) ==
  /\ request[r].at = "deleteRow"
  /\ Delete(request[r].device)
  /\ End(r)
  /\ UNCHANGED <<peers, limit, disturbed>>

-----------------------------------------------------------------------------
(* POST /api/webhooks/stripe: an event of a subscription of account u, in whatever
   order Stripe delivers them.  A failed upsert answers 500 and changes nothing.    *)

WebhookStore(r, u, n) ==
  /\ request[r] = Idle
  /\ limit' = [limit EXCEPT ![u] = n]
  /\ \/ UNCHANGED request
     \/ request' = [request EXCEPT ![r] = [Idle EXCEPT !.at = "cutoff", !.user = u]]
  /\ UNCHANGED <<peers, devices, disturbed>>

\* The subscription is not active: all keys are withdrawn, or the error is swallowed.
WebhookCutoff(r) ==
  /\ request[r].at = "cutoff"
  /\ Deactivate(ActiveKeysOf(request[r].user)) \/ (Faulty /\ UNCHANGED peers)
  /\ End(r)
  /\ UNCHANGED <<devices, limit, disturbed>>

-----------------------------------------------------------------------------
Init ==
  /\ DirectoryInit
  /\ devices = [d \in Devices |-> Absent]
  /\ limit \in [Users -> Limits]
  /\ request = [r \in Requests |-> Idle]
  /\ disturbed = {}

RegisterStep(r) ==
  \/ RegisterFind(r) \/ RegisterRevokeOld(r) \/ RegisterRekey(r)
  \/ RegisterCount(r) \/ RegisterFindOld(r) \/ RegisterExpire(r) \/ RegisterExpireDelete(r)
  \/ RegisterCreate(r) \/ RegisterRevokeAll(r)
  \/ AddPeerRevoke(r) \/ AddPeerInsert(r) \/ RegisterDiscard(r)

OtherStep(r) ==
  \/ ConfirmUpdate(r) \/ RemoveRevokePeer(r) \/ RemoveDelete(r) \/ WebhookCutoff(r)

Arrival(r, u) ==
  \/ \E m \in Machines \cup {NoMachine} : RegisterBegin(r, u, m)
  \/ \E d \in Devices : ConfirmFind(r, u, d) \/ CancelFind(r, u, d) \/ RevokeFind(r, u, d)
  \/ \E n \in Limits : WebhookStore(r, u, n)

Next == \E r \in Requests :
  \/ \E u \in Users : Arrival(r, u)
  \/ RegisterStep(r)
  \/ OtherStep(r)

Spec == Init /\ [][Next]_vars

-----------------------------------------------------------------------------
(* Properties *)

(* The nodes admit whatever key is usable, and only a device's row lets its owner
   withdraw it.  As long as an account has neither overlapping requests nor a call
   that failed, it has one usable key at most, and a device that holds it, whatever
   other accounts do and wherever its own requests have stopped
   (device.ts:362-406, 498-526, 598-612, 636-650, 674-690).                       *)
KeysHeld ==
  \A u \in Users \ disturbed : \A k, l \in ActiveKeysOf(u) :
    /\ k = l
    /\ \E d \in DevicesOf(u) : devices[d].key = k

(* device.ts:222-224: a device with the machine's id is updated instead of another one
   created.  Overlapping requests may each find none, but that is as far as it goes:
   a machine never has more devices than requests overlap.                         *)
MachineDevicesBounded ==
  \A u \in Users, m \in Machines : Cardinality(OnMachine(u, m)) <= Cardinality(Requests)

(* lib/tiers.ts:20, "1 device", and the check at device.ts:442-455: an account has no
   more active devices than its tier allows (while its subscription does not change).  *)
DeviceLimit == \A u \in Users : Cardinality(ActiveOf(u)) <= limit[u]
=============================================================================
