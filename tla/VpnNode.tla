------------------------------- MODULE VpnNode -------------------------------
(***************************************************************************)
(* apps/vpn-server: the agent that runs on each VPN node.  It starts its   *)
(* backends from what they left on disk, registers with the control plane, *)
(* and then copies the directory of peers into every backend, for ever.    *)
(*                                                                         *)
(* The directory is PeerDirectory, changed by the control plane between    *)
(* any two steps of a node.  The steps of a node are: start of the         *)
(* backends, set-up of IKEv2, one attempt to register, one answer of       *)
(* GET /server/peers, one backend's apply_peers.  A fetch that fails       *)
(* (network, token revoked) changes nothing and is no step.                *)
(*                                                                         *)
(* Of a backend two things are kept: what it has written on disk, and what *)
(* it has loaded, which for WireGuard is the interface and for IKEv2 the   *)
(* credentials of strongSwan.  OpenVPN reads its file at each login.       *)
(***************************************************************************)
EXTENDS PeerDirectory, Integers, Sequences

CONSTANTS
  Nodes,          \* the servers on which an agent runs
  Order,          \* VPN_PROTOCOLS: the backends, in the order they are called
  Static,         \* STATIC_PEER_PUBLIC_KEY, or a value outside Keys when not given
  StaticGiven,    \* is a static peer configured?
  MaxAttempts,    \* registrations tried before the agent gives up
  MaxCrashes      \* bound: how often the agents of a behaviour stop

Protocols == {"wireguard", "openvpn", "ikev2"}

ASSUME VpnNodeAssumption ==
  /\ Nodes \subseteq Servers
  /\ Order \in Seq(Protocols) /\ Len(Order) > 0
  /\ \A i, j \in 1..Len(Order) : Order[i] = Order[j] => i = j
  /\ Static \notin Keys
  /\ StaticGiven \in BOOLEAN
  /\ MaxAttempts \in Nat \ {0}
  /\ MaxCrashes \in Nat

VARIABLES
  phase,     \* where run_server is, by node
  attempts,  \* registrations tried since the start
  wanted,    \* the peers handed to apply_peers last
  at,        \* the backend of Order whose apply_peers is next
  outcome,   \* of the last pass: "none", "ok", or the backend that failed it
  file,      \* by node and backend: the peers written on disk
  live,      \* by node and backend: the peers loaded
  granted,   \* history: the keys the directory ever had for the node
  crashes    \* how often an agent has stopped

disk == <<file, live>>
progress == <<phase, attempts, wanted, at, outcome>>
nodeVars == <<peers, progress, disk, granted, crashes>>

Phases == {"down", "static", "ikev2", "registering", "sleeping", "applying"}
AnyKey == Keys \cup {Static}
PeerSets == [Protocols -> SUBSET AnyKey]

(* The agent is at a point of run_server (main.rs:404-613), within the list of its
   backends, and holds keys of the directory or the static peer.                   *)
NodeTypeOK ==
  /\ DirectoryTypeOK
  /\ phase \in [Nodes -> Phases]
  /\ attempts \in [Nodes -> 0..MaxAttempts]
  /\ wanted \in [Nodes -> SUBSET AnyKey]
  /\ at \in [Nodes -> 1..Len(Order)]
  /\ outcome \in [Nodes -> {"none", "ok"} \cup Protocols]
  /\ file \in [Nodes -> PeerSets]
  /\ live \in [Nodes -> PeerSets]
  /\ granted \in [Nodes -> SUBSET Keys]
  /\ crashes \in 0..MaxCrashes

\* NodeTypeOK is not inductive without it: an agent that runs has an attempt left.
AttemptsLeft == \A n \in Nodes : phase[n] # "down" => attempts[n] < MaxAttempts

Nobody == [p \in Protocols |-> {}]

\* A peer has an OpenVPN/IKEv2 login when its row has a username and a password.
WithLogin == {k \in Known : peers[k].auth}

\* What backend p makes of the peers it is handed.
Shown(p, K) == IF p = "wireguard" THEN K ELSE K \cap WithLogin

\* The peers K, written or loaded, take the place of those backend p had.
Put(store, n, p, K) == [store EXCEPT ![n][p] = K]

\* Who may open a tunnel on node n through backend p.
Accepts(n, p) == IF p = "openvpn" THEN file[n][p] ELSE live[n][p]

-----------------------------------------------------------------------------
(* The control plane, as PeerDirectory has it. *)
DirectoryStep ==
  /\ DirectoryNext
  /\ granted' = [n \in Nodes |-> granted[n] \cup ServedTo(n)']
  /\ UNCHANGED <<progress, disk, crashes>>

-----------------------------------------------------------------------------
(* Start: start_all, then the static peer if one is configured *)

\* A pass of VpnNode::apply_peers over the backends begins.
BeginPass(n, K) ==
  /\ wanted' = [wanted EXCEPT ![n] = K]
  /\ at' = [at EXCEPT ![n] = 1]
  /\ outcome' = [outcome EXCEPT ![n] = "none"]

\* WireGuard's start loads the wg0.conf that is on disk; a backend that fails to
\* start is only logged.
Start(n) ==
  /\ phase[n] = "down"
  /\ \/ live' = Put(live, n, "wireguard", file[n]["wireguard"])
     \/ UNCHANGED live
  /\ IF StaticGiven
       THEN phase' = [phase EXCEPT ![n] = "static"] /\ BeginPass(n, {Static})
       ELSE phase' = [phase EXCEPT ![n] = "ikev2"] /\ BeginPass(n, {})
  /\ attempts' = [attempts EXCEPT ![n] = 0]
  /\ UNCHANGED <<peers, file, granted, crashes>>

\* setup_ikev2 rewrites ipsec.secrets without logins and restarts strongSwan; it
\* may be switched off or fail at any of its steps, which is ignored.
SetupIkev2(n) ==
  /\ phase[n] = "ikev2"
  /\ phase' = [phase EXCEPT ![n] = "registering"]
  /\ \/ UNCHANGED disk
     \/ /\ file' = Put(file, n, "ikev2", {})
        /\ \/ live' = Put(live, n, "ikev2", {})
           \/ UNCHANGED live
  /\ UNCHANGED <<peers, attempts, wanted, at, outcome, granted, crashes>>

-----------------------------------------------------------------------------
(* Registration *)

RegisterSucceeds(n) ==
  /\ phase[n] = "registering"
  /\ phase' = [phase EXCEPT ![n] = "sleeping"]
  /\ UNCHANGED <<peers, attempts, wanted, at, outcome, disk, granted, crashes>>

\* The agent exits after MaxAttempts failures.
RegisterFails(n) ==
  /\ phase[n] = "registering"
  /\ crashes < MaxCrashes
  /\ attempts' = [attempts EXCEPT ![n] = @ + 1]
  /\ IF attempts'[n] >= MaxAttempts
       THEN phase' = [phase EXCEPT ![n] = "down"] /\ crashes' = crashes + 1
       ELSE UNCHANGED <<phase, crashes>>
  /\ UNCHANGED <<peers, wanted, at, outcome, disk, granted>>

-----------------------------------------------------------------------------
(* The peer sync loop *)

\* Mutant: the answer is not filtered by server.
FetchAllPeers(n) ==
  /\ phase[n] = "sleeping"
  /\ phase' = [phase EXCEPT ![n] = "applying"]
  /\ BeginPass(n, ActiveKeys)
  /\ UNCHANGED <<peers, attempts, disk, granted, crashes>>

\* Mutant: the answer lacks the peers that are pinned to no server.
FetchPinnedPeers(n) ==
  /\ phase[n] = "sleeping"
  /\ phase' = [phase EXCEPT ![n] = "applying"]
  /\ BeginPass(n, {k \in ActiveKeys : peers[k].server = n})
  /\ UNCHANGED <<peers, attempts, disk, granted, crashes>>

\* The answer of GET /server/peers arrives; it may be stale by the time it is used.
FetchPeers(n) ==
  /\ phase[n] = "sleeping"
  /\ phase' = [phase EXCEPT ![n] = "applying"]
  /\ BeginPass(n, ServedTo(n))
  /\ UNCHANGED <<peers, attempts, disk, granted, crashes>>

\* The loop of VpnNode::apply_peers: the next backend, or the end of the pass; the
\* first backend that fails ends the pass for those after it.
EndPass(n, result) ==
  /\ phase' = [phase EXCEPT ![n] = IF @ = "static" THEN "ikev2" ELSE "sleeping"]
  /\ outcome' = [outcome EXCEPT ![n] = result]
  /\ at' = [at EXCEPT ![n] = 1]

\* Mutant: the loop does not end at the last backend.
AppliedEndless(n) == at' = [at EXCEPT ![n] = @ + 1] /\ UNCHANGED <<phase, outcome>>

Applied(n) ==
  IF at[n] < Len(Order)
    THEN at' = [at EXCEPT ![n] = @ + 1] /\ UNCHANGED <<phase, outcome>>
    ELSE EndPass(n, "ok")

\* Mutant: the error is dropped and the loop goes on.
NotAppliedIgnored(n) == Applied(n)

NotApplied(n) == EndPass(n, Order[at[n]])

Applying(n, p) == phase[n] \in {"static", "applying"} /\ Order[at[n]] = p

\* A backend's peers are replaced by those of this pass.
Replaced(store, n, p) == Put(store, n, p, Shown(p, wanted[n]))

\* Mutant: peers are added to the interface, never removed (wg addconf).
ApplyWireGuardAdds(n) ==
  /\ Applying(n, "wireguard")
  /\ file' = Replaced(file, n, "wireguard")
  /\ live' = Put(live, n, "wireguard", live[n]["wireguard"] \cup wanted[n])
  /\ Applied(n)
  /\ UNCHANGED <<peers, attempts, wanted, granted, crashes>>

\* wg syncconf, then the rename of wg0.conf.new; if syncconf fails, the rename, then
\* a full reconfiguration.
ApplyWireGuard(n) ==
  /\ Applying(n, "wireguard")
  /\ file' = Replaced(file, n, "wireguard")
  /\ live' = Replaced(live, n, "wireguard")
  /\ Applied(n)
  /\ UNCHANGED <<peers, attempts, wanted, granted, crashes>>

\* The write of wg0.conf.new, the rename or the reconfiguration fails.
ApplyWireGuardFails(n) ==
  /\ Applying(n, "wireguard")
  /\ \/ UNCHANGED disk
     \/ live' = Replaced(live, n, "wireguard") /\ UNCHANGED file
     \/ file' = Replaced(file, n, "wireguard") /\ UNCHANGED live
  /\ NotApplied(n)
  /\ UNCHANGED <<peers, attempts, wanted, granted, crashes>>

\* secrets.txt is truncated and rewritten.
ApplyOpenVpn(n) ==
  /\ Applying(n, "openvpn")
  /\ file' = Replaced(file, n, "openvpn")
  /\ Applied(n)
  /\ UNCHANGED <<peers, attempts, wanted, live, granted, crashes>>

\* The file cannot be opened, is cut short, or its mode cannot be set.
ApplyOpenVpnFails(n) ==
  /\ Applying(n, "openvpn")
  /\ \/ UNCHANGED file
     \/ \E K \in SUBSET Shown("openvpn", wanted[n]) : file' = Put(file, n, "openvpn", K)
  /\ NotApplied(n)
  /\ UNCHANGED <<peers, attempts, wanted, live, granted, crashes>>

\* ipsec.secrets is rewritten and strongSwan told to reload.
ApplyIkev2(n) ==
  /\ Applying(n, "ikev2")
  /\ file' = Replaced(file, n, "ikev2")
  /\ live' = Replaced(live, n, "ikev2")
  /\ Applied(n)
  /\ UNCHANGED <<peers, attempts, wanted, granted, crashes>>

\* A failed reload is not noticed.
ApplyIkev2NotReloaded(n) ==
  /\ Applying(n, "ikev2")
  /\ file' = Replaced(file, n, "ikev2")
  /\ Applied(n)
  /\ UNCHANGED <<peers, attempts, wanted, live, granted, crashes>>

ApplyIkev2Fails(n) ==
  /\ Applying(n, "ikev2")
  /\ \/ UNCHANGED file
     \/ \E K \in SUBSET Shown("ikev2", wanted[n]) : file' = Put(file, n, "ikev2", K)
  /\ NotApplied(n)
  /\ UNCHANGED <<peers, attempts, wanted, live, granted, crashes>>

-----------------------------------------------------------------------------
(* The agent stops, wherever it is.  The process alone: everything stays.  The
   container or the host: what was loaded may be gone.  The container is
   replaced: the files are gone too.                                          *)
Crash(n) ==
  /\ phase[n] # "down"
  /\ crashes < MaxCrashes
  /\ crashes' = crashes + 1
  /\ phase' = [phase EXCEPT ![n] = "down"]
  /\ outcome' = [outcome EXCEPT ![n] = "none"]
  /\ at' = [at EXCEPT ![n] = 1]
  /\ \E lost \in SUBSET {"wireguard", "ikev2"} :
       live' = [live EXCEPT ![n] = [p \in Protocols |-> IF p \in lost THEN {} ELSE live[n][p]]]
  /\ file' \in {file, [file EXCEPT ![n] = Nobody]}
  /\ UNCHANGED <<peers, attempts, wanted, granted>>

-----------------------------------------------------------------------------
NodeInit ==
  /\ DirectoryInit
  /\ phase = [n \in Nodes |-> "down"]
  /\ attempts = [n \in Nodes |-> 0]
  /\ wanted = [n \in Nodes |-> {}]
  /\ at = [n \in Nodes |-> 1]
  /\ outcome = [n \in Nodes |-> "none"]
  /\ file = [n \in Nodes |-> Nobody]
  /\ live = [n \in Nodes |-> Nobody]
  /\ granted = [n \in Nodes |-> {}]
  /\ crashes = 0

Apply(n) ==
  \/ ApplyWireGuard(n) \/ ApplyWireGuardFails(n)
  \/ ApplyOpenVpn(n) \/ ApplyOpenVpnFails(n)
  \/ ApplyIkev2(n) \/ ApplyIkev2NotReloaded(n) \/ ApplyIkev2Fails(n)

NodeStep(n) ==
  \/ Start(n)
  \/ SetupIkev2(n)
  \/ RegisterSucceeds(n) \/ RegisterFails(n)
  \/ FetchPeers(n)
  \/ Apply(n)
  \/ Crash(n)

NodeNext == DirectoryStep \/ \E n \in Nodes : NodeStep(n)

NodeSpec == NodeInit /\ [][NodeNext]_nodeVars

\* The container is restarted when it stops (--restart unless-stopped), the loops
\* never end, and no failure is permanent.
Fairness ==
  \A n \in Nodes :
    /\ WF_nodeVars(Start(n)) /\ WF_nodeVars(SetupIkev2(n))
    /\ SF_nodeVars(RegisterSucceeds(n)) /\ WF_nodeVars(FetchPeers(n))
    /\ SF_nodeVars(ApplyWireGuard(n)) /\ SF_nodeVars(ApplyOpenVpn(n)) /\ SF_nodeVars(ApplyIkev2(n))

FairSpec == NodeSpec /\ Fairness

-----------------------------------------------------------------------------
(* Properties *)

(* Through any crash, stale file or partial pass, a node only accepts peers that
   the directory once had for it, and through OpenVPN and IKEv2 only those with a
   login (server.ts:254-262, openvpn.rs:202-227, ipsec.rs:88-135).              *)
OnlyGranted ==
  \A n \in Nodes, p \in Protocols :
    /\ Accepts(n, p) \subseteq granted[n] \cup {Static}
    /\ p # "wireguard" => Accepts(n, p) \subseteq WithLogin

(* The inductive form of it: what the directory has for a node and what the node was
   handed, wrote or loaded was all granted, and whatever was granted is still known,
   with the login it had.                                                          *)
Stored(n, p) == file[n][p] \cup live[n][p]
OnlyGrantedStored ==
  \A n \in Nodes :
    /\ ServedTo(n) \subseteq granted[n] /\ granted[n] \subseteq Known
    /\ wanted[n] \subseteq granted[n] \cup {Static}
    /\ \A p \in Protocols :
         /\ Stored(n, p) \subseteq granted[n] \cup {Static}
         /\ p # "wireguard" => Stored(n, p) \subseteq WithLogin

\* Backend p holds the peers handed out last, on disk and, but for an unnoticed failure
\* to reload IKEv2, loaded.
Settled(n, p) ==
  /\ file[n][p] = Shown(p, wanted[n])
  /\ p # "ikev2" => Accepts(n, p) = Shown(p, wanted[n])

(* After a pass without errors nothing of an earlier directory is left in any backend:
   a restart cannot bring back what the pass removed (vpn/mod.rs:219-249).         *)
PassSettles ==
  \A n \in Nodes : phase[n] = "sleeping" /\ outcome[n] = "ok" =>
    \A i \in 1..Len(Order) : Settled(n, Order[i])

(* The inductive form of it: during a pass the backends before the next one are
   settled, and until the next pass all are, if none failed.  A pass for the static
   peer hands out no login, so the set-up of IKEv2 that follows removes none.       *)
PassOf(n) ==
  /\ phase[n] \in {"static", "ikev2"} => wanted[n] \subseteq {Static}
  /\ phase[n] \in {"static", "applying"} => \A i \in 1..(at[n] - 1) : Settled(n, Order[i])
  /\ phase[n] \in {"ikev2", "registering", "sleeping"} /\ outcome[n] = "ok" =>
       \A i \in 1..Len(Order) : Settled(n, Order[i])
PassInProgress == \A n \in Nodes : PassOf(n)

(* A withdrawn key is, from some moment on, accepted by no backend of any node,
   however often syncs fail and agents restart in between.                     *)
Withdrawn(k) == k \in Known /\ ~peers[k].active
RevokedLeaves ==
  \A n \in Nodes, k \in Keys :
    Withdrawn(k) ~> [](\A i \in 1..Len(Order) : k \notin Accepts(n, Order[i]))

(* A key that the directory has for a node is accepted by WireGuard there in the
   end, unless the directory changes its mind.                               *)
GrantedArrives ==
  \A n \in Nodes, k \in Keys :
    k \in ServedTo(n) ~> (k \in Accepts(n, "wireguard") \/ k \notin ServedTo(n))
=============================================================================
