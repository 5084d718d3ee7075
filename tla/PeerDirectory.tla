---------------------------- MODULE PeerDirectory ----------------------------
(***************************************************************************)
(* The promise the control plane makes to the VPN nodes and to the web app *)
(* about the VpnPeer table: what may happen to a WireGuard key once it is  *)
(* known, whoever asks for it and however the requests interleave.         *)
(*                                                                         *)
(* A key is unknown, then admitted once for one user, then withdrawn for   *)
(* good.  While it is known its owner and its credentials never change and *)
(* its server affinity can only be dropped.  ControlPlane.tla, where each  *)
(* request is a sequence of separate SQL statements, implements this       *)
(* module; VpnNode.tla uses it as the directory that nodes read.           *)
(***************************************************************************)
CONSTANTS
  Users,     \* accounts (User.id)
  Keys,      \* WireGuard public keys (VpnPeer.publicKey, the primary key)
  Servers,   \* VPN node identities (VpnServer.id)
  Credentials,  \* with (TRUE), without (FALSE) an OpenVPN/IKEv2 login
  Absent,    \* "no such row"
  Unpinned   \* serverId = NULL

ASSUME SentinelsAssumption ==
  /\ Unpinned \notin Servers
  /\ Credentials \subseteq BOOLEAN
  /\ Absent \notin [user: Users, server: Servers \cup {Unpinned},
                    auth: Credentials, active: BOOLEAN]

VARIABLE peers  \* the VpnPeer table, by public key

Pins == Servers \cup {Unpinned}

\* A VpnPeer row; auth: it carries an OpenVPN/IKEv2 username and password.
Peer == [user: Users, server: Pins, auth: Credentials, active: BOOLEAN]

DirectoryTypeOK == peers \in [Keys -> Peer \cup {Absent}]

Known == {k \in Keys : peers[k] # Absent}
ActiveKeys == {k \in Known : peers[k].active}
ActiveKeysOf(u) == {k \in ActiveKeys : peers[k].user = u}

\* What GET /server/peers?id=s answers: the active peers pinned to s, and the
\* active peers pinned to no server.
ServedTo(s) == {k \in ActiveKeys : peers[k].server \in {s, Unpinned}}

-----------------------------------------------------------------------------
(* The statements that touch the table. *)

\* UPDATE ... SET active = false over the rows of K.
Deactivate(K) ==
  peers' = [k \in Keys |->
              IF k \in K THEN [peers[k] EXCEPT !.active = FALSE] ELSE peers[k]]

\* INSERT of a fresh key.
Insert(k, u, s, c) ==
  /\ peers[k] = Absent
  /\ peers' = [peers EXCEPT ![k] =
                 [user |-> u, server |-> s, auth |-> c, active |-> TRUE]]

\* UPDATE ... SET serverId = NULL over the rows pinned to s.
ClearPins(s) ==
  peers' = [k \in Keys |->
              IF k \in Known /\ peers[k].server = s
                THEN [peers[k] EXCEPT !.server = Unpinned]
                ELSE peers[k]]

-----------------------------------------------------------------------------
(* The abstract directory. *)

DirectoryInit == peers = [k \in Keys |-> Absent]

\* A new key becomes usable, once.
Admit == \E k \in Keys, u \in Users, s \in Pins, c \in Credentials : Insert(k, u, s, c)

\* Some of one user's keys stop being usable.
Withdraw == \E u \in Users : \E K \in SUBSET {k \in Known : peers[k].user = u} : Deactivate(K)

\* A server goes away, or is about to: its peers lose their affinity.
Unpin == \E s \in Servers : ClearPins(s)

DirectoryNext == Admit \/ Withdraw \/ Unpin

DirectorySpec == DirectoryInit /\ [][DirectoryNext]_peers

-----------------------------------------------------------------------------
(* Every step of the directory respects the life cycle of each key: a known
   key stays known, keeps its owner and credentials, is never usable again
   once withdrawn, and its pin is kept or dropped, never moved.  This is what
   lets a node drop a key it no longer sees without ever being asked again
   (POST /peers, DELETE /peers/:publicKey, DELETE /servers/:id).            *)
KeyLifeCycle(k) ==
  peers[k] # Absent =>
    /\ peers'[k] # Absent
    /\ peers'[k].user = peers[k].user
    /\ peers'[k].auth = peers[k].auth
    /\ peers'[k].active => peers[k].active
    /\ peers'[k].server \in {peers[k].server, Unpinned}

LifeCycle == [][\A k \in Keys : KeyLifeCycle(k)]_peers
=============================================================================
