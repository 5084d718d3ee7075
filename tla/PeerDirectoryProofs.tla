------------------------- MODULE PeerDirectoryProofs -------------------------
(***************************************************************************)
(* Lemmas about the statements on the VpnPeer table, and the life cycle of *)
(* its keys, for any users, keys and servers.  NetworkProofs and           *)
(* DeviceLifecycleProofs build on them.                                    *)
(***************************************************************************)
EXTENDS PeerDirectory, TLAPS

-----------------------------------------------------------------------------
(* What the statements on the VpnPeer table do to its type and to the set of a
   user's usable keys.                                                      *)

LEMMA DeactivateTyped ==
  ASSUME DirectoryTypeOK, NEW K \in SUBSET Known, Deactivate(K)
  PROVE  DirectoryTypeOK'
  BY DEF DirectoryTypeOK, Deactivate, Known, Peer

LEMMA DeactivateActive ==
  ASSUME DirectoryTypeOK, SentinelsAssumption, NEW K \in SUBSET Known, Deactivate(K), NEW v \in Users
  PROVE  ActiveKeysOf(v)' = ActiveKeysOf(v) \ K
  BY DEF DirectoryTypeOK, Deactivate, ActiveKeysOf, ActiveKeys, Known, Peer, Pins, SentinelsAssumption

LEMMA InsertTyped ==
  ASSUME DirectoryTypeOK, NEW k \in Keys, NEW u \in Users, NEW s \in Pins, NEW c \in Credentials,
         Insert(k, u, s, c)
  PROVE  DirectoryTypeOK'
  BY DEF DirectoryTypeOK, Insert, Peer

LEMMA InsertActive ==
  ASSUME DirectoryTypeOK, SentinelsAssumption,
         NEW k \in Keys, NEW u \in Users, NEW s \in Pins, NEW c \in Credentials,
         Insert(k, u, s, c), NEW v \in Users
  PROVE  ActiveKeysOf(v)' = IF v = u THEN ActiveKeysOf(v) \cup {k} ELSE ActiveKeysOf(v)
<1>1. peers'[k] = [user |-> u, server |-> s, auth |-> c, active |-> TRUE]
  BY DEF DirectoryTypeOK, Insert
<1>2. peers'[k] # Absent
  <2>1. peers'[k] \in Peer
    BY <1>1 DEF Peer
  <2>2. Absent \notin Peer
    BY DEF SentinelsAssumption, Peer, Pins
  <2> QED
    BY <2>1, <2>2
<1>3. \A q \in Keys \ {k} : peers'[q] = peers[q]
  BY DEF DirectoryTypeOK, Insert
<1> QED
  BY <1>1, <1>2, <1>3 DEF Insert, ActiveKeysOf, ActiveKeys, Known

LEMMA ClearPinsTyped ==
  ASSUME DirectoryTypeOK, NEW s, ClearPins(s)
  PROVE  DirectoryTypeOK'
  BY DEF DirectoryTypeOK, ClearPins, Known, Peer, Pins

LEMMA ClearPinsActive ==
  ASSUME DirectoryTypeOK, SentinelsAssumption, NEW s, ClearPins(s), NEW v \in Users
  PROVE  ActiveKeysOf(v)' = ActiveKeysOf(v)
  BY DEF DirectoryTypeOK, ClearPins, ActiveKeysOf, ActiveKeys, Known, Peer, Pins, SentinelsAssumption

-----------------------------------------------------------------------------
(* The abstract directory, step by step. *)

LEMMA DirectoryInitTyped ==
  ASSUME DirectoryInit
  PROVE  DirectoryTypeOK
  BY DEF DirectoryInit, DirectoryTypeOK

LEMMA DirectoryNextTyped ==
  ASSUME DirectoryTypeOK, [DirectoryNext]_peers
  PROVE  DirectoryTypeOK'
<1>1. CASE Admit
  BY <1>1, InsertTyped DEF Admit
<1>2. CASE Withdraw
  <2>1. PICK K \in SUBSET Known : Deactivate(K)
    BY <1>2 DEF Withdraw
  <2> QED
    BY <2>1, DeactivateTyped
<1>3. CASE Unpin
  BY <1>3, ClearPinsTyped DEF Unpin
<1>4. CASE UNCHANGED peers
  BY <1>4 DEF DirectoryTypeOK
<1> QED
  BY <1>1, <1>2, <1>3, <1>4 DEF DirectoryNext

LEMMA DirectoryNextLifeCycle ==
  ASSUME DirectoryTypeOK, SentinelsAssumption, [DirectoryNext]_peers, NEW k \in Keys
  PROVE  KeyLifeCycle(k)
<1> SUFFICES ASSUME peers[k] # Absent
             PROVE  /\ peers'[k] # Absent
                    /\ peers'[k].user = peers[k].user
                    /\ peers'[k].auth = peers[k].auth
                    /\ peers'[k].active => peers[k].active
                    /\ peers'[k].server \in {peers[k].server, Unpinned}
  BY DEF KeyLifeCycle
<1>1. CASE Admit
  BY <1>1 DEF Admit, Insert, DirectoryTypeOK
<1>2. CASE Withdraw
  <2>1. PICK K \in SUBSET Known : Deactivate(K)
    BY <1>2 DEF Withdraw
  <2> QED
    BY <2>1 DEF Deactivate, Known, DirectoryTypeOK, Peer, Pins, SentinelsAssumption
<1>3. CASE Unpin
  BY <1>3 DEF Unpin, ClearPins, Known, DirectoryTypeOK, Peer, Pins, SentinelsAssumption
<1>4. CASE UNCHANGED peers
  BY <1>4
<1> QED
  BY <1>1, <1>2, <1>3, <1>4 DEF DirectoryNext

(* In the abstract directory every step respects the life cycle of every key: what
   server.ts:393-472 promises of a row of VpnPeer.                               *)
THEOREM DirectoryKeepsLifeCycle == DirectorySpec => LifeCycle
<1>1. DirectoryInit => DirectoryTypeOK
  BY DirectoryInitTyped
<1>2. DirectoryTypeOK /\ [DirectoryNext]_peers => DirectoryTypeOK'
  BY DirectoryNextTyped
<1>3. DirectoryTypeOK /\ [DirectoryNext]_peers => [\A k \in Keys : KeyLifeCycle(k)]_peers
  BY DirectoryNextLifeCycle, SentinelsAssumption
<1> QED
  BY <1>1, <1>2, <1>3, PTL DEF DirectorySpec, LifeCycle
=============================================================================
