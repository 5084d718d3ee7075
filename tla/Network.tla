-------------------------------- MODULE Network --------------------------------
(***************************************************************************)
(* The control plane and the nodes it feeds, together: the requests of     *)
(* ControlPlane, statement by statement, between any two steps of the      *)
(* agents of VpnNode.  What they share is the peer table, which the        *)
(* requests write and GET /server/peers reads.                             *)
(*                                                                         *)
(* A node's registration and fetch may succeed here whatever its token is: *)
(* the checks of the token (server.ts:170-175, 244-249) only take          *)
(* behaviours away.                                                        *)
(***************************************************************************)
EXTENDS ControlPlane, VpnNode

networkVars == <<peers, registry, tokenVars, handler, progress, disk, granted, crashes>>

NetworkInit == Init /\ NodeInit

\* A statement of the control plane; what it makes the directory answer is granted.
ControlPlaneStep ==
  /\ Next
  /\ granted' = [n \in Nodes |-> granted[n] \cup ServedTo(n)']
  /\ UNCHANGED <<progress, disk, crashes>>

AgentStep ==
  /\ \E n \in Nodes : NodeStep(n)
  /\ UNCHANGED <<registry, tokenVars, handler>>

NetworkNext == ControlPlaneStep \/ AgentStep

NetworkSpec == NetworkInit /\ [][NetworkNext]_networkVars

-----------------------------------------------------------------------------
(* Properties *)

(* Through every interleaving of POST /peers and DELETE /servers/:id, and every crash
   and stale fetch of an agent, a key that a node accepts is in the table and is pinned
   to no other node; and if it is pinned to this one, the registry has the node: no
   tunnel is open through a pin that the deletion of a server left behind
   (server.ts:254-262, 371-380, 401-418; vpn/mod.rs:219-249).                       *)
AcceptsItsOwn ==
  \A n \in Nodes, p \in Protocols : \A k \in Accepts(n, p) \ {Static} :
    /\ k \in Known
    /\ peers[k].server \in {n, Unpinned}
    /\ peers[k].server = n => n \in Registered

(* The inductive form of its second part: what was ever granted to a node keeps a pin
   that allows it.                                                                  *)
GrantedPins ==
  \A n \in Nodes : \A k \in granted[n] : peers[k].server \in {n, Unpinned}
=============================================================================
