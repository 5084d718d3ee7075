------------------------------ MODULE MCVpnNode ------------------------------
(* Small instances of VpnNode for TLC. *)
EXTENDS VpnNode, TLC

\* VPN_PROTOCOLS as deployed (scripts/setup-vpn-node.sh, main.rs:379).
DefaultOrder == <<"wireguard", "openvpn", "ikev2">>

=============================================================================
