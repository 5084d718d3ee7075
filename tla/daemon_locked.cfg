\* Two overlapping requests of the kinds that change the kill switch under the
\* lock, the monitor and a shutdown; backends may fail to go down.
CONSTANTS
  Clients = {c1, c2}
  Kinds = {"connect", "disconnect", "settings"}
  Backends = {"wireguard", "openvpn"}
  Faulty = TRUE
  Stops = FALSE
SPECIFICATION Spec
SYMMETRY ClientSymmetry
INVARIANTS
  TypeOK
  KillSwitchReported
  NoBlackhole
PROPERTIES
  ServesApp
