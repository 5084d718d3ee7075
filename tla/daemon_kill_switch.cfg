\* Requests that change the kill switch outside the lock.
CONSTANTS
  Clients = {c1, c2}
  Kinds = {"connect", "enable", "disable"}
  Backends = {"wireguard", "openvpn"}
  Faulty = FALSE
  Stops = FALSE
SPECIFICATION Spec
INVARIANTS
  KillSwitchSettled
