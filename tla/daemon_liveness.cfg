\* Every kind of request, one at a time, against the monitor, a shutdown and a stop.
CONSTANTS
  Clients = {c1}
  Kinds = {"connect", "disconnect", "enable", "disable", "settings"}
  Backends = {"wireguard", "ikev2"}
  Faulty = TRUE
  Stops = TRUE
SPECIFICATION FairSpec
PROPERTIES
  RequestAnswered
  AutoDisconnects
