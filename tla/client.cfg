CONSTANTS
  Clients = {c1, c2}
  Configs = {w1, w2, i1}
  Exclusive = {w1, w2}
  Imported = {i1}
  NoConfig = NoConfig
  Attempts = {a1, a2}
  Ids = {d1, d2}
  Retries = 2
  NoDevice = NoDevice
  NoLine = NoLine
SPECIFICATION Spec
SYMMETRY Symmetry
INVARIANTS
  TypeOK
  ShownIsRecorded
  ShownIsRegistered
  ConnectingIsAttempted
