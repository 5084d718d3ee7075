CONSTANTS
  Clients = {c1}
  Configs = {w1, w2}
  Exclusive = {w1, w2}
  Imported = {}
  NoConfig = NoConfig
  Attempts = {a1}
  Ids = {d1}
  Retries = 2
  NoDevice = NoDevice
  NoLine = NoLine
SPECIFICATION FairSpec
PROPERTIES
  LossShown
