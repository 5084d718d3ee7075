CONSTANTS
  Values = {v1, v2}
  Protocols = {v2}
  Default = v1
  Tries = 2
  Pending = 2
  Unreadable = Unreadable
SPECIFICATION Spec
INVARIANTS
  TypeOK
  OneSetup
  InstalledWasSeen
  KillSwitchAsAsked
  SettingsSaved
PROPERTIES
  ShownInTheEnd
