CONSTANTS
  Procs = {p1}
  NoProc = NoProc
  Environments = {e1}
  NoEnvironment = NoEnvironment
  Builtin = builtin
  Customs = {custom}
  custom = custom
  LocalProfile <- MCLocalProfile
  NoProfile = NoProfile
  NoHash = NoHash
  Contents <- TwoReleases
  Handmade <- Misplaced
  Files = {f1}
  Complete = Complete
  MaxUpsets = 1
SPECIFICATION SystemSpec
PROPERTIES
  RemovesOnlyUnreferenced
