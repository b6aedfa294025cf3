CONSTANTS
  Procs = {p1, p2}
  NoProc = NoProc
  Names = {n1}
  NoName = NoName
  Ids = {i1, i2}
  NoId = NoId
  work = work
  other = other
  Projects <- MCProjects
  NoProject = NoProject
  NoSpec = NoSpec
  Manifests <- EphemeralManifests
  RawSpec <- MCRawSpec
  Commands = {"start", "delete"}
  Overcommits = {FALSE}
  Purges = {FALSE}
  StopOnShellExit = TRUE
  PoolMemory = 4
  MaxFaults = 1
  MaxEdits = 0
SPECIFICATION FairSystemSpec
PROPERTIES
  CleanupSparesIndexed
  OrphansReclaimed
  OrphanNetworksReclaimed
