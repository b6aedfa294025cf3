CONSTANTS
  Procs = {p1, p2}
  NoProc = NoProc
  Names = {n1, n2}
  NoName = NoName
  Ids = {i1, i2}
  NoId = NoId
  work = work
  other = other
  Projects <- MCProjects
  NoProject = NoProject
  NoSpec = NoSpec
  Manifests <- SharedManifests
  RawSpec <- MCRawSpec
  Commands = {"start", "session", "stop", "recreate", "delete", "run"}
  Overcommits = {FALSE, TRUE}
  Purges = {TRUE}
  StopOnShellExit = TRUE
  PoolMemory = 2
  MaxFaults = 0
  MaxEdits = 0
SPECIFICATION Spec
SYMMETRY Symmetry
INVARIANTS
  ExclusiveProject
PROPERTIES
  StartRespectsProject
  StartWithinPool
  NoLostRegistration
