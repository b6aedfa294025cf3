CONSTANTS
  Procs = {p1, p2}
  NoProc = NoProc
  Names = {n1, n2}
  NoName = NoName
  Ids = {i1, i2}
  NoId = NoId
  work = work
  other = other
  Projects <- MCProjects
  NoProject = NoProject
  NoSpec = NoSpec
  Manifests <- MovingManifests
  RawSpec <- MCRawSpec
  Commands = {"start", "recreate"}
  Overcommits = {FALSE}
  Purges = {FALSE}
  StopOnShellExit = TRUE
  PoolMemory = 4
  MaxFaults = 0
  MaxEdits = 1
SPECIFICATION Spec
INVARIANTS
  ExclusiveProject
