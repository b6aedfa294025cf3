CONSTANTS
  Procs = {p1, p2, p3}
  NoProc = NoProc
  Names = {n1}
  NoName = NoName
  Ids = {i1, i2}
  NoId = NoId
  work = work
  other = other
  Projects <- MCProjects
  NoProject = NoProject
  NoSpec = NoSpec
  Manifests <- EphemeralManifests
  RawSpec <- MCRawSpec
  Commands = {"start", "session", "stop", "stopAll", "recreate", "delete", "run"}
  Overcommits = {FALSE}
  Purges = {FALSE}
  StopOnShellExit = TRUE
  PoolMemory = 4
  MaxFaults = 1
  MaxEdits = 0
SPECIFICATION Spec
SYMMETRY Symmetry
INVARIANTS
  RegistryIntegrity
  IInv
  RecreateKeepsRunState
  StopAllLeavesOnlyRawRuns
PROPERTIES
  SessionUndisturbed
  SessionStopsOwnStart
  ImplementsEnvironments
