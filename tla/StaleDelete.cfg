CONSTANTS
  Procs = {p1, p2}
  NoProc = NoProc
  Names = {n1}
  NoName = NoName
  Ids = {i1}
  NoId = NoId
  work = work
  other = other
  Projects <- MCProjects
  NoProject = NoProject
  NoSpec = NoSpec
  Manifests <- OneManifest
  RawSpec <- MCRawSpec
  Commands = {"start", "delete"}
  Overcommits = {FALSE}
  Purges = {FALSE}
  StopOnShellExit = TRUE
  PoolMemory = 4
  MaxFaults = 0
  MaxEdits = 0
SPECIFICATION Spec
INVARIANTS
  DeleteRemovesRuntime
