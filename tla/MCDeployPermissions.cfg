SPECIFICATION DeploySpec
CONSTANTS
  j1 = j1
  j2 = j2
  j3 = j3
  project = project
  Jobs <- MCJobs
  Kinds <- MCKinds
  Dirs <- MCDirs
  NoFile = NoFile
SYMMETRY MCSymmetry
CHECK_DEADLOCK FALSE
INVARIANT StrictPermissions
