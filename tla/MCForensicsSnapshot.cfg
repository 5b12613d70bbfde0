SPECIFICATION SnapshotSpec
CONSTANTS
  me = me
  root = root
  Systems = {"linux", "darwin", "win32"}
  Pids = {1, 2, 3, 4}
  Self = 2
  Shell = 9
  Owners <- MCOwners
  User = me
  MaxGen = 1
  Root = 1
  MaxBytes = 3
  Layouts <- MCLayouts
CHECK_DEADLOCK FALSE
INVARIANTS SnapshotTypeOK DumpBounded DumpComplete OffenderFirst LineageIsKin LineageComplete
PROPERTY SnapshotEnds
