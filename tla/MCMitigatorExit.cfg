SPECIFICATION MitigatorSpec
CONSTANTS
  me = me
  root = root
  c1 = c1
  c2 = c2
  Systems = {"linux"}
  Pids = {1, 2, 3}
  Self = 3
  Shell = 1
  Owners <- MCOwners
  User = me
  MaxGen = 1
  Calls <- MCCalls
  NoCall = NoCall
CHECK_DEADLOCK FALSE
INVARIANT ExitsAreHandled
