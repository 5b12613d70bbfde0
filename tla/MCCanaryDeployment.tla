------------------------- MODULE MCCanaryDeployment -------------------------
(* CanaryDeployment with one canary of each kind of deployment and three    *)
(* commands, run from one working directory.                               *)
EXTENDS CanaryDeployment, TLC
CONSTANTS j1, j2, j3, project
MCJobs == {j1, j2, j3}
MCKinds == {"env", "chrome"}
MCDirs == {project}
MCSymmetry == Permutations(MCJobs)
=============================================================================
