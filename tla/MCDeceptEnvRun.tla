--------------------------- MODULE MCDeceptEnvRun ---------------------------
(* DeceptEnvRun with one canary, the daemon (pid 3) and two more processes  *)
(* of the same user.                                                        *)
EXTENDS DeceptEnvRun
CONSTANTS aws, me, c1, c2
MCPaths == {aws}
MCOwners == {me}
MCCalls == {c1, c2}
=============================================================================
