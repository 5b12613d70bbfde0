-------------------------- MODULE MCCanaryMonitor --------------------------
(* CanaryMonitor on two canaries and one process an access is blamed on.   *)
EXTENDS CanaryMonitor
CONSTANTS aws, chrome, reader
MCPaths == {aws, chrome}
MCOnePath == {aws}
MCSuspects == {reader}
=============================================================================
