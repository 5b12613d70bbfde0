------------------------- MODULE MCThreatMitigator -------------------------
(* ThreatMitigator with the daemon (pid 3), its shell (1) and a reader (2). *)
EXTENDS ThreatMitigator
CONSTANTS me, root, c1, c2
MCOwners == {me, root}
MCCalls == {c1, c2}
=============================================================================
