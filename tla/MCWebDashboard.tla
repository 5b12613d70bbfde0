--------------------------- MODULE MCWebDashboard ---------------------------
(* A small instance of WebDashboard for TLC. *)
EXTENDS WebDashboard

CONSTANTS t1, t2

MCThreads == {t1, t2}

=============================================================================
