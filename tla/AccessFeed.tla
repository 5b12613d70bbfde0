----------------------------- MODULE AccessFeed -----------------------------
(***************************************************************************)
(* What the polling half of the monitor promises the rest of the engine: a *)
(* FIFO feed in which every access of an armed canary is reported, each    *)
(* report answers an access not reported before, and an access disappears  *)
(* unreported only together with its file.  Accesses that pile up on one   *)
(* canary between two looks are reported once.                             *)
(***************************************************************************)
EXTENDS Sequences

CONSTANT Paths
VARIABLES present,      \* canaries on disk
          outstanding,  \* armed canaries accessed since their last report
          feed          \* reports not consumed yet, oldest first

feedVars == <<present, outstanding, feed>>

Init ==
  /\ present \in SUBSET Paths
  /\ outstanding = {}
  /\ feed = <<>>

Touch(p) ==
  /\ p \in present
  /\ outstanding' = outstanding \cup {p}
  /\ UNCHANGED <<present, feed>>

\* A canary that comes back while armed may itself count as an access.
Create(p) ==
  /\ p \notin present
  /\ present' = present \cup {p}
  /\ outstanding' \in {outstanding, outstanding \cup {p}}
  /\ UNCHANGED feed

Remove(p) ==
  /\ present' = present \ {p}
  /\ outstanding' = outstanding \ {p}
  /\ UNCHANGED feed

Report(p) ==
  /\ p \in outstanding
  /\ outstanding' = outstanding \ {p}
  /\ feed' = Append(feed, p)
  /\ UNCHANGED present

Consume ==
  /\ feed # <<>>
  /\ feed' = Tail(feed)
  /\ UNCHANGED <<present, outstanding>>

Next ==
  \/ \E p \in Paths : Touch(p) \/ Create(p) \/ Remove(p) \/ Report(p)
  \/ Consume

Spec == Init /\ [][Next]_feedVars

=============================================================================
