---------------------------- MODULE FreezePromise ----------------------------
(***************************************************************************)
(* What freeze_threat() promises its callers: a call either turns its      *)
(* target away and touches nothing, or stops it, once, and then always has *)
(* an answer about it; no other call stops a process until it has given    *)
(* that answer; and nothing else in the program ever stops a process.      *)
(***************************************************************************)
CONSTANTS Calls, Pids, Self
VARIABLES stopped,  \* processes that are stopped
          goal,     \* the pid each call is about
          stage     \* how far it has come

promiseVars == <<stopped, goal, stage>>

Init ==
  /\ stopped = {}
  /\ goal = [c \in Calls |-> 0]
  /\ stage = [c \in Calls |-> "new"]

Advance(c, from, to) == stage[c] = from /\ stage' = [stage EXCEPT ![c] = to]

\* A call is made; some are turned away at once.
Ask(c, q) ==
  /\ Advance(c, "new", "asked") \/ Advance(c, "new", "refused")
  /\ goal' = [goal EXCEPT ![c] = q]
  /\ UNCHANGED stopped

TurnAway(c) == Advance(c, "asked", "refused") /\ UNCHANGED <<stopped, goal>>

\* The target is stopped, unless it has ended and only awaits its parent.
Stop(c) ==
  /\ Advance(c, "asked", "holding")
  /\ \A d \in Calls : stage[d] # "holding"
  /\ goal[c] \in Pids \ {Self}
  /\ stopped' \in {stopped, stopped \cup {goal[c]}}
  /\ UNCHANGED goal

Answer(c) ==
  /\ Advance(c, "holding", "reported") \/ Advance(c, "holding", "failed")
  /\ UNCHANGED <<stopped, goal>>

\* A stopped process is resumed by somebody else, or ends.
Released(q) == stopped' = stopped \ {q} /\ UNCHANGED <<goal, stage>>

Next ==
  \/ \E c \in Calls :
       TurnAway(c) \/ Stop(c) \/ Answer(c) \/ \E q \in Pids \cup {0} : Ask(c, q)
  \/ \E q \in Pids : Released(q)

Spec == Init /\ [][Next]_promiseVars

=============================================================================
