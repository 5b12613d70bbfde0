----------------------------- MODULE EventLoop -----------------------------
(***************************************************************************)
(* External: the single-threaded asyncio event loop that `deceptenv run`   *)
(* drives.  One task runs at a time and only gives the loop back where its *)
(* source has an `await` that suspends; between two such points nothing of *)
(* the program interleaves with it, but the operating system still does.   *)
(***************************************************************************)

VARIABLE running   \* the task whose step is executing, or "loop"

\* The loop is choosing what to run next: every task is suspended.
Idle == running = "loop"

\* The loop hands the thread to task t.
Resume(t) == Idle /\ running' = t

\* The running task suspends (or ends) and gives the thread back.
Suspend == running' = "loop"

=============================================================================
