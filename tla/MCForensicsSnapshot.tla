------------------------ MODULE MCForensicsSnapshot ------------------------
(* A small instance of ForensicsSnapshot for TLC: init (1), the daemon (2)  *)
(* and two more processes, memory maps around the bound.              *)
EXTENDS ForensicsSnapshot

CONSTANTS me, root

MCOwners == {me, root}

Low(n) == [size |-> n, high |-> FALSE]
MCLayouts ==
  {<<>>, <<Low(1), Low(1)>>, <<Low(2), Low(3), Low(1)>>, <<Low(4)>>,
   <<Low(1), [size |-> 1, high |-> TRUE]>>}

=============================================================================
