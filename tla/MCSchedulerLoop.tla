-------------------------- MODULE MCSchedulerLoop --------------------------
(* Model values and constants for checking SchedulerLoop with TLC.         *)
EXTENDS SchedulerLoop

CONSTANTS root, west, inner

MCQuads == {root, west, inner}

MCRank == [q \in MCQuads |-> CASE q = root -> 1 [] q = west -> 2 [] q = inner -> 3]

MCAncestors == [q \in MCQuads |->
  CASE q = root -> {} [] q = west -> {root} [] q = inner -> {root, west}]
=============================================================================
