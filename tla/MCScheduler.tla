---------------------------- MODULE MCScheduler ----------------------------
(* Model values and constants for checking Scheduler with TLC: a root with *)
(* two children, one of which has a child.                                 *)
EXTENDS Scheduler

CONSTANTS root, west, east, inner

MCQuads == {root, west, east, inner}

MCAncestors == [q \in MCQuads |->
  CASE q = root -> {} [] q = west -> {root} [] q = east -> {root} [] q = inner -> {root, west}]
=============================================================================
