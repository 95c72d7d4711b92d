-------------------------- MODULE MCSchedulerView --------------------------
(* Model values and constants for checking SchedulerView with TLC.         *)
EXTENDS SchedulerView

CONSTANTS root, west, east

MCQuads == {root, west, east}

MCAncestors == [q \in MCQuads |-> IF q = root THEN {} ELSE {root}]
=============================================================================
