--------------------------- MODULE MCTilePipeline ---------------------------
(* Model values and constants for checking TilePipeline with TLC.          *)
EXTENDS TilePipeline

CONSTANTS q1, q2, q3

MCQuads == {q1, q2, q3}

MCRank == [q \in MCQuads |-> CASE q = q1 -> 1 [] q = q2 -> 2 [] q = q3 -> 3]

MCSetting == [rate |-> 1, period |-> 1]
=============================================================================
