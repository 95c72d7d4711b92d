----------------------------- MODULE MCLimiters -----------------------------
(* Model values and constants for checking Limiters with TLC.              *)
EXTENDS Limiters

CONSTANTS q1, q2, q3

MCQuads == {q1, q2, q3}

MCRank == [q \in MCQuads |-> CASE q = q1 -> 1 [] q = q2 -> 2 [] q = q3 -> 3]

MCSettings == {[rate |-> 1, period |-> 2], [rate |-> 2, period |-> 10]}
MCDefault == [rate |-> 2, period |-> 10]
=============================================================================
