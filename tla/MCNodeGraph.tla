---------------------------- MODULE MCNodeGraph ----------------------------
(* Model values for checking NodeGraph with TLC.                           *)
EXTENDS NodeGraph

CONSTANTS a, b
=============================================================================
