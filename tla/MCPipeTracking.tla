--------------------------- MODULE MCPipeTracking ---------------------------
(* Two connections, so that lists have an order and a Pipe can go from the *)
(* front of one.  For safety, the dispatcher and one user's thread: two    *)
(* updates, and an update and close(), meet.  For liveness the dispatcher  *)
(* alone, which has to get everything done without a user's help.          *)
EXTENDS PipeTracking

\* No action tells one connection from another.
PipeSymmetry == Permutations(Pipes)
=============================================================================
