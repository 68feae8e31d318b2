----------------------------- MODULE MCAsyncOps -----------------------------
(* Two operations: a completion then meets a queue that is empty or not,   *)
(* and a call can be made at an address while the other one is awaited.    *)
(* The configurations choose who closes the socket, whether the build has  *)
(* a GIL, and whether freed addresses are used again (without reuse every  *)
(* behaviour is finite, which keeps the liveness run small).  SockBuf = 2  *)
(* leaves room for a byte too many.                                        *)
EXTENDS AsyncOps
=============================================================================
