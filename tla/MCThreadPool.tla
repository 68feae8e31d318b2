---------------------------- MODULE MCThreadPool ----------------------------
(* A thread that submits and one that maps, for two workers.  With a        *)
(* buffersize of 1 map() lowers send_buf below what may be queued, without  *)
(* one it leaves it, and with 4 it exceeds the maximum.                     *)
EXTENDS ThreadPool, TLC

CONSTANTS s, m

MCTasks == (s :> 1) @@ (m :> 2)
MCBuffersizes == {NoBuffersize, 1, 4}
=============================================================================
