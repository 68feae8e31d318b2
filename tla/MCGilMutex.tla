----------------------------- MODULE MCGilMutex -----------------------------
(* Three threads, critical sections of up to two acquisitions, on both     *)
(* builds of the interpreter.  Three threads are needed for two waiters in *)
(* the slow path beside an owner; two acquisitions are the deepest nesting *)
(* in the binding (_select_mode and _try_init_poll).                       *)
EXTENDS GilMutex
=============================================================================
