------------------------- MODULE MCFdDispatchQueue -------------------------
(* Three operations complete concurrently, so that pushes meet each other  *)
(* and every place of the loop.  SockBuf = 2: a second byte would fit, so  *)
(* that OneWakeup does not hold for want of room.                          *)
EXTENDS FdDispatchQueue
=============================================================================
