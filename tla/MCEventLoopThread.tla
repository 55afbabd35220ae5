------------------------- MODULE MCEventLoopThread -------------------------
(* One EventLoopThread, its owner and one more thread that uses the loop.  *)
EXTENDS EventLoopThread
=============================================================================
