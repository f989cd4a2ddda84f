------------------------- MODULE MCHandlerLifecycle -------------------------
(* Instances of HandlerLifecycle; the constants are values in the .cfg     *)
(* files.                                                                  *)
EXTENDS HandlerLifecycle
=============================================================================
