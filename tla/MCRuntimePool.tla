--------------------------- MODULE MCRuntimePool ----------------------------
(* The TLC instance of RuntimePool; RuntimePool.cfg gives the constants. *)
EXTENDS RuntimePool, TLC
=============================================================================
