--------------------------- MODULE MCRequestPath ----------------------------
(* The TLC instances of RequestPath; the cfg files give the constants. *)
EXTENDS RequestPath, TLC
=============================================================================
