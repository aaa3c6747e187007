---------------------------- MODULE MCServeLoop -----------------------------
(* The TLC instances of ServeLoop; the cfg files give the constants. *)
EXTENDS ServeLoop, TLC
=============================================================================
