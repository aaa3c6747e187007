------------------------------ MODULE MCReload ------------------------------
(* The TLC instances of Reload; the cfg files give the constants. *)
EXTENDS Reload, TLC
=============================================================================
