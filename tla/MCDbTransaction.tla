-------------------------- MODULE MCDbTransaction ---------------------------
(* The TLC instances of DbTransaction; the cfg files give the constants. *)
EXTENDS DbTransaction, TLC

\* Scopes and statements are interchangeable.
Symmetry == Permutations(Scopes) \cup Permutations(Writes)
=============================================================================
