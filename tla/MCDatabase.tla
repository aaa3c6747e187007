----------------------------- MODULE MCDatabase -----------------------------
(***************************************************************************)
(* What reaches the disk through the blocking pool, checked in one run:    *)
(* the statements and transactions of a connection, the migrations that    *)
(* several processes apply, and the files of uploads.  A behaviour moves   *)
(* one of them and leaves the others where they start.                     *)
(***************************************************************************)
EXTENDS MCDbTransaction, DbMigrate, Upload

VARIABLE part    \* the component that moves

DatabaseInit ==
  /\ part \in {"transactions", "migrations", "uploads"}
  /\ Init
  /\ MigrateInit
  /\ UploadInit

DatabaseNext ==
  /\ UNCHANGED part
  /\ \/ part = "transactions" /\ Next /\ UNCHANGED <<migrateVars, uploadVars>>
     \/ part = "migrations" /\ MigrateNext /\ UNCHANGED <<vars, uploadVars>>
     \/ part = "uploads" /\ UploadNext /\ UNCHANGED <<vars, migrateVars>>

DatabaseSpec == DatabaseInit /\ [][DatabaseNext]_<<part, vars, migrateVars, uploadVars>>

-----------------------------------------------------------------------------
(* Request bodies: one upload has any of four, the other a single file *)

P(k, n) == [kind |-> k, size |-> n]
MCBodies ==
  [r \in Uploads |->
     IF r # CHOOSE q \in Uploads : TRUE THEN {<<P("file", 1)>>}
     ELSE {<<P("text", 1), P("file", 1)>>, <<P("empty", 0), P("other", 1), P("file", 1)>>, <<P("text", 2)>>,
           <<P("other", 2), P("file", 1)>>}]
=============================================================================
