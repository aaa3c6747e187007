----------------------------- MODULE DbMigrate ------------------------------
(***************************************************************************)
(* Schema migrations, crates/nitr-std/src/db/migrate.rs: run() applies the *)
(* files of a directory in the order of their versions, each in a          *)
(* transaction that also records it in the ledger.                         *)
(*                                                                         *)
(* Several processes may run it over one database, and each may stop at    *)
(* any point.  The ledger is read before the first transaction and files   *)
(* after it, so both may be stale when they are used.  A file's content    *)
(* stands for its checksum too.  SQLite is external: one connection writes *)
(* at a time, and what a connection that stops has not committed is gone.  *)
(***************************************************************************)
EXTENDS Integers, Sequences

CONSTANTS
  Runners,         \* the processes that migrate
  Versions,        \* the numbers files start with
  Contents,        \* what a file may hold
  NoFile,          \* there is no file, or no row in the ledger
  Nobody,          \* no connection is writing
  MaxEdits         \* bound: how often files change

\* A version is a run of digits.
ASSUME VersionsAreNumbers == Versions \subseteq Nat
ASSUME NoFileIsNoContent == NoFile \notin Contents
ASSUME NobodyIsNoRunner == Nobody \notin Runners

VARIABLES
  files,           \* the directory
  edits,
  ledger,          \* _nitr_migrations, committed
  schema,          \* history: what was executed and committed, and how often
  writer,          \* the connection that writes
  seen,            \* each runner's copy of the ledger
  found,           \* each runner's copy of the directory
  at,              \* where each runner is
  doing            \* the version each runner is migrating

migrateVars == <<files, edits, ledger, schema, writer, seen, found, at, doing>>

\* The versions a runner still has to look at: those past the last one it did.
Left(p) == {v \in Versions : found[p][v] # NoFile /\ v > doing[p]}

First(S) == CHOOSE v \in S : \A u \in S : v <= u

\* A version below every other.
Before == First(Versions) - 1

\* applied(), after ensure_table().
ReadLedger(p) ==
  /\ at[p] = "start"
  /\ seen' = [seen EXCEPT ![p] = ledger]
  /\ at' = [at EXCEPT ![p] = "discover"]
  /\ UNCHANGED <<files, edits, ledger, schema, writer, found, doing>>

\* discover(): the files, sorted by version.
Discover(p) ==
  /\ at[p] = "discover"
  /\ found' = [found EXCEPT ![p] = files]
  /\ at' = [at EXCEPT ![p] = "next"]
  /\ UNCHANGED <<files, edits, ledger, schema, writer, seen, doing>>

\* Mutant: a version in the ledger is passed over without a look at its checksum.
NextFile_unchecked(p) ==
  LET v == First(Left(p))
  IN  /\ at[p] = "next" /\ Left(p) # {}
      /\ doing' = [doing EXCEPT ![p] = v]
      /\ at' = [at EXCEPT ![p] = IF seen[p][v] = NoFile THEN "begun" ELSE "next"]
      /\ UNCHANGED <<files, edits, ledger, schema, writer, seen, found>>

\* The next file: passed over when it ran, refused when it changed since, begun.
NextFile(p) ==
  LET v == First(Left(p))
  IN  /\ at[p] = "next" /\ Left(p) # {}
      /\ doing' = [doing EXCEPT ![p] = v]
      /\ at' = [at EXCEPT ![p] = CASE seen[p][v] = found[p][v] -> "next"
                                   [] seen[p][v] = NoFile -> "begun"
                                   [] OTHER -> "failed"]
      /\ UNCHANGED <<files, edits, ledger, schema, writer, seen, found>>

AllDone(p) ==
  /\ at[p] = "next" /\ Left(p) = {}
  /\ at' = [at EXCEPT ![p] = "done"]
  /\ UNCHANGED <<files, edits, ledger, schema, writer, seen, found, doing>>

\* BEGIN and the file's statements: the first write takes the database's write lock.
Execute(p) ==
  /\ at[p] = "begun" /\ writer = Nobody
  /\ writer' = p
  /\ at' = [at EXCEPT ![p] = "executed"]
  /\ UNCHANGED <<files, edits, ledger, schema, seen, found, doing>>

\* Mutant: a version that is in the ledger is replaced there.
Record_replaces(p) ==
  /\ at[p] = "executed"
  /\ at' = [at EXCEPT ![p] = "recorded"]
  /\ UNCHANGED <<files, edits, ledger, schema, writer, seen, found, doing>>

\* The row of the ledger: its version is the primary key.
Record(p) ==
  /\ at[p] = "executed" /\ ledger[doing[p]] = NoFile
  /\ at' = [at EXCEPT ![p] = "recorded"]
  /\ UNCHANGED <<files, edits, ledger, schema, writer, seen, found, doing>>

\* COMMIT: the statements and the row together.
Commit(p) ==
  LET v == doing[p]
  IN  /\ at[p] = "recorded"
      /\ ledger' = [ledger EXCEPT ![v] = found[p][v]]
      /\ schema' = [schema EXCEPT ![v] = Append(@, found[p][v])]
      /\ writer' = Nobody
      /\ at' = [at EXCEPT ![p] = "next"]
      /\ UNCHANGED <<files, edits, seen, found, doing>>

\* A statement, the row or COMMIT fails (a conflict, a lock held too long): ROLLBACK.
Fail(p) ==
  /\ at[p] \in {"begun", "executed", "recorded"}
  /\ writer' = IF writer = p THEN Nobody ELSE writer
  /\ at' = [at EXCEPT ![p] = "failed"]
  /\ UNCHANGED <<files, edits, ledger, schema, seen, found, doing>>

\* The process stops, wherever it is, or it is started again.
Restart(p) ==
  /\ at[p] # "start"
  /\ writer' = IF writer = p THEN Nobody ELSE writer
  /\ at' = [at EXCEPT ![p] = "start"]
  /\ doing' = [doing EXCEPT ![p] = Before]
  /\ UNCHANGED <<files, edits, ledger, schema, seen, found>>

\* A developer adds a file, edits one or removes it.
Edit(v, content) ==
  /\ edits < MaxEdits
  /\ files[v] # content
  /\ edits' = edits + 1
  /\ files' = [files EXCEPT ![v] = content]
  /\ UNCHANGED <<ledger, schema, writer, seen, found, at, doing>>

MigrateInit ==
  /\ files = [v \in Versions |-> NoFile]
  /\ edits = 0
  /\ ledger = [v \in Versions |-> NoFile]
  /\ schema = [v \in Versions |-> <<>>]
  /\ writer = Nobody
  /\ seen = [p \in Runners |-> [v \in Versions |-> NoFile]]
  /\ found = [p \in Runners |-> [v \in Versions |-> NoFile]]
  /\ at = [p \in Runners |-> "start"]
  /\ doing = [p \in Runners |-> Before]

MigrateNext ==
  \/ \E p \in Runners : \/ ReadLedger(p)
                        \/ Discover(p)
                        \/ NextFile(p)
                        \/ AllDone(p)
                        \/ Execute(p)
                        \/ Record(p)
                        \/ Commit(p)
                        \/ Fail(p)
                        \/ Restart(p)
  \/ \E v \in Versions, content \in Contents \cup {NoFile} : Edit(v, content)

MigrateSpec == MigrateInit /\ [][MigrateNext]_migrateVars

-----------------------------------------------------------------------------
(* Properties. *)

\* A migration never runs twice, and what the ledger says ran is what ran: however many
\* processes race, stop half way or work from a stale ledger or file (run).
LedgerIsTheTruth ==
  \A v \in Versions :
    schema[v] = IF ledger[v] = NoFile THEN <<>> ELSE <<ledger[v]>>

\* A runner that finishes has everything it found in the ledger, unchanged: it never
\* reports success over a file that another process ran differently.
DoneMeansApplied ==
  \A p \in Runners : at[p] = "done" => \A v \in Versions : found[p][v] \in {NoFile, ledger[v]}

\* The ledger says what ran, and a migration that reports success has run all.
LedgerHolds == LedgerIsTheTruth /\ DoneMeansApplied

=============================================================================
