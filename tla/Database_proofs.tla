-------------------------- MODULE Database_proofs ---------------------------
(***************************************************************************)
(* Proofs about the database: the migrations of DbMigrate and the          *)
(* transactions of DbTransaction.                                          *)
(***************************************************************************)
EXTENDS DbTransaction, DbMigrate, WellFoundedInduction, TLAPS

-----------------------------------------------------------------------------
(* Migrations.                                                             *)
(*                                                                         *)
(* The ledger only grows: a version is written where there was none.  So   *)
(* what a runner read stays true, however old its copy is; and the write   *)
(* lock, held from the first statement to COMMIT, keeps the primary key's  *)
(* answer true until the row is written.                                   *)

MigrateStages ==
  {"start", "discover", "next", "begun", "executed", "recorded", "failed", "done"}
FileOrNone == Contents \cup {NoFile}

MigrateTypeOK ==
  /\ files \in [Versions -> FileOrNone]
  /\ ledger \in [Versions -> FileOrNone]
  /\ schema \in [Versions -> Seq(FileOrNone)]
  /\ writer \in Runners \cup {Nobody}
  /\ seen \in [Runners -> [Versions -> FileOrNone]]
  /\ found \in [Runners -> [Versions -> FileOrNone]]
  /\ at \in [Runners -> MigrateStages]
  /\ doing \in [Runners -> Versions \cup {Before}]

\* What holds of one runner wherever it is.
RunnerInv(p) ==
  /\ at[p] \in {"executed", "recorded"} <=> writer = p
  /\ at[p] \in {"start", "discover"} => doing[p] = Before
  /\ at[p] \in {"begun", "executed", "recorded"} =>
       doing[p] \in Versions /\ found[p][doing[p]] # NoFile
  /\ at[p] = "recorded" => ledger[doing[p]] = NoFile
  /\ \A v \in Versions : seen[p][v] \in {NoFile, ledger[v]}
  /\ at[p] \in {"next", "done"} =>
       \A v \in Versions : v <= doing[p] => found[p][v] \in {NoFile, ledger[v]}
  /\ at[p] \in {"begun", "executed", "recorded"} =>
       \A v \in Versions : v < doing[p] => found[p][v] \in {NoFile, ledger[v]}
  /\ at[p] = "done" => Left(p) = {}

MigrateInv ==
  /\ MigrateTypeOK
  /\ \A p \in Runners : RunnerInv(p)
  /\ LedgerIsTheTruth

\* The least-number principle, from the well-foundedness of < on Nat.
LEMMA LeastNumber ==
  ASSUME NEW S \in SUBSET Nat, S # {}
  PROVE  \E x \in S : \A y \in S : x <= y
<1> DEFINE R == {ss \in Nat \X Nat : ss[1] < ss[2]}
<1>1. R = OpToRel(<, Nat)
  BY Zenon DEF OpToRel
<1>2. IsWellFoundedOn(R, Nat)
  BY <1>1, NatLessThanWellFounded, Zenon
<1> HIDE DEF R
<1>3. PICK x \in S : \A y \in S : ~(<<y, x>> \in R)
  BY <1>2, WFMin, Zenon
<1>4. \A y \in S : ~(y < x)
  BY <1>3 DEF R
<1> QED BY <1>4

\* A set of versions has a first one, and First() finds it.
LEMMA FirstIsLeast ==
  ASSUME NEW S \in SUBSET Nat, S # {}
  PROVE  First(S) \in S /\ \A u \in S : First(S) <= u
<1>1. \E x \in S : \A y \in S : x <= y
  BY LeastNumber
<1> QED BY <1>1, Zenon DEF First

\* Before is below every version.
LEMMA BeforeIsFirst ==
  ASSUME NEW v \in Versions
  PROVE  Before \in Int /\ Before < v
<1>1. First(Versions) \in Versions /\ First(Versions) <= v
  BY FirstIsLeast, VersionsAreNumbers
<1>2. First(Versions) \in Nat /\ v \in Nat
  BY <1>1, VersionsAreNumbers
<1>3. Before = First(Versions) - 1
  BY DEF Before
<1> QED BY <1>1, <1>2, <1>3

LEMMA DoingIsANumber ==
  ASSUME NEW p \in Runners, NEW v \in Versions, MigrateTypeOK
  PROVE  doing[p] \in Int /\ v \in Nat
<1>1. doing[p] \in Versions \cup {Before}
  BY DEF MigrateTypeOK
<1>2. Before \in Int
  BY BeforeIsFirst
<1>3. \A u \in Versions : u \in Int /\ u \in Nat
  BY VersionsAreNumbers
<1>4. CASE doing[p] = Before
  BY <1>2, <1>3, <1>4
<1>5. CASE doing[p] \in Versions
  BY <1>3, <1>5
<1> QED BY <1>1, <1>4, <1>5

LEMMA MigrateInitInv == MigrateInit => MigrateInv
<1> SUFFICES ASSUME MigrateInit PROVE MigrateInv
  OBVIOUS
<1>1. MigrateTypeOK
  BY DEF MigrateInit, MigrateTypeOK, MigrateStages, FileOrNone
<1>2. ASSUME NEW p \in Runners PROVE RunnerInv(p)
  BY NobodyIsNoRunner DEF MigrateInit, RunnerInv
<1>3. LedgerIsTheTruth
  BY DEF MigrateInit, LedgerIsTheTruth
<1> QED BY <1>1, <1>2, <1>3 DEF MigrateInv

\* A step of one runner that leaves the database, the directory and the other
\* runners alone.
LEMMA OwnStep ==
  ASSUME MigrateInv, MigrateTypeOK', NEW p \in Runners, RunnerInv(p)',
         UNCHANGED <<ledger, schema>>,
         \A q \in Runners \ {p} :
           /\ at'[q] = at[q] /\ doing'[q] = doing[q] /\ seen'[q] = seen[q] /\ found'[q] = found[q]
           /\ writer' = q <=> writer = q
  PROVE  MigrateInv'
<1>1. ASSUME NEW q \in Runners, q # p PROVE RunnerInv(q)'
  BY <1>1 DEF MigrateInv, RunnerInv, Left
<1>2. LedgerIsTheTruth'
  BY DEF MigrateInv, LedgerIsTheTruth
<1> QED BY <1>1, <1>2 DEF MigrateInv

LEMMA NextFileInv ==
  ASSUME MigrateInv, NEW p \in Runners, NextFile(p)
  PROVE  MigrateInv'
<1> DEFINE v == First(Left(p))
<1>1. /\ v \in Versions /\ found[p][v] # NoFile /\ v > doing[p]
      /\ \A u \in Versions : found[p][u] # NoFile /\ u > doing[p] => v <= u
  BY FirstIsLeast, VersionsAreNumbers DEF NextFile, Left
<1>2. /\ doing' = [doing EXCEPT ![p] = v]
      /\ at[p] = "next"
      /\ at' = [at EXCEPT ![p] = CASE seen[p][v] = found[p][v] -> "next"
                                   [] seen[p][v] = NoFile -> "begun"
                                   [] OTHER -> "failed"]
      /\ UNCHANGED <<files, edits, ledger, schema, writer, seen, found>>
  BY DEF NextFile
<1> HIDE DEF v
<1>3. MigrateTypeOK'
  BY <1>1, <1>2 DEF MigrateInv, MigrateTypeOK, MigrateStages, Before
<1>4. ASSUME NEW u \in Versions, u < v PROVE found[p][u] \in {NoFile, ledger[u]}
  <2>1. doing[p] \in Int /\ u \in Nat /\ v \in Nat
    BY <1>1, DoingIsANumber DEF MigrateInv
  <2>2. u > doing[p] => found[p][u] = NoFile
    BY <1>1, <1>4, <2>1
  <2>3. u <= doing[p] => found[p][u] \in {NoFile, ledger[u]}
    BY <1>2, <2>1 DEF MigrateInv, RunnerInv
  <2> QED BY <2>1, <2>2, <2>3
<1>5. at'[p] = "next" => found[p][v] \in {NoFile, ledger[v]}
  BY <1>1, <1>2 DEF MigrateInv, RunnerInv, MigrateTypeOK
<1>6. /\ at'[p] \in {"next", "begun", "failed"} /\ doing'[p] = v
      /\ at'[p] = "next" => found[p][v] \in {NoFile, ledger[v]}
      /\ writer # p
  BY <1>2, <1>5 DEF MigrateInv, MigrateTypeOK, RunnerInv
<1>7. \A u \in Versions : at'[p] = "next" /\ u <= v => found[p][u] \in {NoFile, ledger[u]}
  BY <1>1, <1>4, <1>6, VersionsAreNumbers
<1>8. RunnerInv(p)'
  BY <1>1, <1>2, <1>4, <1>6, <1>7 DEF MigrateInv, RunnerInv
<1> QED BY <1>2, <1>3, <1>8, OwnStep DEF MigrateInv, MigrateTypeOK

\* COMMIT writes where the ledger had nothing: no runner's copy becomes wrong.
LEMMA CommitInv ==
  ASSUME MigrateInv, NEW p \in Runners, Commit(p)
  PROVE  MigrateInv'
<1> DEFINE v == doing[p]
           c == found[p][v]
<1>1. /\ at[p] = "recorded" /\ writer = p
      /\ v \in Versions /\ c \in FileOrNone /\ c # NoFile /\ ledger[v] = NoFile
      /\ schema[v] = <<>>
  BY DEF Commit, MigrateInv, MigrateTypeOK, RunnerInv, LedgerIsTheTruth
<1>2. /\ ledger' = [ledger EXCEPT ![v] = c]
      /\ schema' = [schema EXCEPT ![v] = Append(@, c)]
      /\ writer' = Nobody
      /\ at' = [at EXCEPT ![p] = "next"]
      /\ UNCHANGED <<files, edits, seen, found, doing>>
  BY DEF Commit
<1> HIDE DEF v, c
<1>3. /\ MigrateTypeOK
      /\ schema[v] \in Seq(FileOrNone)
  BY <1>1 DEF MigrateInv, MigrateTypeOK
<1>4. MigrateTypeOK'
  BY <1>1, <1>2, <1>3 DEF MigrateTypeOK, MigrateStages, Before
<1>5. \A u \in Versions : ledger'[u] = IF u = v THEN c ELSE ledger[u]
  BY <1>1, <1>2, <1>3 DEF MigrateTypeOK
<1>6. LedgerIsTheTruth'
  <2>1. Append(<<>>, c) = <<c>>
    OBVIOUS
  <2> QED BY <1>1, <1>2, <1>3, <1>5, <2>1 DEF MigrateInv, LedgerIsTheTruth, MigrateTypeOK
<1>7. \A q \in Runners, u \in Versions :
        /\ seen[q][u] \in {NoFile, ledger[u]} => seen[q][u] \in {NoFile, ledger'[u]}
        /\ found[q][u] \in {NoFile, ledger[u]} => found[q][u] \in {NoFile, ledger'[u]}
  BY <1>1, <1>5
<1>8. RunnerInv(p)'
  <2>1. /\ at'[p] = "next" /\ writer' # p /\ doing'[p] = v /\ found'[p] = found[p]
        /\ found[p][v] = c /\ seen'[p] = seen[p]
    BY <1>1, <1>2, <1>3, NobodyIsNoRunner DEF MigrateTypeOK, v, c
  <2>2. \A u \in Versions : u <= v => found[p][u] \in {NoFile, ledger'[u]}
    <3> TAKE u \in Versions
    <3>1. u < v => found[p][u] \in {NoFile, ledger[u]}
      BY <1>1 DEF MigrateInv, RunnerInv, v
    <3> QED BY <1>1, <1>5, <1>7, <2>1, <3>1, VersionsAreNumbers
  <2>3. \A u \in Versions : seen[p][u] \in {NoFile, ledger'[u]}
    BY <1>7 DEF MigrateInv, RunnerInv
  <2> QED BY <2>1, <2>2, <2>3 DEF RunnerInv
<1>9. ASSUME NEW q \in Runners, q # p PROVE RunnerInv(q)'
  <2>1. /\ at'[q] = at[q] /\ doing'[q] = doing[q] /\ seen'[q] = seen[q] /\ found'[q] = found[q]
        /\ writer # q /\ writer' # q
    BY <1>1, <1>2, <1>3, <1>9, NobodyIsNoRunner DEF MigrateTypeOK
  <2>2. RunnerInv(q) /\ at[q] \notin {"executed", "recorded"}
    BY <2>1 DEF MigrateInv, RunnerInv
  <2>3. Left(q)' = Left(q)
    BY <2>1 DEF Left
  <2> QED BY <1>7, <2>1, <2>2, <2>3 DEF RunnerInv
<1> QED BY <1>4, <1>6, <1>8, <1>9 DEF MigrateInv

LEMMA MigrateNextInv == MigrateInv /\ [MigrateNext]_migrateVars => MigrateInv'
<1> SUFFICES ASSUME MigrateInv, [MigrateNext]_migrateVars PROVE MigrateInv'
  OBVIOUS
<1> USE DEF MigrateStages
<1>1. ASSUME NEW p \in Runners, ReadLedger(p) PROVE MigrateInv'
  <2>1. MigrateTypeOK'
    BY <1>1 DEF ReadLedger, MigrateInv, MigrateTypeOK, Before
  <2>2. RunnerInv(p)'
    BY <1>1 DEF ReadLedger, MigrateInv, MigrateTypeOK, RunnerInv
  <2> QED BY <1>1, <2>1, <2>2, OwnStep DEF ReadLedger, MigrateInv, MigrateTypeOK
<1>2. ASSUME NEW p \in Runners, Discover(p) PROVE MigrateInv'
  <2>1. MigrateTypeOK'
    BY <1>2 DEF Discover, MigrateInv, MigrateTypeOK, Before
  <2>2. \A v \in Versions : ~(v <= doing[p])
    BY <1>2, BeforeIsFirst, VersionsAreNumbers DEF Discover, MigrateInv, RunnerInv
  <2>3. RunnerInv(p)'
    BY <1>2, <2>2 DEF Discover, MigrateInv, MigrateTypeOK, RunnerInv
  <2> QED BY <1>2, <2>1, <2>3, OwnStep DEF Discover, MigrateInv, MigrateTypeOK
<1>3. ASSUME NEW p \in Runners, AllDone(p) PROVE MigrateInv'
  <2>1. MigrateTypeOK'
    BY <1>3 DEF AllDone, MigrateInv, MigrateTypeOK, Before
  <2>2. RunnerInv(p)'
    BY <1>3 DEF AllDone, MigrateInv, MigrateTypeOK, RunnerInv, Left
  <2> QED BY <1>3, <2>1, <2>2, OwnStep DEF AllDone, MigrateInv, MigrateTypeOK
<1>4. ASSUME NEW p \in Runners, Execute(p) PROVE MigrateInv'
  <2>1. MigrateTypeOK'
    BY <1>4 DEF Execute, MigrateInv, MigrateTypeOK, Before
  <2>2. RunnerInv(p)'
    BY <1>4 DEF Execute, MigrateInv, MigrateTypeOK, RunnerInv
  <2> QED BY <1>4, <2>1, <2>2, OwnStep, NobodyIsNoRunner DEF Execute, MigrateInv, MigrateTypeOK
<1>5. ASSUME NEW p \in Runners, Record(p) PROVE MigrateInv'
  <2>1. MigrateTypeOK'
    BY <1>5 DEF Record, MigrateInv, MigrateTypeOK, Before
  <2>2. RunnerInv(p)'
    BY <1>5 DEF Record, MigrateInv, MigrateTypeOK, RunnerInv
  <2> QED BY <1>5, <2>1, <2>2, OwnStep DEF Record, MigrateInv, MigrateTypeOK
<1>6. ASSUME NEW p \in Runners, Fail(p) PROVE MigrateInv'
  <2>1. MigrateTypeOK'
    BY <1>6 DEF Fail, MigrateInv, MigrateTypeOK, Before
  <2>2. RunnerInv(p)'
    BY <1>6, NobodyIsNoRunner DEF Fail, MigrateInv, MigrateTypeOK, RunnerInv
  <2> QED BY <1>6, <2>1, <2>2, OwnStep, NobodyIsNoRunner DEF Fail, MigrateInv, MigrateTypeOK
<1>7. ASSUME NEW p \in Runners, Restart(p) PROVE MigrateInv'
  <2>1. MigrateTypeOK'
    BY <1>7 DEF Restart, MigrateInv, MigrateTypeOK, Before
  <2>2. RunnerInv(p)'
    BY <1>7, NobodyIsNoRunner DEF Restart, MigrateInv, MigrateTypeOK, RunnerInv
  <2> QED BY <1>7, <2>1, <2>2, OwnStep, NobodyIsNoRunner DEF Restart, MigrateInv, MigrateTypeOK
<1>8. ASSUME NEW v \in Versions, NEW content \in Contents \cup {NoFile}, Edit(v, content) PROVE MigrateInv'
  <2>1. MigrateTypeOK'
    BY <1>8 DEF Edit, MigrateInv, MigrateTypeOK, FileOrNone, Before
  <2>2. \A p \in Runners : RunnerInv(p)'
    BY <1>8 DEF Edit, MigrateInv, RunnerInv, Left
  <2>3. LedgerIsTheTruth'
    BY <1>8 DEF Edit, MigrateInv, LedgerIsTheTruth
  <2> QED BY <2>1, <2>2, <2>3 DEF MigrateInv
<1>9. CASE UNCHANGED migrateVars
  <2>1. MigrateTypeOK'
    BY <1>9 DEF migrateVars, MigrateInv, MigrateTypeOK, Before
  <2>2. \A p \in Runners : RunnerInv(p)'
    BY <1>9 DEF migrateVars, MigrateInv, RunnerInv, Left
  <2>3. LedgerIsTheTruth'
    BY <1>9 DEF migrateVars, MigrateInv, LedgerIsTheTruth
  <2> QED BY <2>1, <2>2, <2>3 DEF MigrateInv
<1> QED BY <1>1, <1>2, <1>3, <1>4, <1>5, <1>6, <1>7, <1>8, <1>9, NextFileInv, CommitInv
        DEF MigrateNext

\* Migrations keep their types, for any number of runners, versions and contents.
THEOREM MigrateTypeCorrect == MigrateSpec => []MigrateTypeOK
<1>1. MigrateInv => MigrateTypeOK
  BY DEF MigrateInv
<1> QED BY <1>1, MigrateInitInv, MigrateNextInv, PTL DEF MigrateSpec

\* However many processes migrate one database, stop half way or work from an old
\* copy of the ledger or of the directory (run, in migrate.rs): no version is
\* executed twice, the ledger holds what was executed, and a runner that reports
\* success has everything it found in the ledger unchanged.
THEOREM MigrationsRunOnce == MigrateSpec => []LedgerHolds
<1>1. MigrateInv => LedgerHolds
  <2> SUFFICES ASSUME MigrateInv PROVE LedgerHolds
    OBVIOUS
  <2>1. ASSUME NEW p \in Runners, at[p] = "done", NEW v \in Versions
        PROVE  found[p][v] \in {NoFile, ledger[v]}
    <3>1. found[p][v] # NoFile => ~(v > doing[p])
      BY <2>1 DEF MigrateInv, RunnerInv, Left
    <3>2. doing[p] \in Int /\ v \in Nat
      BY DoingIsANumber DEF MigrateInv
    <3>3. v <= doing[p] => found[p][v] \in {NoFile, ledger[v]}
      BY <2>1 DEF MigrateInv, RunnerInv
    <3> QED BY <3>1, <3>2, <3>3
  <2> QED BY <2>1 DEF LedgerHolds, DoneMeansApplied, MigrateInv
<1> QED BY <1>1, MigrateInitInv, MigrateNextInv, PTL DEF MigrateSpec

\* The action property behind it: a row of the ledger is never changed or removed,
\* so a copy of the ledger, however old, never names a version that did not run.
THEOREM LedgerOnlyGrows ==
  MigrateSpec =>
    [][\A v \in Versions : ledger[v] # NoFile => ledger'[v] = ledger[v]]_migrateVars
<1> DEFINE Grows == \A v \in Versions : ledger[v] # NoFile => ledger'[v] = ledger[v]
<1>1. MigrateInv /\ [MigrateNext]_migrateVars => [Grows]_migrateVars
  <2> SUFFICES ASSUME MigrateInv, MigrateNext PROVE Grows
    OBVIOUS
  <2>1. ASSUME NEW p \in Runners, Commit(p) PROVE Grows
    BY <2>1 DEF Commit, MigrateInv, RunnerInv, MigrateTypeOK
  <2>2. CASE UNCHANGED ledger
    BY <2>2
  <2> QED BY <2>1, <2>2 DEF MigrateNext, ReadLedger, Discover, NextFile, AllDone, Execute,
                           Record, Fail, Restart, Edit
<1> QED BY <1>1, MigrateInitInv, MigrateNextInv, PTL DEF MigrateSpec


-----------------------------------------------------------------------------
(* Transactions: the handler and its jobs.                                 *)
(*                                                                         *)
(* In any order of jobs: a control statement somebody awaits is the top    *)
(* scope's and the only one; one that nobody awaits is of a scope that was *)
(* cut; a statement of the outer handle was issued outside any scope.      *)

InControl == {"begin", "commit", "rollback", "undo"}

\* The control statement a phase waits for.
Serves(kind, p) == IF p = "undo" THEN kind = "rollback" ELSE kind = p

StackInv ==
  /\ flag <=> stack # <<>> \/ uncollected # {}
  /\ alive \subseteq ToSet(stack) \cup uncollected
  /\ uncollected # {} => stack = <<>> /\ awaited = <<>>
  /\ \A i, k \in DOMAIN stack : stack[i] = stack[k] => i = k
  /\ \A i \in DOMAIN stack :
       phase[stack[i]] \in (IF i = Len(stack) THEN InControl \cup {"body"} ELSE {"body"})
  /\ \A s \in Scopes : phase[s] \in InControl \cup {"body"} => \E i \in DOMAIN stack : stack[i] = s
  /\ awaited # <<>> /\ stack # <<>> => phase[Top] = "body"
  /\ answer # "none" => stack # <<>> /\ phase[Top] \in InControl

StatementInv(j) ==
  /\ j.of \in Writes /\ result[j.of] = "sent"
  /\ j.outer <=> path[j.of] = <<>>
  /\ j.live => path[j.of] = stack /\ j.of \in ToSet(awaited)

ControlInv(j) ==
  /\ j.of \in Scopes
  /\ j.outer <=> j.kind = "begin" /\ name[j.of] = Begin
  /\ j.live => stack # <<>> /\ j.of = Top /\ Serves(j.kind, phase[Top]) /\ answer = "none"
  /\ ~j.live => phase[j.of] = "cut"

JobInv(j) == IF j.kind = "statement" THEN StatementInv(j) ELSE ControlInv(j)

\* Two jobs are two statements, or at most one of them is a control statement in use.
Apart(a, b) ==
  /\ a.kind = "statement" /\ b.kind = "statement" => a.of # b.of
  /\ a.kind # "statement" /\ b.kind # "statement" => ~(a.live /\ b.live)

JobsInv ==
  /\ \A i \in DOMAIN dbJobs : JobInv(dbJobs[i])
  /\ \A i, k \in DOMAIN dbJobs : i < k /\ ~dbJobs[k].live => ~dbJobs[i].live
  /\ \A i, k \in DOMAIN dbJobs : i # k => Apart(dbJobs[i], dbJobs[k])

\* Where a statement was issued: the scopes below a scope are always the same ones.
PathInv(w) ==
  \A k \in DOMAIN path[w] :
    /\ phase[path[w][k]] \notin {"unused", "begin"}
    /\ name[path[w][k]] = Begin <=> k = 1
    /\ \A m \in DOMAIN path[w] : path[w][m] = path[w][k] => m = k
    /\ \A m \in DOMAIN stack :
         path[w][k] = stack[m] => k = m /\ \A n \in 1..k : path[w][n] = stack[n]

\* As long as nothing was cut, the outermost scope finds and leaves the connection in
\* autocommit mode.
CalmInv ==
  (\A s \in Scopes : phase[s] # "cut") =>
    /\ stack = <<>> => frames = <<>>
    /\ Len(stack) = 1 =>
         /\ phase[Top] = "begin" /\ answer # "ok" => frames = <<>>
         /\ phase[Top] = "commit" /\ answer = "ok" => frames = <<>>
         /\ phase[Top] \in {"rollback", "undo"} /\ answer # "none" => frames = <<>>

ConnectionInv ==
  /\ TypeOK /\ StackInv /\ JobsInv /\ CalmInv /\ OuterStandsAlone
  /\ \A w \in Writes : PathInv(w)

-----------------------------------------------------------------------------
(* Transactions: what the connection holds, while no job overtakes one     *)
(* that nobody awaits.                                                     *)

\* The control statement the top scope awaits has taken it off the connection, or failed
\* to put it there.
TopIsOff ==
  \/ phase[Top] = "begin" /\ answer # "ok"
  \/ phase[Top] = "commit" /\ answer = "ok"
  \/ phase[Top] \in {"rollback", "undo"} /\ answer # "none"

\* How many scopes of the stack the connection has a frame for.
Depth == IF stack = <<>> THEN 0 ELSE IF TopIsOff THEN Len(stack) - 1 ELSE Len(stack)

\* The outermost scope's BEGIN has run.
HasBegun == stack # <<>> /\ ~(Len(stack) = 1 /\ phase[Top] = "begin" /\ answer # "ok")

Released(s) == phase[s] = "committed" \/ (stack # <<>> /\ s = Top /\ phase[s] = "commit" /\ answer = "ok")

\* The rows in the frame of the i-th scope: its own, and those of the inner scopes that
\* were released into it.
RowsAt(i) ==
  {w \in Writes :
     /\ result[w] = "ok" /\ i <= Len(path[w]) /\ path[w][i] = stack[i]
     /\ \A k \in (i + 1)..Len(path[w]) : Released(path[w][k])}

Aligned ==
  /\ Len(frames) = Depth
  /\ \A i \in 1..Depth : frames[i].name = name[stack[i]] /\ frames[i].rows = RowsAt(i)

IsInner(i) == ~dbJobs[i].outer
IsCommit(i) == dbJobs[i].kind = "commit" /\ name[dbJobs[i].of] = Begin

\* Jobs of the scopes come before those of the outer handle, and a control statement is
\* the last of its scopes.
QueueInv ==
  /\ \A i, k \in DOMAIN dbJobs : i < k /\ IsInner(k) => IsInner(i) /\ dbJobs[i].kind = "statement"
  /\ HasBegun => \A i \in DOMAIN dbJobs :
       /\ IsInner(i)
       /\ dbJobs[i].kind = "statement" =>
            /\ Len(path[dbJobs[i].of]) = Depth
            /\ \A k \in 1..Depth : path[dbJobs[i].of][k] = stack[k]
       /\ dbJobs[i].kind # "statement" => dbJobs[i].live
  /\ \A i, k \in DOMAIN dbJobs :
       IsCommit(i) /\ dbJobs[k].kind = "statement" /\ IsInner(k) => Len(path[dbJobs[k].of]) = 1

\* The connection is in a transaction of o, or in none.
Mine(o) ==
  /\ Rows(frames) \subseteq RowsOf(o)
  /\ \A i \in DOMAIN dbJobs : dbJobs[i].kind = "statement" /\ IsInner(i) => path[dbJobs[i].of][1] = o
  /\ \A i \in DOMAIN dbJobs : IsCommit(i) => dbJobs[i].of = o
  /\ HasBegun => stack[1] = o

\* Unless SQLite ended it, the connection holds what the scopes of o expect.
Sound(o) ==
  /\ (\E i \in DOMAIN dbJobs : IsInner(i)) => frames # <<>>
  /\ \A i \in DOMAIN frames : frames[i].name = Begin <=> i = 1
  /\ HasBegun => Aligned
  /\ (\E i \in DOMAIN dbJobs : IsCommit(i)) => Len(frames) = 1 /\ frames[1].rows = Kept(o)

Owned(o) == Mine(o) /\ (o \notin aborted => Sound(o))

NoneLeft(s) == \A i \in DOMAIN dbJobs : dbJobs[i].kind = "statement" => dbJobs[i].of \notin RowsOf(s)

\* What the database has of the transaction s.
WrittenInv(s) ==
  LET written == RowsOf(s) \cap db
      whole == written = Kept(s) /\ NoneLeft(s)
  IN  /\ phase[s] = "committed" => whole
      /\ phase[s] = "commit" => IF answer = "ok" THEN whole ELSE written = {}
      /\ phase[s] = "cut" => \/ written = {}
                             \/ whole /\ \A i \in DOMAIN dbJobs : ~(IsCommit(i) /\ dbJobs[i].of = s)
      /\ phase[s] \notin {"committed", "commit", "cut"} => written = {}

Owners == Scopes \cup {"nobody"}

OrderInv ==
  ~overtaken =>
    /\ QueueInv
    /\ \E o \in Owners : Owned(o)
    /\ \A s \in Scopes \ aborted : WrittenInv(s)

\* Only a statement that succeeded has a row anywhere.
LandedInv == \A w \in db \cup Rows(frames) : result[w] = "ok"

RowsInv == ConnectionInv /\ LandedInv /\ OrderInv

-----------------------------------------------------------------------------
(* Sequences of jobs *)

JobRecords ==
  [kind : {"statement", "begin", "commit", "rollback"}, outer : BOOLEAN, of : Writes \cup Scopes, live : BOOLEAN]

\* Where the k-th of the rest was before the i-th left.
Was(i, k) == IF k < i THEN k ELSE k + 1

LEMMA LeaveIs ==
  ASSUME dbJobs \in Seq(JobRecords), NEW i \in DOMAIN dbJobs, Leave(i)
  PROVE  /\ dbJobs' \in Seq(JobRecords) /\ Len(dbJobs') = Len(dbJobs) - 1
         /\ \A k \in DOMAIN dbJobs' : /\ Was(i, k) \in DOMAIN dbJobs /\ Was(i, k) # i
                                      /\ dbJobs'[k] = dbJobs[Was(i, k)]
         /\ \A k, m \in DOMAIN dbJobs' : k < m => Was(i, k) < Was(i, m)
         /\ \A k, m \in DOMAIN dbJobs' : k # m => Was(i, k) # Was(i, m)
         /\ overtaken' = (overtaken \/ \E k \in 1..(i - 1) : ~dbJobs[k].live)
<1> DEFINE a == SubSeq(dbJobs, 1, i - 1)
           b == SubSeq(dbJobs, i + 1, Len(dbJobs))
<1>1. i \in Nat /\ 1 <= i /\ i <= Len(dbJobs) /\ Len(dbJobs) \in Nat /\ DOMAIN dbJobs = 1..Len(dbJobs)
  OBVIOUS
<1>2. a \in Seq(JobRecords) /\ Len(a) = i - 1 /\ \A k \in 1..(i - 1) : a[k] = dbJobs[k]
  BY <1>1
<1>3. b \in Seq(JobRecords) /\ Len(b) = Len(dbJobs) - i /\ \A k \in 1..(Len(dbJobs) - i) : b[k] = dbJobs[k + i]
  BY <1>1
<1>4. dbJobs' = a \o b
  BY DEF Leave, RemoveAt
<1> HIDE DEF a, b
<1>5. /\ dbJobs' \in Seq(JobRecords) /\ Len(dbJobs') = Len(dbJobs) - 1
      /\ \A k \in 1..(Len(dbJobs) - 1) : dbJobs'[k] = IF k < i THEN a[k] ELSE b[k - (i - 1)]
  <2>1. /\ a \o b \in Seq(JobRecords) /\ Len(a \o b) = Len(a) + Len(b)
        /\ \A k \in 1..(Len(a) + Len(b)) : (a \o b)[k] = IF k <= Len(a) THEN a[k] ELSE b[k - Len(a)]
    BY <1>2, <1>3
  <2>2. Len(a) + Len(b) = Len(dbJobs) - 1 /\ \A k \in Nat : k <= Len(a) <=> k < i
    BY <1>1, <1>2, <1>3
  <2>3. \A k \in 1..(Len(dbJobs) - 1) : k \in Nat /\ k \in 1..(Len(a) + Len(b))
    BY <1>1, <2>2
  <2> QED BY <1>2, <1>4, <2>1, <2>2, <2>3
<1>6. ASSUME NEW k \in 1..(Len(dbJobs) - 1)
      PROVE  Was(i, k) \in DOMAIN dbJobs /\ Was(i, k) # i /\ dbJobs'[k] = dbJobs[Was(i, k)]
  <2>1. CASE k < i
    BY <1>1, <1>2, <1>5, <2>1 DEF Was
  <2>2. CASE ~(k < i)
    <3>1. k - (i - 1) \in 1..(Len(dbJobs) - i) /\ (k - (i - 1)) + i = k + 1
      BY <1>1, <2>2
    <3>2. dbJobs'[k] = b[k - (i - 1)] /\ b[k - (i - 1)] = dbJobs[(k - (i - 1)) + i]
      BY <1>3, <1>5, <2>2, <3>1
    <3>3. Was(i, k) = k + 1 /\ k + 1 \in 1..Len(dbJobs) /\ k + 1 # i
      BY <1>1, <2>2 DEF Was
    <3> QED BY <1>1, <3>1, <3>2, <3>3
  <2> QED BY <2>1, <2>2
<1>7. DOMAIN dbJobs' = 1..(Len(dbJobs) - 1)
  BY <1>5
<1>8. /\ \A k, m \in DOMAIN dbJobs' : k < m => Was(i, k) < Was(i, m)
      /\ \A k, m \in DOMAIN dbJobs' : k # m => Was(i, k) # Was(i, m)
  BY <1>1, <1>7 DEF Was
<1> QED BY <1>5, <1>6, <1>7, <1>8 DEF Leave

LEMMA SpawnIs ==
  ASSUME dbJobs \in Seq(JobRecords), NEW new \in JobRecords, dbJobs' = Append(dbJobs, new)
  PROVE  /\ dbJobs' \in Seq(JobRecords) /\ Len(dbJobs') = Len(dbJobs) + 1
         /\ \A k \in DOMAIN dbJobs' : k = Len(dbJobs) + 1 \/ k \in DOMAIN dbJobs
         /\ \A k \in DOMAIN dbJobs : k \in DOMAIN dbJobs' /\ dbJobs'[k] = dbJobs[k] /\ k < Len(dbJobs) + 1
         /\ Len(dbJobs) + 1 \in DOMAIN dbJobs' /\ dbJobs'[Len(dbJobs) + 1] = new
OBVIOUS

LEMMA OrphanedIs ==
  ASSUME dbJobs \in Seq(JobRecords), dbJobs' = Orphaned(dbJobs)
  PROVE  /\ dbJobs' \in Seq(JobRecords) /\ Len(dbJobs') = Len(dbJobs) /\ DOMAIN dbJobs' = DOMAIN dbJobs
         /\ \A k \in DOMAIN dbJobs : /\ dbJobs'[k].kind = dbJobs[k].kind /\ dbJobs'[k].outer = dbJobs[k].outer
                                     /\ dbJobs'[k].of = dbJobs[k].of /\ dbJobs'[k].live = FALSE
<1>1. DOMAIN dbJobs = 1..Len(dbJobs) /\ Len(dbJobs) \in Nat /\ \A k \in DOMAIN dbJobs : dbJobs[k] \in JobRecords
  OBVIOUS
<1>2. dbJobs' = [k \in 1..Len(dbJobs) |-> [dbJobs[k] EXCEPT !.live = FALSE]]
  BY <1>1 DEF Orphaned
<1>3. ASSUME NEW j \in JobRecords
      PROVE  LET new == [j EXCEPT !.live = FALSE]
             IN  /\ new \in JobRecords /\ new.kind = j.kind /\ new.outer = j.outer /\ new.of = j.of
                 /\ new.live = FALSE
  BY DEF JobRecords
<1>4. \A k \in 1..Len(dbJobs) : [dbJobs[k] EXCEPT !.live = FALSE] \in JobRecords
  BY <1>1, <1>3
<1>5. dbJobs' \in Seq(JobRecords) /\ Len(dbJobs') = Len(dbJobs) /\ DOMAIN dbJobs' = DOMAIN dbJobs
  BY <1>1, <1>2, <1>4
<1>6. \A k \in DOMAIN dbJobs : dbJobs'[k] = [dbJobs[k] EXCEPT !.live = FALSE]
  BY <1>1, <1>2
<1>7. ASSUME NEW k \in DOMAIN dbJobs
      PROVE  /\ dbJobs'[k].kind = dbJobs[k].kind /\ dbJobs'[k].outer = dbJobs[k].outer
             /\ dbJobs'[k].of = dbJobs[k].of /\ dbJobs'[k].live = FALSE
  <2>1. PICK j \in JobRecords : dbJobs[k] = j
    BY <1>1
  <2>2. dbJobs'[k] = [j EXCEPT !.live = FALSE]
    BY <1>6, <2>1
  <2> QED BY <1>3, <2>1, <2>2
<1> QED BY <1>5, <1>7

LEMMA IssueIs ==
  ASSUME dbJobs \in Seq(JobRecords), NEW b \in Seq(Writes), NEW outer \in BOOLEAN, Issue(b, outer)
  PROVE  /\ dbJobs' \in Seq(JobRecords) /\ Len(dbJobs') = Len(dbJobs) + Len(b)
         /\ \A k \in DOMAIN dbJobs : k \in DOMAIN dbJobs' /\ dbJobs'[k] = dbJobs[k] /\ k <= Len(dbJobs)
         /\ \A k \in DOMAIN dbJobs' : k \notin DOMAIN dbJobs =>
              /\ k - Len(dbJobs) \in DOMAIN b /\ k > Len(dbJobs)
              /\ dbJobs'[k] = Job("statement", outer, b[k - Len(dbJobs)])
<1> DEFINE new == [i \in DOMAIN b |-> Job("statement", outer, b[i])]
<1>1. \A i \in DOMAIN b : Job("statement", outer, b[i]) \in JobRecords
  BY DEF Job, JobRecords
<1>2. new \in Seq(JobRecords) /\ Len(new) = Len(b) /\ \A i \in DOMAIN b : new[i] = Job("statement", outer, b[i])
  BY <1>1
<1>3. dbJobs' = dbJobs \o new
  BY DEF Issue
<1>4. DOMAIN b = 1..Len(b) /\ DOMAIN dbJobs = 1..Len(dbJobs) /\ Len(b) \in Nat /\ Len(dbJobs) \in Nat
  OBVIOUS
<1> HIDE DEF new
<1>5. /\ dbJobs' \in Seq(JobRecords) /\ Len(dbJobs') = Len(dbJobs) + Len(b)
      /\ \A k \in 1..Len(dbJobs) : dbJobs'[k] = dbJobs[k]
      /\ \A k \in (Len(dbJobs) + 1)..(Len(dbJobs) + Len(b)) : dbJobs'[k] = new[k - Len(dbJobs)]
  BY <1>2, <1>3, <1>4
<1>6. DOMAIN dbJobs' = 1..(Len(dbJobs) + Len(b))
  BY <1>5
<1>7. ASSUME NEW k \in DOMAIN dbJobs', k \notin DOMAIN dbJobs
      PROVE  k - Len(dbJobs) \in DOMAIN b /\ k > Len(dbJobs) /\ dbJobs'[k] = new[k - Len(dbJobs)]
  <2>1. k \in (Len(dbJobs) + 1)..(Len(dbJobs) + Len(b)) /\ k - Len(dbJobs) \in 1..Len(b) /\ k > Len(dbJobs)
    BY <1>4, <1>6, <1>7
  <2> QED BY <1>4, <1>5, <2>1
<1>8. ASSUME NEW k \in DOMAIN dbJobs PROVE k \in DOMAIN dbJobs' /\ dbJobs'[k] = dbJobs[k] /\ k <= Len(dbJobs)
  BY <1>4, <1>5, <1>6
<1> QED BY <1>2, <1>5, <1>7, <1>8


-----------------------------------------------------------------------------
(* The connection: a job runs *)

LEMMA JobTypes ==
  ASSUME ConnectionInv
  PROVE  /\ dbJobs \in Seq(JobRecords)
         /\ \A i \in DOMAIN dbJobs : /\ dbJobs[i] \in JobRecords /\ dbJobs[i].live \in BOOLEAN
                                     /\ dbJobs[i].kind \in {"statement", "begin", "commit", "rollback"}
<1>1. dbJobs \in Seq(JobRecords)
  BY DEF ConnectionInv, TypeOK, JobRecords
<1>2. \A i \in DOMAIN dbJobs : dbJobs[i] \in JobRecords
  BY <1>1
<1> QED BY <1>1, <1>2 DEF JobRecords

\* A control statement that is awaited.
LEMMA LiveControl ==
  ASSUME ConnectionInv, NEW i \in DOMAIN dbJobs, dbJobs[i].kind # "statement", dbJobs[i].live
  PROVE  /\ stack # <<>> /\ dbJobs[i].of = Top /\ Serves(dbJobs[i].kind, phase[Top])
         /\ phase[Top] \in InControl /\ answer = "none" /\ awaited = <<>>
<1>1. ControlInv(dbJobs[i])
  BY DEF ConnectionInv, JobsInv, JobInv
<1>2. stack # <<>> /\ dbJobs[i].of = Top /\ Serves(dbJobs[i].kind, phase[Top]) /\ answer = "none"
  BY <1>1 DEF ControlInv
<1>3. dbJobs[i].kind \in {"begin", "commit", "rollback"}
  BY JobTypes
<1>4. phase[Top] \in InControl
  BY <1>2, <1>3 DEF Serves, InControl
<1>5. awaited = <<>>
  BY <1>2, <1>4 DEF ConnectionInv, StackInv, InControl
<1> QED BY <1>2, <1>4, <1>5

\* What is left when a job has run.
LEMMA RunKeepsRest ==
  ASSUME ConnectionInv, NEW i \in DOMAIN dbJobs, Leave(i), UNCHANGED handlerVars, UNCHANGED path,
         \A w \in Writes : result'[w] = result[w] \/ (dbJobs[i].kind = "statement" /\ w = dbJobs[i].of),
         answer' = answer \/ (dbJobs[i].kind # "statement" /\ dbJobs[i].live)
  PROVE  /\ dbJobs' \in Seq(JobRecords) /\ overtaken' \in BOOLEAN
         /\ StackInv' /\ JobsInv' /\ \A w \in Writes : PathInv(w)'
<1>1. /\ flag' = flag /\ alive' = alive /\ uncollected' = uncollected /\ stack' = stack /\ phase' = phase /\ name' = name
      /\ awaited' = awaited /\ path' = path
  BY DEF handlerVars
<1>2. /\ dbJobs' \in Seq(JobRecords)
      /\ \A k \in DOMAIN dbJobs' : /\ Was(i, k) \in DOMAIN dbJobs /\ Was(i, k) # i
                                   /\ dbJobs'[k] = dbJobs[Was(i, k)]
      /\ \A k, m \in DOMAIN dbJobs' : k < m => Was(i, k) < Was(i, m)
      /\ \A k, m \in DOMAIN dbJobs' : k # m => Was(i, k) # Was(i, m)
      /\ overtaken' \in BOOLEAN
  BY JobTypes, LeaveIs DEF ConnectionInv, TypeOK
<1>3. StackInv'
  <2>1. answer' # "none" => stack # <<>> /\ phase[Top] \in InControl
    BY LiveControl DEF ConnectionInv, StackInv
  <2> QED BY <1>1, <2>1 DEF ConnectionInv, StackInv, Top
<1>4. ASSUME NEW k \in DOMAIN dbJobs' PROVE JobInv(dbJobs[k])'
  <2> DEFINE m == Was(i, k)
             j == dbJobs[m]
  <2>1. m \in DOMAIN dbJobs /\ m # i /\ dbJobs'[k] = j
    BY <1>2
  <2>2. JobInv(j) /\ Apart(dbJobs[i], j)
    BY <2>1 DEF ConnectionInv, JobsInv
  <2> HIDE DEF m
  <2>3. CASE j.kind = "statement"
    <3>1. StatementInv(j) /\ (dbJobs[i].kind = "statement" => dbJobs[i].of # j.of)
      BY <2>2, <2>3 DEF JobInv, Apart
    <3>2. result'[j.of] = "sent"
      BY <3>1 DEF StatementInv
    <3> HIDE DEF j
    <3> QED BY <1>1, <2>1, <2>3, <3>1, <3>2 DEF JobInv, StatementInv
  <2>4. CASE j.kind # "statement"
    <3>1. ControlInv(j) /\ (j.live => answer' = answer)
      BY <2>2, <2>4 DEF JobInv, Apart
    <3> HIDE DEF j
    <3> QED BY <1>1, <2>1, <2>4, <3>1 DEF JobInv, ControlInv, Top
  <2> QED BY <2>3, <2>4
<1>5. \A k, m \in DOMAIN dbJobs' : k < m /\ ~dbJobs'[m].live => ~dbJobs'[k].live
  BY <1>2 DEF ConnectionInv, JobsInv
<1>6. \A k, m \in DOMAIN dbJobs' : k # m => Apart(dbJobs'[k], dbJobs'[m])
  BY <1>2 DEF ConnectionInv, JobsInv
<1>7. JobsInv'
  BY <1>4, <1>5, <1>6 DEF JobsInv, Apart
<1>8. \A w \in Writes : PathInv(w)'
  BY <1>1 DEF ConnectionInv, PathInv
<1> QED BY <1>2, <1>3, <1>7, <1>8

\* The rest of the types.
LEMMA RunTypes ==
  ASSUME ConnectionInv, UNCHANGED handlerVars, UNCHANGED path, dbJobs' \in Seq(JobRecords),
         overtaken' \in BOOLEAN, answer' \in {"none", "ok", "failed"},
         frames' \in Seq([name : Nat \cup {Begin}, rows : SUBSET Writes]), db' \subseteq Writes,
         result' \in [Writes -> {"unissued", "sent", "ok", "failed"}], aborted' \subseteq Scopes
  PROVE  TypeOK'
BY DEF ConnectionInv, TypeOK, JobRecords, handlerVars

Frames == [name : Nat \cup {Begin}, rows : SUBSET Writes]

LEMMA RowsTyped ==
  ASSUME NEW fs \in Seq(Frames)
  PROVE  Rows(fs) \subseteq Writes
<1>1. \A i \in DOMAIN fs : fs[i] \in Frames
  OBVIOUS
<1>2. \A i \in DOMAIN fs : fs[i].rows \subseteq Writes
  BY <1>1 DEF Frames
<1> QED BY <1>2 DEF Rows


-----------------------------------------------------------------------------
(* SQLite's frames *)

LEMMA InnermostIs ==
  ASSUME NEW fs \in Seq(Frames), NEW n, Named(fs, n) # {}
  PROVE  /\ Innermost(fs, n) \in DOMAIN fs /\ fs[Innermost(fs, n)].name = n
         /\ \A k \in Named(fs, n) : k <= Innermost(fs, n)
<1> DEFINE Above == {Len(fs) - i : i \in Named(fs, n)}
<1>1. Named(fs, n) \subseteq 1..Len(fs) /\ Len(fs) \in Nat /\ DOMAIN fs = 1..Len(fs)
  BY DEF Named
<1>2. Above \in SUBSET Nat /\ Above # {}
  BY <1>1
<1>3. PICK x \in Above : \A y \in Above : x <= y
  BY <1>2, LeastNumber
<1>4. PICK i \in Named(fs, n) : x = Len(fs) - i
  BY <1>3
<1>5. ASSUME NEW k \in Named(fs, n) PROVE k <= i
  <2>1. Len(fs) - k \in Above
    OBVIOUS
  <2>2. Len(fs) - i <= Len(fs) - k
    BY <1>3, <1>4, <2>1
  <2>3. i \in Nat /\ k \in Nat
    BY <1>1
  <2> HIDE DEF Above
  <2> QED BY <1>1, <2>2, <2>3
<1>6. Innermost(fs, n) \in Named(fs, n) /\ \A k \in Named(fs, n) : k <= Innermost(fs, n)
  BY <1>5 DEF Innermost
<1> QED BY <1>6 DEF Named

LEMMA MergeIs ==
  ASSUME NEW fs \in Seq(Frames), NEW k \in DOMAIN fs, k > 1
  PROVE  /\ Merge(fs, k) \in Seq(Frames) /\ Len(Merge(fs, k)) = k - 1
         /\ \A n \in 1..(k - 1) : Merge(fs, k)[n].name = fs[n].name
         /\ \A n \in 1..(k - 2) : Merge(fs, k)[n].rows = fs[n].rows
         /\ Merge(fs, k)[k - 1].rows = fs[k - 1].rows \cup Rows(SubSeq(fs, k, Len(fs)))
<1> DEFINE below == SubSeq(fs, 1, k - 2)
           above == SubSeq(fs, k, Len(fs))
           f == fs[k - 1]
           new == [f EXCEPT !.rows = f.rows \cup Rows(above)]
<1>1. k \in Nat /\ 1 < k /\ k <= Len(fs) /\ Len(fs) \in Nat /\ k - 1 \in DOMAIN fs
  OBVIOUS
<1>2. above \in Seq(Frames) /\ f \in Frames
  BY <1>1
<1>3. Rows(above) \subseteq Writes
  BY <1>2, RowsTyped
<1>4. Merge(fs, k) = Append(below, new)
  BY DEF Merge
<1>5. below \in Seq(Frames) /\ Len(below) = k - 2 /\ \A n \in 1..(k - 2) : below[n] = fs[n]
  BY <1>1
<1>6. new \in Frames /\ new.name = f.name /\ new.rows = f.rows \cup Rows(above)
  <2> HIDE DEF f, above
  <2> QED BY <1>2, <1>3 DEF Frames
<1> HIDE DEF below, new
<1>7. /\ Append(below, new) \in Seq(Frames) /\ Len(Append(below, new)) = k - 1
      /\ \A n \in 1..(k - 2) : Append(below, new)[n] = fs[n]
      /\ Append(below, new)[k - 1] = new
  BY <1>1, <1>5, <1>6
<1>8. \A n \in 1..(k - 1) : n = k - 1 \/ n \in 1..(k - 2)
  BY <1>1
<1> QED BY <1>4, <1>6, <1>7, <1>8

-----------------------------------------------------------------------------
(* The connection: each kind of job *)

LEMMA FramesTyped ==
  ASSUME ConnectionInv
  PROVE  frames \in Seq(Frames) /\ db \subseteq Writes /\ Rows(frames) \subseteq Writes
BY RowsTyped DEF ConnectionInv, TypeOK, Frames

\* A step of the connection that opens no transaction for the outermost scope.
LEMMA CalmRun ==
  ASSUME ConnectionInv, UNCHANGED handlerVars,
         \/ answer' = answer /\ (frames = <<>> => frames' = <<>>)
         \/ frames' = <<>>
         \/ stack # <<>> /\ Len(stack) # 1
         \/ \E s \in Scopes : phase[s] = "cut"
  PROVE  CalmInv'
BY DEF ConnectionInv, CalmInv, handlerVars, Top

LEMMA RunStatementConnection ==
  ASSUME ConnectionInv, NEW i \in DOMAIN dbJobs, RunStatement(i)
  PROVE  ConnectionInv'
<1> DEFINE j == dbJobs[i]
           fs == Entry(j)
           f == fs[Len(fs)]
<1>1. j.kind = "statement" /\ Leave(i) /\ UNCHANGED handlerVars /\ UNCHANGED <<answer, path>>
  BY DEF RunStatement
<1>2. /\ j.of \in Writes /\ result[j.of] = "sent" /\ (j.outer <=> path[j.of] = <<>>)
  BY <1>1 DEF ConnectionInv, JobsInv, JobInv, StatementInv
<1>3. frames \in Seq(Frames) /\ db \subseteq Writes
  BY FramesTyped
<1>4. fs \in Seq(Frames) /\ (frames = <<>> => fs = <<>>) /\ (j.outer => fs = <<>>)
  BY <1>3 DEF Entry
<1>5. \/ /\ result' = [result EXCEPT ![j.of] = "ok"] /\ aborted' = aborted
         /\ IF fs = <<>> THEN frames' = <<>> /\ db' = db \cup {j.of}
            ELSE frames' = [fs EXCEPT ![Len(fs)].rows = f.rows \cup {j.of}] /\ db' = db
      \/ /\ result' = [result EXCEPT ![j.of] = "failed"] /\ db' = db
         /\ frames' \in {fs, <<>>}
         /\ aborted' = aborted \/ aborted' = aborted \cup ToSet(path[j.of])
  BY DEF RunStatement
<1>6. result \in [Writes -> {"unissued", "sent", "ok", "failed"}] /\ aborted \subseteq Scopes /\ path \in [Writes -> Seq(Scopes)]
  BY DEF ConnectionInv, TypeOK
<1>7. /\ result' \in [Writes -> {"unissued", "sent", "ok", "failed"}]
      /\ \A w \in Writes : w # j.of => result'[w] = result[w]
      /\ result'[j.of] = "ok" => path[j.of] # <<>> \/ j.of \in db'
  BY <1>2, <1>4, <1>5, <1>6
<1>8. aborted' \subseteq Scopes
  <2>1. ToSet(path[j.of]) \subseteq Scopes
    BY <1>2, <1>6 DEF ToSet
  <2> QED BY <1>5, <1>6, <2>1
<1>9. frames' \in Seq(Frames) /\ db' \subseteq Writes /\ db \subseteq db' /\ (frames = <<>> => frames' = <<>>)
  <2>1. CASE fs # <<>> /\ frames' = [fs EXCEPT ![Len(fs)].rows = f.rows \cup {j.of}] /\ db' = db
    <3> DEFINE g == [f EXCEPT !.rows = f.rows \cup {j.of}]
    <3>1. Len(fs) \in DOMAIN fs /\ f \in Frames
      BY <1>4, <2>1
    <3>2. frames' = [fs EXCEPT ![Len(fs)] = g]
      BY <2>1
    <3>3. g \in Frames
      <4> HIDE DEF f
      <4> QED BY <1>2, <3>1 DEF Frames
    <3> HIDE DEF g, fs
    <3>4. frames' \in Seq(Frames)
      BY <1>4, <3>1, <3>2, <3>3
    <3> QED BY <1>3, <1>4, <2>1, <3>4
  <2>2. CASE frames' \in {fs, <<>>} /\ db' \in {db, db \cup {j.of}}
    <3>1. <<>> \in Seq(Frames)
      OBVIOUS
    <3> HIDE DEF j, fs, f
    <3>2. frames' \in Seq(Frames) /\ (frames = <<>> => frames' = <<>>)
      BY <1>4, <2>2, <3>1
    <3> QED BY <1>2, <1>3, <2>2, <3>2
  <2> QED BY <1>5, <2>1, <2>2
<1>10. answer' \in {"none", "ok", "failed"}
  BY <1>1 DEF ConnectionInv, TypeOK
<1> HIDE DEF j
<1>11. dbJobs' \in Seq(JobRecords) /\ overtaken' \in BOOLEAN /\ StackInv' /\ JobsInv' /\ \A w \in Writes : PathInv(w)'
  <2>1. \A w \in Writes : result'[w] = result[w] \/ (dbJobs[i].kind = "statement" /\ w = dbJobs[i].of)
    BY <1>1, <1>7 DEF j
  <2> QED BY <1>1, <2>1, RunKeepsRest
<1>12. TypeOK'
  BY <1>1, <1>7, <1>8, <1>9, <1>10, <1>11, RunTypes DEF Frames
<1>13. CalmInv'
  BY <1>1, <1>9, CalmRun
<1>14. OuterStandsAlone'
  <2>1. path' = path
    BY <1>1
  <2> QED BY <1>7, <1>9, <2>1 DEF ConnectionInv, OuterStandsAlone
<1> QED BY <1>11, <1>12, <1>13, <1>14 DEF ConnectionInv


\* A control statement that runs.
LEMMA RunControl ==
  ASSUME ConnectionInv, NEW i \in DOMAIN dbJobs, dbJobs[i].kind # "statement", Leave(i), UNCHANGED handlerVars,
         UNCHANGED <<result, path>>, aborted' \subseteq Scopes, NEW a \in {"ok", "failed"}, Reply(dbJobs[i], a),
         frames' \in Seq(Frames), db' \subseteq Writes, db \subseteq db', CalmInv'
  PROVE  ConnectionInv'
<1>1. answer' = answer \/ dbJobs[i].live
  BY DEF Reply
<1>2. answer' \in {"none", "ok", "failed"}
  BY DEF Reply, ConnectionInv, TypeOK
<1>3. dbJobs' \in Seq(JobRecords) /\ overtaken' \in BOOLEAN /\ StackInv' /\ JobsInv' /\ \A w \in Writes : PathInv(w)'
  BY <1>1, RunKeepsRest
<1>4. result' \in [Writes -> {"unissued", "sent", "ok", "failed"}]
  BY DEF ConnectionInv, TypeOK
<1>5. TypeOK'
  BY <1>2, <1>3, <1>4, RunTypes DEF Frames
<1>6. OuterStandsAlone'
  BY DEF ConnectionInv, OuterStandsAlone
<1> QED BY <1>3, <1>5, <1>6 DEF ConnectionInv

\* A control statement and its scope: cut, or the top one and waiting.
LEMMA ControlScope ==
  ASSUME ConnectionInv, NEW i \in DOMAIN dbJobs, dbJobs[i].kind # "statement"
  PROVE  /\ dbJobs[i].of \in Scopes /\ name[dbJobs[i].of] \in Nat \cup {Begin}
         /\ dbJobs[i].outer <=> dbJobs[i].kind = "begin" /\ name[dbJobs[i].of] = Begin
         /\ ~dbJobs[i].live => phase[dbJobs[i].of] = "cut"
         /\ dbJobs[i].live => (name[dbJobs[i].of] = Begin <=> Len(stack) = 1)
<1>1. ControlInv(dbJobs[i])
  BY DEF ConnectionInv, JobsInv, JobInv
<1>2. /\ stack \in Seq(Scopes) /\ name \in [Scopes -> Nat \cup {Begin}]
      /\ \A k \in DOMAIN stack : name[stack[k]] = Begin <=> k = 1
  BY DEF ConnectionInv, TypeOK
<1>3. dbJobs[i].live => (name[dbJobs[i].of] = Begin <=> Len(stack) = 1)
  <2> SUFFICES ASSUME dbJobs[i].live PROVE name[dbJobs[i].of] = Begin <=> Len(stack) = 1
    OBVIOUS
  <2>1. stack # <<>> /\ dbJobs[i].of = Top
    BY LiveControl
  <2>2. Len(stack) \in DOMAIN stack
    BY <1>2, <2>1
  <2> QED BY <1>2, <2>1, <2>2 DEF Top, Last
<1> QED BY <1>1, <1>2, <1>3 DEF ControlInv

LEMMA RunBeginConnection ==
  ASSUME ConnectionInv, NEW i \in DOMAIN dbJobs, RunBegin(i)
  PROVE  ConnectionInv'
<1> DEFINE j == dbJobs[i]
           fs == Entry(j)
           n == name[j.of]
<1>1. /\ j.kind = "begin" /\ Leave(i) /\ UNCHANGED handlerVars /\ UNCHANGED <<db, result, path, aborted>>
      /\ \/ frames' = Append(fs, Frame(n)) /\ Reply(j, "ok")
         \/ frames' = fs /\ Reply(j, "failed")
  BY DEF RunBegin
<1>2. frames \in Seq(Frames) /\ db \subseteq Writes /\ aborted \subseteq Scopes
  BY FramesTyped DEF ConnectionInv, TypeOK
<1>3. j.of \in Scopes /\ n \in Nat \cup {Begin}
  BY <1>1, ControlScope
<1>4. fs \in Seq(Frames) /\ Frame(n) \in Frames
  BY <1>2, <1>3 DEF Entry, Frame, Frames
<1>5. frames' \in Seq(Frames)
  <2> HIDE DEF fs, n
  <2> QED BY <1>1, <1>4
<1>6. CalmInv'
  <2>1. CASE ~j.live
    <3>1. phase[j.of] = "cut"
      BY <1>1, <2>1, ControlScope
    <3> QED BY <1>1, <1>3, <3>1, CalmRun
  <2>2. CASE j.live
    <3>1. stack # <<>> /\ phase[Top] = "begin" /\ answer = "none"
      BY <1>1, <2>2, LiveControl DEF Serves
    <3>2. CASE Len(stack) # 1
      BY <1>1, <3>1, <3>2, CalmRun
    <3>3. CASE Len(stack) = 1 /\ answer' = "ok"
      BY <1>1, <3>1, <3>3 DEF CalmInv, handlerVars, Top
    <3>4. CASE Len(stack) = 1 /\ answer' # "ok"
      <4>1. frames' = fs
        BY <1>1, <2>2, <3>4 DEF Reply
      <4>2. frames = <<>> => fs = <<>>
        BY DEF Entry
      <4> HIDE DEF fs
      <4> QED BY <1>1, <3>1, <3>4, <4>1, <4>2 DEF CalmInv, ConnectionInv, handlerVars, Top
    <3> QED BY <3>2, <3>3, <3>4
  <2> QED BY <2>1, <2>2
<1>7. PICK a \in {"ok", "failed"} : Reply(j, a)
  BY <1>1
<1> QED BY <1>1, <1>2, <1>5, <1>6, <1>7, RunControl

LEMMA RunCommitConnection ==
  ASSUME ConnectionInv, NEW i \in DOMAIN dbJobs, RunCommit(i)
  PROVE  ConnectionInv'
<1> DEFINE j == dbJobs[i]
<1>1. /\ j.kind = "commit" /\ Leave(i) /\ UNCHANGED handlerVars /\ UNCHANGED <<result, path>> /\ name[j.of] = Begin
      /\ \/ frames' = <<>> /\ db' = db \cup Rows(frames) /\ Reply(j, "ok") /\ aborted' = aborted
         \/ UNCHANGED <<frames, db, aborted>> /\ Reply(j, "failed")
         \/ frames' = <<>> /\ db' = db /\ Reply(j, "failed") /\ aborted' = aborted \cup {j.of}
  BY DEF RunCommit, sqliteVars
<1>2. frames \in Seq(Frames) /\ db \subseteq Writes /\ Rows(frames) \subseteq Writes /\ aborted \subseteq Scopes
  BY FramesTyped DEF ConnectionInv, TypeOK
<1>3. j.of \in Scopes
  BY <1>1, ControlScope
<1>4. <<>> \in Seq(Frames)
  OBVIOUS
<1>5. frames' \in Seq(Frames) /\ db' \subseteq Writes /\ db \subseteq db' /\ aborted' \subseteq Scopes
  <2> HIDE DEF j
  <2> QED BY <1>1, <1>2, <1>3, <1>4
<1>6. CalmInv'
  <2>1. CASE frames' = <<>>
    BY <1>1, <2>1, CalmRun
  <2>2. CASE UNCHANGED frames /\ Reply(j, "failed") /\ ~j.live
    <3>1. answer' = answer
      BY <2>2 DEF Reply
    <3> QED BY <1>1, <2>2, <3>1, CalmRun
  <2>3. CASE UNCHANGED frames /\ Reply(j, "failed") /\ j.live
    <3>1. stack # <<>> /\ phase[Top] = "commit" /\ answer' = "failed"
      BY <1>1, <2>3, LiveControl DEF Serves, Reply
    <3> QED BY <1>1, <3>1 DEF CalmInv, handlerVars, Top
  <2> QED BY <1>1, <2>1, <2>2, <2>3
<1>7. PICK a \in {"ok", "failed"} : Reply(j, a)
  BY <1>1
<1> QED BY <1>1, <1>5, <1>6, <1>7, RunControl

\* The control statements of an inner scope say nothing of the outermost one.
LEMMA InnerCalm ==
  ASSUME ConnectionInv, NEW i \in DOMAIN dbJobs, dbJobs[i].kind # "statement", name[dbJobs[i].of] # Begin,
         UNCHANGED handlerVars
  PROVE  CalmInv'
<1>1. CASE ~dbJobs[i].live
  BY <1>1, ControlScope, CalmRun
<1>2. CASE dbJobs[i].live
  BY <1>2, ControlScope, LiveControl, CalmRun
<1> QED BY <1>1, <1>2

LEMMA RunReleaseConnection ==
  ASSUME ConnectionInv, NEW i \in DOMAIN dbJobs, RunRelease(i)
  PROVE  ConnectionInv'
<1> DEFINE j == dbJobs[i]
           k == Innermost(frames, name[j.of])
<1>1. /\ j.kind = "commit" /\ Leave(i) /\ UNCHANGED handlerVars /\ UNCHANGED <<result, path, aborted>>
      /\ name[j.of] # Begin
      /\ \/ /\ Named(frames, name[j.of]) # {} /\ k > 1 /\ frames' = Merge(frames, k) /\ Reply(j, "ok") /\ db' = db
         \/ frames' = <<>> /\ db' = db \cup Rows(frames) /\ Reply(j, "ok")
         \/ UNCHANGED <<frames, db>> /\ Reply(j, "failed")
  BY DEF RunRelease, sqliteVars
<1>2. frames \in Seq(Frames) /\ db \subseteq Writes /\ Rows(frames) \subseteq Writes /\ aborted \subseteq Scopes
  BY FramesTyped DEF ConnectionInv, TypeOK
<1>3. Named(frames, name[j.of]) # {} /\ k > 1 => Merge(frames, k) \in Seq(Frames)
  BY <1>2, InnermostIs, MergeIs
<1>4. <<>> \in Seq(Frames)
  OBVIOUS
<1>5. frames' \in Seq(Frames) /\ db' \subseteq Writes /\ db \subseteq db' /\ aborted' \subseteq Scopes
  <2> HIDE DEF j, k
  <2> QED BY <1>1, <1>2, <1>3, <1>4
<1>6. PICK a \in {"ok", "failed"} : Reply(j, a)
  BY <1>1
<1> QED BY <1>1, <1>5, <1>6, InnerCalm, RunControl

LEMMA RunRollbackConnection ==
  ASSUME ConnectionInv, NEW i \in DOMAIN dbJobs, RunRollback(i)
  PROVE  ConnectionInv'
<1>1. /\ dbJobs[i].kind = "rollback" /\ Leave(i) /\ UNCHANGED handlerVars /\ UNCHANGED <<result, path, aborted, db>>
      /\ frames' = <<>> /\ Reply(dbJobs[i], "ok")
  BY DEF RunRollback
<1>2. db \subseteq Writes /\ aborted \subseteq Scopes /\ <<>> \in Seq(Frames)
  BY DEF ConnectionInv, TypeOK
<1>3. CalmInv'
  BY <1>1, CalmRun
<1> QED BY <1>1, <1>2, <1>3, RunControl

LEMMA RunRollbackToConnection ==
  ASSUME ConnectionInv, NEW i \in DOMAIN dbJobs, RunRollbackTo(i)
  PROVE  ConnectionInv'
<1> DEFINE j == dbJobs[i]
           k == Innermost(frames, name[j.of])
<1>1. /\ j.kind = "rollback" /\ Leave(i) /\ UNCHANGED handlerVars /\ UNCHANGED <<result, path, aborted, db>>
      /\ name[j.of] # Begin
      /\ \/ frames' = frames /\ Reply(j, "failed")
         \/ Named(frames, name[j.of]) # {} /\ frames' = SubSeq(frames, 1, k - 1) /\ Reply(j, "ok")
  BY DEF RunRollbackTo
<1>2. frames \in Seq(Frames) /\ db \subseteq Writes /\ aborted \subseteq Scopes
  BY FramesTyped DEF ConnectionInv, TypeOK
<1>3. Named(frames, name[j.of]) # {} => k \in DOMAIN frames
  BY <1>2, InnermostIs
<1>4. frames' \in Seq(Frames)
  <2> HIDE DEF j, k
  <2>1. k \in DOMAIN frames => k - 1 \in 0..Len(frames)
    BY <1>2
  <2>2. k \in DOMAIN frames => SubSeq(frames, 1, k - 1) \in Seq(Frames)
    BY <1>2, <2>1
  <2> QED BY <1>1, <1>2, <1>3, <2>2
<1>5. PICK a \in {"ok", "failed"} : Reply(j, a)
  BY <1>1
<1> QED BY <1>1, <1>2, <1>4, <1>5, InnerCalm, RunControl


-----------------------------------------------------------------------------
(* The connection: the handler goes on *)

\* Nobody awaits anything.
LEMMA QuietWhen ==
  ASSUME ConnectionInv, awaited = <<>>, answer # "none" \/ stack = <<>> \/ phase[Top] = "body"
  PROVE  \A i \in DOMAIN dbJobs : ~dbJobs[i].live
<1> SUFFICES ASSUME NEW i \in DOMAIN dbJobs, dbJobs[i].live PROVE FALSE
  OBVIOUS
<1>1. CASE dbJobs[i].kind = "statement"
  <2>1. dbJobs[i].of \in ToSet(awaited)
    BY <1>1 DEF ConnectionInv, JobsInv, JobInv, StatementInv
  <2>2. ToSet(<<>>) = {}
    BY DEF ToSet
  <2> QED BY <2>1, <2>2
<1>2. CASE dbJobs[i].kind # "statement"
  <2>1. "body" \notin InControl
    BY DEF InControl
  <2> QED BY <1>2, <2>1, LiveControl
<1> QED BY <1>1, <1>2

\* Then what is left in the queue is not disturbed.
LEMMA QuietJobsKeep ==
  ASSUME ConnectionInv, \A i \in DOMAIN dbJobs : ~dbJobs[i].live, UNCHANGED path,
         \A w \in Writes : result[w] = "sent" => result'[w] = "sent",
         \A s \in Scopes : phase[s] = "cut" => phase'[s] = "cut" /\ name'[s] = name[s],
         NEW j, NEW i \in DOMAIN dbJobs, j = dbJobs[i]
  PROVE  JobInv(j)'
<1>1. JobInv(j) /\ ~j.live
  BY DEF ConnectionInv, JobsInv
<1>2. CASE j.kind = "statement"
  BY <1>1, <1>2 DEF JobInv, StatementInv
<1>3. CASE j.kind # "statement"
  <2>1. ControlInv(j)
    BY <1>1, <1>3 DEF JobInv
  <2>2. j.of \in Scopes /\ phase[j.of] = "cut"
    BY <1>1, <2>1 DEF ControlInv
  <2>3. phase'[j.of] = "cut" /\ name'[j.of] = name[j.of]
    BY <2>2
  <2> QED BY <1>1, <1>3, <2>1, <2>2, <2>3 DEF JobInv, ControlInv
<1> QED BY <1>2, <1>3

\* A control statement is spawned while nobody awaits anything.
LEMMA SpawnKeepsJobs ==
  ASSUME ConnectionInv, \A i \in DOMAIN dbJobs : ~dbJobs[i].live, UNCHANGED <<path, result>>,
         \A s \in Scopes : phase[s] = "cut" => phase'[s] = "cut" /\ name'[s] = name[s],
         NEW kind \in {"begin", "commit", "rollback"}, NEW outer \in BOOLEAN, NEW s \in Scopes,
         Spawn(kind, outer, s), outer <=> kind = "begin" /\ name'[s] = Begin,
         stack' # <<>> /\ s = Top' /\ Serves(kind, phase'[s]) /\ answer' = "none"
  PROVE  JobsInv' /\ dbJobs' \in Seq(JobRecords)
<1> DEFINE new == Job(kind, outer, s)
           last == Len(dbJobs) + 1
<1>1. new \in JobRecords /\ new.kind = kind /\ new.outer = outer /\ new.of = s /\ new.live = TRUE
  BY DEF Job, JobRecords
<1>2. dbJobs' = Append(dbJobs, new)
  BY DEF Spawn
<1> HIDE DEF new
<1>3. /\ dbJobs' \in Seq(JobRecords)
      /\ \A k \in DOMAIN dbJobs' : k = last \/ k \in DOMAIN dbJobs
      /\ \A k \in DOMAIN dbJobs : k \in DOMAIN dbJobs' /\ dbJobs'[k] = dbJobs[k] /\ k < last
      /\ last \in DOMAIN dbJobs' /\ dbJobs'[last] = new
  BY <1>1, <1>2, JobTypes, SpawnIs
<1> HIDE DEF last
<1>4. JobInv(new)'
  BY <1>1 DEF JobInv, ControlInv, new, Job
<1>5. \A k \in DOMAIN dbJobs' : JobInv(dbJobs[k])'
  <2>1. ASSUME NEW k \in DOMAIN dbJobs' PROVE JobInv(dbJobs[k])'
    <3>1. CASE k = last
      <4>1. dbJobs'[k] = new
        BY <1>3, <3>1
      <4> QED BY <1>4, <4>1 DEF JobInv, ControlInv, StatementInv, new, Job
    <3>2. CASE k \in DOMAIN dbJobs
      <4>1. PICK j : j = dbJobs[k]
        OBVIOUS
      <4>2. JobInv(j)'
        BY <3>2, <4>1, QuietJobsKeep
      <4>3. dbJobs'[k] = j
        BY <1>3, <3>2, <4>1
      <4> QED BY <4>2, <4>3 DEF JobInv, ControlInv, StatementInv
    <3> QED BY <1>3, <2>1, <3>1, <3>2
  <2> QED BY <2>1
<1>6. \A i, k \in DOMAIN dbJobs' : i < k /\ ~dbJobs'[k].live => ~dbJobs'[i].live
  <2> SUFFICES ASSUME NEW i \in DOMAIN dbJobs', NEW k \in DOMAIN dbJobs', i < k, ~dbJobs'[k].live
               PROVE  ~dbJobs'[i].live
    OBVIOUS
  <2>1. k \in DOMAIN dbJobs
    BY <1>1, <1>3
  <2>2. i # last
    <3>1. k < last /\ i \in Nat /\ k \in Nat /\ last \in Nat
      BY <1>3, <2>1 DEF last
    <3> QED BY <3>1
  <2> QED BY <1>3, <2>2
<1>7. \A i, k \in DOMAIN dbJobs' : i # k => Apart(dbJobs'[i], dbJobs'[k])
  <2>1. ASSUME NEW i \in DOMAIN dbJobs PROVE Apart(dbJobs[i], new) /\ Apart(new, dbJobs[i])
    BY <1>1 DEF Apart
  <2> QED BY <1>3, <2>1 DEF ConnectionInv, JobsInv
<1>8. JobsInv'
  BY <1>5, <1>6, <1>7 DEF JobsInv, Apart
<1> QED BY <1>3, <1>8

LEMMA InLuaIs ==
  ASSUME ConnectionInv, InLua
  PROVE  awaited = <<>> /\ answer = "none" /\ (stack = <<>> \/ phase[Top] = "body")
         /\ \A i \in DOMAIN stack : phase[stack[i]] = "body"
<1>1. awaited = <<>> /\ (stack = <<>> \/ phase[Top] = "body")
  BY DEF InLua
<1>2. "body" \notin InControl
  BY DEF InControl
<1>3. answer = "none"
  BY <1>1, <1>2 DEF ConnectionInv, StackInv
<1>4. ASSUME NEW i \in DOMAIN stack PROVE phase[stack[i]] = "body"
  <2>1. stack # <<>>
    BY <1>4 DEF ConnectionInv, TypeOK
  <2> QED BY <1>1, <2>1 DEF ConnectionInv, StackInv, Top, Last
<1> QED BY <1>1, <1>3, <1>4

\* run_transaction() begins, through either handle.
LEMMA EnterConnection ==
  ASSUME ConnectionInv, InLua, NEW s \in Scopes, NEW n \in Nat \cup {Begin}, NEW outer \in BOOLEAN, Enter(s, n, outer),
         n = Begin <=> stack = <<>>, outer <=> stack = <<>>, flag' = TRUE, savepoints' \in [Scopes -> Nat],
         uncollected = {}
  PROVE  ConnectionInv'
<1>1. /\ phase[s] = "unused" /\ Len(stack) < MaxDepth /\ stack' = Append(stack, s)
      /\ phase' = [phase EXCEPT ![s] = "begin"] /\ name' = [name EXCEPT ![s] = n] /\ Spawn("begin", outer, s)
      /\ UNCHANGED <<alive, uncollected, awaited, answer, frames, db, result, path, overtaken, aborted>>
  BY DEF Enter, sqliteVars, historyVars
<1>2. /\ awaited = <<>> /\ answer = "none" /\ (stack = <<>> \/ phase[Top] = "body")
      /\ \A i \in DOMAIN stack : phase[stack[i]] = "body"
  BY InLuaIs
<1>3. /\ stack \in Seq(Scopes) /\ phase \in [Scopes -> Phases] /\ name \in [Scopes -> Nat \cup {Begin}]
      /\ Len(stack) \in Nat /\ MaxDepth \in Nat
      /\ \A i \in DOMAIN stack : stack[i] \in Scopes /\ (name[stack[i]] = Begin <=> i = 1)
  BY DepthIsPositive DEF ConnectionInv, TypeOK
<1> DEFINE top == Len(stack) + 1
<1>4. /\ stack' \in Seq(Scopes) /\ Len(stack') = top /\ stack' # <<>> /\ stack'[top] = s
      /\ DOMAIN stack = 1..Len(stack) /\ DOMAIN stack' = 1..top
      /\ \A i \in DOMAIN stack : i \in DOMAIN stack' /\ stack'[i] = stack[i] /\ i # top
      /\ \A i \in DOMAIN stack' : i = top \/ i \in DOMAIN stack
  BY <1>1, <1>3
<1>5. /\ \A t \in Scopes : t # s => phase'[t] = phase[t] /\ name'[t] = name[t]
      /\ phase'[s] = "begin" /\ name'[s] = n
      /\ phase' \in [Scopes -> Phases] /\ name' \in [Scopes -> Nat \cup {Begin}]
  BY <1>1, <1>3 DEF Phases
<1>6. \A i \in DOMAIN stack : stack[i] # s
  BY <1>1, <1>2
<1>7. top = 1 <=> stack = <<>>
  BY <1>3
<1> HIDE DEF top
<1>8. JobsInv' /\ dbJobs' \in Seq(JobRecords)
  <2>1. \A i \in DOMAIN dbJobs : ~dbJobs[i].live
    BY <1>2, QuietWhen
  <2>2. \A t \in Scopes : phase[t] = "cut" => phase'[t] = "cut" /\ name'[t] = name[t]
    BY <1>1, <1>5
  <2>3. s = Top' /\ Serves("begin", phase'[s])
    BY <1>4, <1>5 DEF Top, Last, Serves
  <2>4. outer <=> "begin" = "begin" /\ name'[s] = Begin
    BY <1>5
  <2>5. answer' = "none" /\ UNCHANGED <<path, result>>
    BY <1>1, <1>2
  <2> QED BY <1>1, <1>4, <2>1, <2>2, <2>3, <2>4, <2>5, SpawnKeepsJobs
<1>9. StackInv'
  <2>1. (flag' <=> stack' # <<>>) /\ uncollected' = {}
    BY <1>1, <1>4
  <2>2. alive' \subseteq ToSet(stack')
    BY <1>1, <1>4 DEF ConnectionInv, StackInv, ToSet
  <2>3. \A i, k \in DOMAIN stack' : stack'[i] = stack'[k] => i = k
    BY <1>4, <1>6 DEF ConnectionInv, StackInv
  <2>4. \A i \in DOMAIN stack' :
          phase'[stack'[i]] \in (IF i = Len(stack') THEN InControl \cup {"body"} ELSE {"body"})
    BY <1>2, <1>3, <1>4, <1>5, <1>6 DEF InControl
  <2>5. \A t \in Scopes : phase'[t] \in InControl \cup {"body"} => \E i \in DOMAIN stack' : stack'[i] = t
    <3>1. top \in DOMAIN stack'
      BY <1>3, <1>4, <1>7 DEF top
    <3>2. ASSUME NEW t \in Scopes, t # s, phase'[t] \in InControl \cup {"body"}
          PROVE  \E i \in DOMAIN stack' : stack'[i] = t
      <4>1. PICK i \in DOMAIN stack : stack[i] = t
        BY <1>5, <3>2 DEF ConnectionInv, StackInv
      <4> QED BY <1>4, <4>1
    <3> QED BY <1>4, <3>1, <3>2
  <2>6. awaited' = <<>> /\ answer' = "none"
    BY <1>1, <1>2
  <2> QED BY <2>1, <2>2, <2>3, <2>4, <2>5, <2>6 DEF StackInv
<1>10. TypeOK'
  <2>1. \A i \in DOMAIN stack' : name'[stack'[i]] = Begin <=> i = 1
    BY <1>3, <1>4, <1>5, <1>6, <1>7
  <2>2. Len(stack') <= MaxDepth
    BY <1>1, <1>3, <1>4 DEF top
  <2> QED BY <1>1, <1>4, <1>5, <1>8, <2>1, <2>2 DEF ConnectionInv, TypeOK, JobRecords
<1>11. CalmInv'
  <2>1. CASE stack = <<>>
    <3>1. (\A t \in Scopes : phase'[t] # "cut") => \A t \in Scopes : phase[t] # "cut"
      BY <1>1, <1>5
    <3>2. Top' = s
      BY <1>4 DEF Top, Last
    <3> QED BY <1>1, <1>4, <1>5, <2>1, <3>1, <3>2 DEF ConnectionInv, CalmInv
  <2>2. CASE stack # <<>>
    BY <1>4, <1>7, <2>2 DEF CalmInv
  <2> QED BY <2>1, <2>2
<1>12. OuterStandsAlone'
  BY <1>1 DEF ConnectionInv, OuterStandsAlone
<1>13. ASSUME NEW w \in Writes PROVE PathInv(w)'
  <2>1. path' = path /\ path[w] \in Seq(Scopes) /\ \A k \in DOMAIN path[w] : path[w][k] \in Scopes
    BY <1>1 DEF ConnectionInv, TypeOK
  <2>2. PathInv(w)
    BY DEF ConnectionInv
  <2>3. \A k \in DOMAIN path[w] : path[w][k] # s
    BY <1>1, <2>2 DEF PathInv
  <2>4. \A k \in DOMAIN path[w] : phase'[path[w][k]] = phase[path[w][k]] /\ name'[path[w][k]] = name[path[w][k]]
    BY <1>5, <2>1, <2>3
  <2>5. ASSUME NEW k \in DOMAIN path[w], NEW m \in DOMAIN stack', path[w][k] = stack'[m]
        PROVE  k = m /\ \A p \in 1..k : path[w][p] = stack'[p]
    <3>1. m \in DOMAIN stack /\ path[w][k] = stack[m]
      BY <1>4, <2>3, <2>5
    <3>2. k = m /\ \A p \in 1..k : path[w][p] = stack[p]
      BY <2>2, <2>5, <3>1 DEF PathInv
    <3>3. \A p \in 1..k : p \in DOMAIN stack
      BY <1>3, <1>4, <3>1, <3>2
    <3> QED BY <1>4, <3>2, <3>3
  <2> QED BY <2>1, <2>2, <2>4, <2>5 DEF PathInv
<1> QED BY <1>8, <1>9, <1>10, <1>11, <1>12, <1>13 DEF ConnectionInv


LEMMA TransactionConnection ==
  ASSUME ConnectionInv, NEW s \in Scopes, Transaction(s)
  PROVE  ConnectionInv'
<1>1. InLua /\ ~flag /\ flag' = TRUE /\ Enter(s, Begin, TRUE) /\ savepoints' = savepoints
  BY DEF Transaction
<1>2. stack = <<>> /\ uncollected = {}
  BY <1>1 DEF ConnectionInv, StackInv
<1>3. savepoints' \in [Scopes -> Nat]
  BY <1>1 DEF ConnectionInv, TypeOK
<1> QED BY <1>1, <1>2, <1>3, EnterConnection

LEMMA SavepointConnection ==
  ASSUME ConnectionInv, NEW tx \in Scopes, NEW s \in Scopes, Savepoint(tx, s)
  PROVE  ConnectionInv'
<1>1. /\ InLua /\ tx \in alive \ uncollected /\ savepoints' = [savepoints EXCEPT ![tx] = savepoints[tx] + 1]
      /\ Enter(s, savepoints[tx], FALSE) /\ flag' = flag
  BY DEF Savepoint
<1>2. savepoints \in [Scopes -> Nat] /\ flag \in BOOLEAN /\ stack \in Seq(Scopes)
  BY DEF ConnectionInv, TypeOK
<1>3. savepoints' \in [Scopes -> Nat] /\ savepoints[tx] \in Nat
  BY <1>1, <1>2
<1>4. savepoints[tx] # Begin
  BY <1>3 DEF Begin
<1>5. stack # <<>> /\ flag /\ uncollected = {}
  <2>1. tx \in ToSet(stack)
    BY <1>1 DEF ConnectionInv, StackInv
  <2>2. ToSet(<<>>) = {}
    BY DEF ToSet
  <2> QED BY <2>1, <2>2 DEF ConnectionInv, StackInv
<1> QED BY <1>1, <1>2, <1>3, <1>4, <1>5, EnterConnection

\* The stack without its last.
LEMMA FrontIs ==
  ASSUME NEW S, NEW st \in Seq(S), st # <<>>
  PROVE  /\ Front(st) \in Seq(S) /\ Len(Front(st)) = Len(st) - 1 /\ Len(st) \in Nat /\ Len(st) \in DOMAIN st
         /\ \A i \in DOMAIN Front(st) : i \in DOMAIN st /\ i # Len(st) /\ Front(st)[i] = st[i]
         /\ \A i \in DOMAIN st : i = Len(st) \/ i \in DOMAIN Front(st)
         /\ Front(st) = <<>> <=> Len(st) = 1
<1>1. Len(st) \in Nat /\ Len(st) >= 1 /\ DOMAIN st = 1..Len(st)
  OBVIOUS
<1>2. Front(st) \in Seq(S) /\ Len(Front(st)) = Len(st) - 1 /\ \A i \in 1..(Len(st) - 1) : Front(st)[i] = st[i]
  BY <1>1 DEF Front
<1>3. DOMAIN Front(st) = 1..(Len(st) - 1)
  BY <1>2
<1> QED BY <1>1, <1>2, <1>3

\* The queue when nobody awaits anything and no scope is cut or named.
LEMMA QuietStep ==
  ASSUME ConnectionInv, \A i \in DOMAIN dbJobs : ~dbJobs[i].live, UNCHANGED <<path, result, dbJobs, name>>,
         \A s \in Scopes : phase[s] = "cut" => phase'[s] = "cut"
  PROVE  JobsInv'
<1>1. ASSUME NEW k \in DOMAIN dbJobs' PROVE JobInv(dbJobs[k])'
  <2>1. PICK j : j = dbJobs[k]
    OBVIOUS
  <2>2. JobInv(j)'
    BY <1>1, <2>1, QuietJobsKeep
  <2>3. dbJobs'[k] = j
    BY <2>1
  <2> QED BY <2>2, <2>3 DEF JobInv, ControlInv, StatementInv
<1> QED BY <1>1 DEF ConnectionInv, JobsInv, Apart

\* The scope ends: ScopeEnd and TxGuard.
LEMMA ExitConnection ==
  ASSUME ConnectionInv, NEW p \in InControl, Taken(p, {"ok", "failed"}), NEW how \in {"committed", "rolledback", "failed"},
         Exit(how), UNCHANGED <<savepoints, name, awaited, dbJobs, frames, db, result, path, overtaken, aborted>>,
         Len(stack) = 1 /\ (\A s \in Scopes : phase[s] # "cut") => frames = <<>>
  PROVE  ConnectionInv'
<1>1. stack # <<>> /\ phase[Top] = p /\ answer # "none" /\ answer' = "none"
  BY DEF Taken
<1>2. /\ phase' = [phase EXCEPT ![Top] = how] /\ alive' = alive \ {Top} /\ stack' = Front(stack)
      /\ flag' = (flag /\ Len(stack) > 1) /\ uncollected' = uncollected
  BY DEF Exit
<1>3. stack \in Seq(Scopes) /\ phase \in [Scopes -> Phases] /\ Len(stack) <= MaxDepth /\ MaxDepth \in Nat
  BY DepthIsPositive DEF ConnectionInv, TypeOK
<1>4. /\ stack' \in Seq(Scopes) /\ Len(stack') = Len(stack) - 1 /\ Len(stack) \in Nat /\ Len(stack) \in DOMAIN stack
      /\ \A i \in DOMAIN stack' : i \in DOMAIN stack /\ i # Len(stack) /\ stack'[i] = stack[i]
      /\ \A i \in DOMAIN stack : i = Len(stack) \/ i \in DOMAIN stack'
      /\ stack' = <<>> <=> Len(stack) = 1
  BY <1>1, <1>2, <1>3, FrontIs
<1>5. Top \in Scopes /\ Top = stack[Len(stack)]
  BY <1>3, <1>4 DEF Top, Last
<1>6. /\ phase' \in [Scopes -> Phases] /\ phase'[Top] = how /\ \A s \in Scopes : s # Top => phase'[s] = phase[s]
  BY <1>2, <1>3, <1>5 DEF Phases
<1>7. awaited = <<>>
  <2>1. p # "body"
    BY DEF InControl
  <2> QED BY <1>1, <2>1 DEF ConnectionInv, StackInv
<1>8. \A i \in DOMAIN stack' : stack'[i] # Top /\ stack'[i] \in Scopes /\ phase'[stack'[i]] = "body"
  <2>1. \A i \in DOMAIN stack' : stack'[i] # Top /\ stack'[i] \in Scopes
    BY <1>3, <1>4, <1>5 DEF ConnectionInv, StackInv
  <2>2. \A i \in DOMAIN stack' : phase[stack[i]] = "body"
    BY <1>4 DEF ConnectionInv, StackInv
  <2> QED BY <1>4, <1>6, <2>1, <2>2
<1>9. "cut" # p /\ p \notin {"unused", "body"}
  BY DEF InControl
<1>10. JobsInv'
  <2>1. \A i \in DOMAIN dbJobs : ~dbJobs[i].live
    BY <1>1, <1>7, QuietWhen
  <2>2. \A s \in Scopes : phase[s] = "cut" => phase'[s] = "cut"
    BY <1>1, <1>6, <1>9
  <2> QED BY <2>1, <2>2, QuietStep
<1>11. StackInv'
  <2>6. uncollected = {}
    BY <1>1 DEF ConnectionInv, StackInv
  <2>1. flag' <=> stack' # <<>>
    <3>1. flag
      BY <1>1 DEF ConnectionInv, StackInv
    <3>2. flag' <=> Len(stack) > 1
      BY <1>2, <3>1, Zenon
    <3>3. Len(stack) > 1 <=> Len(stack) # 1
      BY <1>4
    <3> QED BY <1>4, <3>2, <3>3
  <2>2. alive' \subseteq ToSet(stack')
    <3> SUFFICES ASSUME NEW s \in alive' PROVE \E i \in DOMAIN stack' : stack'[i] = s
      BY DEF ToSet
    <3>1. s # Top /\ s \in ToSet(stack)
      BY <1>2, <2>6 DEF ConnectionInv, StackInv
    <3>2. PICK i \in DOMAIN stack : stack[i] = s
      BY <3>1 DEF ToSet
    <3> QED BY <1>4, <1>5, <3>1, <3>2
  <2>3. \A i, k \in DOMAIN stack' : stack'[i] = stack'[k] => i = k
    BY <1>4 DEF ConnectionInv, StackInv
  <2>4. ASSUME NEW t \in Scopes, phase'[t] \in InControl \cup {"body"} PROVE \E i \in DOMAIN stack' : stack'[i] = t
    <3>1. t # Top
      BY <1>6, <2>4 DEF InControl
    <3>2. PICK i \in DOMAIN stack : stack[i] = t
      BY <1>6, <2>4, <3>1 DEF ConnectionInv, StackInv
    <3> QED BY <1>4, <1>5, <3>1, <3>2
  <2>5. awaited' = <<>>
    BY <1>7
  <2> QED BY <1>1, <1>2, <1>8, <2>1, <2>2, <2>3, <2>4, <2>5, <2>6 DEF StackInv
<1>12. TypeOK'
  <2>1. \A i \in DOMAIN stack' : name'[stack'[i]] = Begin <=> i = 1
    BY <1>4 DEF ConnectionInv, TypeOK
  <2>2. Len(stack') <= MaxDepth
    BY <1>3, <1>4
  <2>3. flag' \in BOOLEAN
    BY <1>2
  <2>4. alive' \subseteq Scopes /\ uncollected' \subseteq Scopes
    BY <1>2 DEF ConnectionInv, TypeOK
  <2> QED BY <1>1, <1>4, <1>6, <2>1, <2>2, <2>3, <2>4 DEF ConnectionInv, TypeOK
<1>13. CalmInv'
  <2>1. (\A s \in Scopes : phase'[s] # "cut") => \A s \in Scopes : phase[s] # "cut"
    BY <1>1, <1>6, <1>9
  <2>2. Len(stack') = 1 => phase'[Top'] = "body"
    <3>1. Len(stack') = 1 => 1 \in DOMAIN stack' /\ Top' = stack'[1]
      BY <1>4 DEF Top, Last
    <3> QED BY <1>8, <3>1
  <2> QED BY <1>4, <2>1, <2>2 DEF CalmInv
<1>14. OuterStandsAlone'
  BY DEF ConnectionInv, OuterStandsAlone
<1>15. ASSUME NEW w \in Writes PROVE PathInv(w)'
  <2>1. path' = path /\ path[w] \in Seq(Scopes) /\ \A k \in DOMAIN path[w] : path[w][k] \in Scopes
    BY DEF ConnectionInv, TypeOK
  <2>2. PathInv(w)
    BY DEF ConnectionInv
  <2>3. \A k \in DOMAIN path[w] : phase'[path[w][k]] \notin {"unused", "begin"}
    BY <1>6, <2>1, <2>2 DEF PathInv
  <2>4. ASSUME NEW k \in DOMAIN path[w], NEW m \in DOMAIN stack', path[w][k] = stack'[m]
        PROVE  k = m /\ \A n \in 1..k : path[w][n] = stack'[n]
    <3>1. m \in DOMAIN stack /\ path[w][k] = stack[m]
      BY <1>4, <2>4
    <3>2. k = m /\ \A n \in 1..k : path[w][n] = stack[n]
      BY <2>2, <2>4, <3>1 DEF PathInv
    <3>3. \A n \in 1..k : n \in DOMAIN stack'
      BY <1>4, <2>4, <3>2
    <3> QED BY <1>4, <3>2, <3>3
  <2> QED BY <2>1, <2>2, <2>3, <2>4 DEF PathInv
<1> QED BY <1>10, <1>11, <1>12, <1>13, <1>14, <1>15 DEF ConnectionInv

\* What an ended scope may say without the connection's outermost one being open.
LEMMA EndsConnection ==
  ASSUME ConnectionInv, NotBegun \/ Committed \/ RolledBack
  PROVE  ConnectionInv'
<1>1. CASE NotBegun
  <2>1. Taken("begin", {"failed"}) /\ Exit("failed")
        /\ UNCHANGED <<savepoints, name, awaited, dbJobs, frames, db, result, path, overtaken, aborted>>
    BY <1>1 DEF NotBegun, sqliteVars, historyVars
  <2>2. Taken("begin", {"ok", "failed"}) /\ phase[Top] = "begin" /\ answer # "ok"
    BY <2>1 DEF Taken
  <2>3. Len(stack) = 1 /\ (\A s \in Scopes : phase[s] # "cut") => frames = <<>>
    BY <2>2 DEF ConnectionInv, CalmInv
  <2> QED BY <2>1, <2>2, <2>3, ExitConnection DEF InControl
<1>2. CASE Committed
  <2>1. Taken("commit", {"ok"}) /\ Exit("committed")
        /\ UNCHANGED <<savepoints, name, awaited, dbJobs, frames, db, result, path, overtaken, aborted>>
    BY <1>2 DEF Committed, sqliteVars, historyVars
  <2>2. Taken("commit", {"ok", "failed"}) /\ phase[Top] = "commit" /\ answer = "ok"
    BY <2>1 DEF Taken
  <2>3. Len(stack) = 1 /\ (\A s \in Scopes : phase[s] # "cut") => frames = <<>>
    BY <2>2 DEF ConnectionInv, CalmInv
  <2> QED BY <2>1, <2>2, <2>3, ExitConnection DEF InControl
<1>3. CASE RolledBack
  <2>1. PICK p \in {"rollback", "undo"}, how \in {"rolledback", "failed"} :
          Taken(p, {"ok", "failed"}) /\ Exit(how)
          /\ UNCHANGED <<savepoints, name, awaited, dbJobs, frames, db, result, path, overtaken, aborted>>
    BY <1>3 DEF RolledBack, sqliteVars, historyVars
  <2>2. phase[Top] \in {"rollback", "undo"} /\ answer # "none"
    BY <2>1 DEF Taken
  <2>3. Len(stack) = 1 /\ (\A s \in Scopes : phase[s] # "cut") => frames = <<>>
    BY <2>2 DEF ConnectionInv, CalmInv
  <2> QED BY <2>1, <2>3, ExitConnection DEF InControl
<1> QED BY <1>1, <1>2, <1>3


LEMMA BegunConnection ==
  ASSUME ConnectionInv, Begun
  PROVE  ConnectionInv'
<1>1. /\ stack # <<>> /\ phase[Top] = "begin" /\ answer = "ok" /\ answer' = "none"
      /\ phase' = [phase EXCEPT ![Top] = "body"] /\ alive' = alive \cup {Top}
      /\ UNCHANGED <<flag, uncollected, stack, savepoints, name, awaited, dbJobs, frames, db, result, path, overtaken, aborted>>
  BY DEF Begun, Taken, sqliteVars, historyVars
<1>2. stack \in Seq(Scopes) /\ phase \in [Scopes -> Phases]
  BY DEF ConnectionInv, TypeOK
<1>3. Len(stack) \in DOMAIN stack /\ Top = stack[Len(stack)] /\ Top \in Scopes /\ Top' = Top
  BY <1>1, <1>2 DEF Top, Last
<1>4. phase' \in [Scopes -> Phases] /\ phase'[Top] = "body" /\ \A s \in Scopes : s # Top => phase'[s] = phase[s]
  BY <1>1, <1>2, <1>3 DEF Phases
<1>5. awaited = <<>>
  BY <1>1 DEF ConnectionInv, StackInv
<1>6. JobsInv'
  <2>1. \A i \in DOMAIN dbJobs : ~dbJobs[i].live
    BY <1>1, <1>5, QuietWhen
  <2>2. \A s \in Scopes : phase[s] = "cut" => phase'[s] = "cut"
    BY <1>1, <1>4
  <2> QED BY <1>1, <2>1, <2>2, QuietStep
<1>7. StackInv'
  <2>1. alive' \subseteq ToSet(stack) \cup uncollected
    BY <1>1, <1>3 DEF ConnectionInv, StackInv, ToSet
  <2>2. \A i \in DOMAIN stack : phase'[stack[i]] \in (IF i = Len(stack) THEN InControl \cup {"body"} ELSE {"body"})
    <3>1. \A i \in DOMAIN stack : i # Len(stack) => phase[stack[i]] = "body" /\ stack[i] \in Scopes
      BY <1>2 DEF ConnectionInv, StackInv
    <3> QED BY <1>3, <1>4, <3>1
  <2>3. ASSUME NEW t \in Scopes, phase'[t] \in InControl \cup {"body"} PROVE \E i \in DOMAIN stack : stack[i] = t
    BY <1>3, <1>4, <2>3 DEF ConnectionInv, StackInv
  <2> QED BY <1>1, <1>5, <2>1, <2>2, <2>3 DEF ConnectionInv, StackInv
<1>8. TypeOK'
  <2>1. alive' \subseteq Scopes
    BY <1>1, <1>3 DEF ConnectionInv, TypeOK
  <2> QED BY <1>1, <1>4, <2>1 DEF ConnectionInv, TypeOK
<1>9. CalmInv'
  BY <1>1, <1>3, <1>4 DEF CalmInv
<1>10. OuterStandsAlone'
  BY <1>1 DEF ConnectionInv, OuterStandsAlone
<1>11. ASSUME NEW w \in Writes PROVE PathInv(w)'
  <2>1. path[w] \in Seq(Scopes) /\ \A k \in DOMAIN path[w] : path[w][k] \in Scopes
    BY DEF ConnectionInv, TypeOK
  <2>2. PathInv(w)
    BY DEF ConnectionInv
  <2>3. \A k \in DOMAIN path[w] : phase'[path[w][k]] \notin {"unused", "begin"}
    BY <1>4, <2>1, <2>2 DEF PathInv
  <2> QED BY <1>1, <2>2, <2>3 DEF PathInv
<1> QED BY <1>6, <1>7, <1>8, <1>9, <1>10, <1>11 DEF ConnectionInv

\* The top scope goes on with COMMIT, RELEASE or a rollback.
LEMMA ControlConnection ==
  ASSUME ConnectionInv, stack # <<>>, awaited = <<>>, phase[Top] = "body" \/ (phase[Top] = "commit" /\ answer # "none"),
         NEW p \in {"commit", "rollback", "undo"}, NEW kind \in {"commit", "rollback"}, Serves(kind, p),
         Control(p, kind), answer' = "none"
  PROVE  ConnectionInv'
<1>1. /\ phase' = [phase EXCEPT ![Top] = p] /\ Spawn(kind, FALSE, Top)
      /\ UNCHANGED <<flag, alive, uncollected, stack, savepoints, name, awaited, frames, db, result, path, overtaken, aborted>>
  BY DEF Control, sqliteVars, historyVars
<1>2. stack \in Seq(Scopes) /\ phase \in [Scopes -> Phases]
  BY DEF ConnectionInv, TypeOK
<1>3. Len(stack) \in DOMAIN stack /\ Top = stack[Len(stack)] /\ Top \in Scopes /\ Top' = Top
  BY <1>1, <1>2 DEF Top, Last
<1>4. phase' \in [Scopes -> Phases] /\ phase'[Top] = p /\ \A s \in Scopes : s # Top => phase'[s] = phase[s]
  BY <1>1, <1>2, <1>3 DEF Phases
<1>5. JobsInv' /\ dbJobs' \in Seq(JobRecords)
  <2>1. \A i \in DOMAIN dbJobs : ~dbJobs[i].live
    BY QuietWhen
  <2>2. \A s \in Scopes : phase[s] = "cut" => phase'[s] = "cut" /\ name'[s] = name[s]
    BY <1>1, <1>4
  <2>3. FALSE <=> kind = "begin" /\ name'[Top] = Begin
    OBVIOUS
  <2>4. stack' # <<>> /\ Top = Top' /\ Serves(kind, phase'[Top])
    BY <1>1, <1>3, <1>4
  <2>5. PICK s : s = Top
    OBVIOUS
  <2>6. s \in Scopes /\ Spawn(kind, FALSE, s) /\ s = Top' /\ Serves(kind, phase'[s])
        /\ (FALSE <=> kind = "begin" /\ name'[s] = Begin)
    BY <1>1, <1>3, <2>3, <2>4, <2>5
  <2> QED BY <1>1, <2>1, <2>2, <2>4, <2>6, SpawnKeepsJobs
<1>6. StackInv'
  <2>1. \A i \in DOMAIN stack : phase'[stack[i]] \in (IF i = Len(stack) THEN InControl \cup {"body"} ELSE {"body"})
    <3>1. \A i \in DOMAIN stack : i # Len(stack) => phase[stack[i]] = "body" /\ stack[i] \in Scopes /\ stack[i] # Top
      BY <1>2, <1>3 DEF ConnectionInv, StackInv
    <3> QED BY <1>3, <1>4, <3>1 DEF InControl
  <2>2. ASSUME NEW t \in Scopes, phase'[t] \in InControl \cup {"body"} PROVE \E i \in DOMAIN stack : stack[i] = t
    BY <1>3, <1>4, <2>2 DEF ConnectionInv, StackInv
  <2> QED BY <1>1, <2>1, <2>2 DEF ConnectionInv, StackInv
<1>7. TypeOK'
  BY <1>1, <1>4, <1>5 DEF ConnectionInv, TypeOK, JobRecords
<1>8. CalmInv'
  BY <1>1, <1>3, <1>4 DEF CalmInv
<1>9. OuterStandsAlone'
  BY <1>1 DEF ConnectionInv, OuterStandsAlone
<1>10. ASSUME NEW w \in Writes PROVE PathInv(w)'
  <2>1. path[w] \in Seq(Scopes) /\ \A k \in DOMAIN path[w] : path[w][k] \in Scopes
    BY DEF ConnectionInv, TypeOK
  <2>2. PathInv(w)
    BY DEF ConnectionInv
  <2>3. \A k \in DOMAIN path[w] : phase'[path[w][k]] \notin {"unused", "begin"}
    BY <1>4, <2>1, <2>2 DEF PathInv
  <2> QED BY <1>1, <2>2, <2>3 DEF PathInv
<1> QED BY <1>5, <1>6, <1>7, <1>8, <1>9, <1>10 DEF ConnectionInv

LEMMA GoesOnConnection ==
  ASSUME ConnectionInv, BodyReturns \/ BodyRaises \/ CommitFails
  PROVE  ConnectionInv'
<1>1. CASE BodyReturns
  <2>1. stack # <<>> /\ InLua /\ Control("commit", "commit") /\ answer' = answer
    BY <1>1 DEF BodyReturns
  <2> QED BY <2>1, InLuaIs, ControlConnection DEF Serves
<1>2. CASE BodyRaises
  <2>1. stack # <<>> /\ InLua /\ Control("rollback", "rollback") /\ answer' = answer
    BY <1>2 DEF BodyRaises
  <2> QED BY <2>1, InLuaIs, ControlConnection DEF Serves
<1>3. CASE CommitFails
  <2>1. stack # <<>> /\ phase[Top] = "commit" /\ answer = "failed" /\ answer' = "none" /\ Control("undo", "rollback")
    BY <1>3 DEF CommitFails, Taken
  <2>2. awaited = <<>>
    BY <2>1 DEF ConnectionInv, StackInv
  <2> QED BY <2>1, <2>2, ControlConnection DEF Serves
<1> QED BY <1>1, <1>2, <1>3


\* The queue when every future is dropped.
LEMMA OrphansKeep ==
  ASSUME ConnectionInv, dbJobs' = Orphaned(dbJobs), UNCHANGED <<path, result, name>>,
         \A i \in DOMAIN dbJobs : dbJobs[i].kind # "statement" => phase'[dbJobs[i].of] = "cut"
  PROVE  JobsInv' /\ dbJobs' \in Seq(JobRecords)
<1>1. /\ dbJobs' \in Seq(JobRecords) /\ DOMAIN dbJobs' = DOMAIN dbJobs
      /\ \A k \in DOMAIN dbJobs : /\ dbJobs'[k].kind = dbJobs[k].kind /\ dbJobs'[k].outer = dbJobs[k].outer
                                  /\ dbJobs'[k].of = dbJobs[k].of /\ dbJobs'[k].live = FALSE
  BY JobTypes, OrphanedIs
<1>2. ASSUME NEW k \in DOMAIN dbJobs' PROVE JobInv(dbJobs[k])'
  <2>1. JobInv(dbJobs[k])
    BY <1>1 DEF ConnectionInv, JobsInv
  <2>2. CASE dbJobs[k].kind = "statement"
    BY <1>1, <2>1, <2>2 DEF JobInv, StatementInv
  <2>3. CASE dbJobs[k].kind # "statement"
    <3>1. phase'[dbJobs[k].of] = "cut"
      BY <1>1, <2>3
    <3> QED BY <1>1, <2>1, <2>3, <3>1 DEF JobInv, ControlInv
  <2> QED BY <2>2, <2>3
<1>3. \A i, k \in DOMAIN dbJobs' : i # k => Apart(dbJobs'[i], dbJobs'[k])
  BY <1>1 DEF ConnectionInv, JobsInv, Apart
<1> QED BY <1>1, <1>2, <1>3 DEF JobsInv, Apart

LEMMA DeliverConnection ==
  ASSUME ConnectionInv, Deliver
  PROVE  ConnectionInv'
<1>1. /\ awaited # <<>> /\ result[Head(awaited)] \in {"ok", "failed"}
      /\ \/ result[Head(awaited)] = "ok" /\ awaited' = Tail(awaited) /\ dbJobs' = dbJobs
         \/ awaited' = <<>> /\ dbJobs' = Orphaned(dbJobs)
      /\ UNCHANGED <<flag, alive, uncollected, stack, phase, savepoints, name, answer, frames, db, result, path, overtaken, aborted>>
  BY DEF Deliver, sqliteVars, historyVars
<1>2. awaited \in Seq(Writes) /\ Len(awaited) <= MaxBatch /\ MaxBatch \in Nat
  BY BatchIsPositive DEF ConnectionInv, TypeOK
<1>3. /\ Tail(awaited) \in Seq(Writes) /\ Len(Tail(awaited)) = Len(awaited) - 1 /\ Len(awaited) \in Nat
      /\ \A k \in 1..(Len(awaited) - 1) : Tail(awaited)[k] = awaited[k + 1]
      /\ Head(awaited) = awaited[1]
  BY <1>1, <1>2
<1>4. awaited' \in Seq(Writes) /\ Len(awaited') <= MaxBatch
  <2>1. <<>> \in Seq(Writes) /\ Len(<<>>) = 0
    OBVIOUS
  <2>2. CASE awaited' = <<>>
    <3>1. Len(awaited') = 0
      BY <2>1, <2>2
    <3> QED BY <1>2, <2>1, <2>2, <3>1
  <2>3. CASE awaited' = Tail(awaited)
    <3> DEFINE t == Tail(awaited)
    <3>1. t \in Seq(Writes) /\ Len(t) = Len(awaited) - 1 /\ awaited' = t
      BY <1>3, <2>3
    <3> HIDE DEF t
    <3>2. Len(awaited') <= MaxBatch
      BY <1>2, <1>3, <3>1
    <3> QED BY <3>1, <3>2
  <2> QED BY <1>1, <2>2, <2>3
<1>5. JobsInv' /\ dbJobs' \in Seq(JobRecords)
  <2>1. CASE result[Head(awaited)] = "ok" /\ awaited' = Tail(awaited) /\ dbJobs' = dbJobs
    <3>1. ASSUME NEW w \in ToSet(awaited), result[w] = "sent" PROVE w \in ToSet(Tail(awaited))
      <4>1. PICK k \in DOMAIN awaited : awaited[k] = w
        BY <3>1 DEF ToSet
      <4>2. k # 1
        BY <1>3, <2>1, <3>1, <4>1
      <4>3. k - 1 \in 1..(Len(awaited) - 1) /\ (k - 1) + 1 = k
        BY <1>2, <1>3, <4>1, <4>2
      <4>4. k - 1 \in DOMAIN Tail(awaited) /\ Tail(awaited)[k - 1] = w
        BY <1>3, <4>1, <4>3
      <4> QED BY <4>4 DEF ToSet
    <3>2. ASSUME NEW k \in DOMAIN dbJobs' PROVE JobInv(dbJobs[k])'
      <4>1. JobInv(dbJobs[k])
        BY <2>1 DEF ConnectionInv, JobsInv
      <4>2. CASE dbJobs[k].kind = "statement"
        BY <1>1, <2>1, <3>1, <4>1, <4>2 DEF JobInv, StatementInv
      <4>3. CASE dbJobs[k].kind # "statement"
        BY <1>1, <2>1, <4>1, <4>3 DEF JobInv, ControlInv, Top
      <4> QED BY <4>2, <4>3
    <3> QED BY <2>1, <3>2, JobTypes DEF ConnectionInv, JobsInv, Apart
  <2>2. CASE awaited' = <<>> /\ dbJobs' = Orphaned(dbJobs)
    <3>1. \A i \in DOMAIN dbJobs : dbJobs[i].kind # "statement" => phase'[dbJobs[i].of] = "cut"
      BY <1>1, LiveControl, ControlScope
    <3> QED BY <1>1, <2>2, <3>1, OrphansKeep
  <2> QED BY <1>1, <2>1, <2>2
<1>6. StackInv'
  BY <1>1 DEF ConnectionInv, StackInv, Top
<1>7. TypeOK'
  BY <1>1, <1>4, <1>5 DEF ConnectionInv, TypeOK, JobRecords
<1>8. CalmInv' /\ OuterStandsAlone' /\ \A w \in Writes : PathInv(w)'
  BY <1>1 DEF ConnectionInv, CalmInv, OuterStandsAlone, PathInv, Top
<1> QED BY <1>5, <1>6, <1>7, <1>8 DEF ConnectionInv

\* The handler ends at an await, and its guards were dropped or wait for a collection.
LEMMA AbandonConnection ==
  ASSUME ConnectionInv, Abandon, flag' \in BOOLEAN, flag' <=> uncollected' # {},
         alive' \subseteq uncollected', uncollected' \subseteq Scopes
  PROVE  ConnectionInv'
<1>1. /\ stack' = <<>> /\ awaited' = <<>> /\ answer' = "none"
      /\ phase' = [s \in Scopes |-> IF s \in ToSet(stack) THEN "cut" ELSE phase[s]]
      /\ dbJobs' = Orphaned(dbJobs)
      /\ UNCHANGED <<savepoints, name, frames, db, result, path, overtaken, aborted>>
  BY DEF Abandon, sqliteVars, historyVars
<1>2. stack \in Seq(Scopes) /\ phase \in [Scopes -> Phases]
  BY DEF ConnectionInv, TypeOK
<1>3. /\ phase' \in [Scopes -> Phases]
      /\ \A s \in Scopes : phase'[s] = phase[s] \/ phase'[s] = "cut"
      /\ \A s \in Scopes : (\E i \in DOMAIN stack : stack[i] = s) => phase'[s] = "cut"
  BY <1>1, <1>2 DEF Phases, ToSet
<1>4. alive' \subseteq Scopes /\ DOMAIN stack' = {} /\ stack' \in Seq(Scopes) /\ Len(stack') = 0
      /\ awaited' \in Seq(Writes) /\ Len(awaited') = 0
  BY <1>1, <1>2
<1>5. JobsInv' /\ dbJobs' \in Seq(JobRecords)
  <2>1. ASSUME NEW i \in DOMAIN dbJobs, dbJobs[i].kind # "statement" PROVE phase'[dbJobs[i].of] = "cut"
    <3>1. CASE dbJobs[i].live
      <4>1. stack # <<>> /\ dbJobs[i].of = Top
        BY <2>1, <3>1, LiveControl
      <4>2. Len(stack) \in DOMAIN stack /\ Top = stack[Len(stack)] /\ Top \in Scopes
        BY <1>2, <4>1 DEF Top, Last
      <4> QED BY <1>3, <4>1, <4>2
    <3>2. CASE ~dbJobs[i].live
      BY <1>3, <2>1, <3>2, ControlScope
    <3> QED BY <3>1, <3>2
  <2> QED BY <1>1, <2>1, OrphansKeep
<1>6. StackInv'
  <2>1. \A s \in Scopes : phase'[s] \notin InControl \cup {"body"}
    <3>1. "cut" \notin InControl \cup {"body"}
      BY DEF InControl
    <3> QED BY <1>3, <3>1 DEF ConnectionInv, StackInv
  <2> QED BY <1>1, <1>4, <2>1 DEF StackInv
<1>7. TypeOK'
  <2>1. 0 <= MaxDepth /\ 0 <= MaxBatch
    BY DepthIsPositive, BatchIsPositive
  <2> QED BY <1>1, <1>3, <1>4, <1>5, <2>1 DEF ConnectionInv, TypeOK, JobRecords
<1>8. CalmInv'
  <2>1. CASE stack = <<>>
    <3>1. (\A s \in Scopes : phase'[s] # "cut") => \A s \in Scopes : phase[s] # "cut"
      BY <1>3
    <3> QED BY <1>1, <1>4, <2>1, <3>1 DEF ConnectionInv, CalmInv
  <2>2. CASE stack # <<>>
    <3>1. 1 \in DOMAIN stack /\ stack[1] \in Scopes
      BY <1>2, <2>2
    <3> QED BY <1>3, <3>1 DEF CalmInv
  <2> QED BY <2>1, <2>2
<1>9. OuterStandsAlone'
  BY <1>1 DEF ConnectionInv, OuterStandsAlone
<1>10. ASSUME NEW w \in Writes PROVE PathInv(w)'
  <2>1. path[w] \in Seq(Scopes) /\ \A k \in DOMAIN path[w] : path[w][k] \in Scopes
    BY DEF ConnectionInv, TypeOK
  <2>2. PathInv(w)
    BY DEF ConnectionInv
  <2>3. \A k \in DOMAIN path[w] : phase'[path[w][k]] \notin {"unused", "begin"}
    BY <1>3, <2>1, <2>2 DEF PathInv
  <2> QED BY <1>1, <1>4, <2>2, <2>3 DEF PathInv
<1> QED BY <1>5, <1>6, <1>7, <1>8, <1>9, <1>10 DEF ConnectionInv

LEMMA CutConnection ==
  ASSUME ConnectionInv, Cut \/ HangUp
  PROVE  ConnectionInv'
<1>1. Abandon /\ (stack # <<>> \/ awaited # <<>>)
  BY DEF Cut, HangUp, Abandon
<1>2. uncollected = {} /\ (flag <=> stack # <<>>) /\ alive \subseteq ToSet(stack)
  BY <1>1 DEF ConnectionInv, StackInv
<1>3. stack \in Seq(Scopes) /\ flag \in BOOLEAN
  BY DEF ConnectionInv, TypeOK
<1>4. ToSet(stack) \subseteq Scopes /\ (ToSet(stack) = {} <=> stack = <<>>)
  <2>1. ToSet(stack) = {stack[i] : i \in DOMAIN stack} /\ DOMAIN stack = 1..Len(stack) /\ Len(stack) \in Nat
    BY <1>3 DEF ToSet
  <2>2. stack # <<>> => 1 \in DOMAIN stack
    BY <1>3, <2>1
  <2>3. stack = <<>> => DOMAIN stack = {}
    OBVIOUS
  <2>4. \A i \in DOMAIN stack : stack[i] \in Scopes /\ stack[i] \in ToSet(stack)
    BY <1>3, <2>1
  <2>5. ToSet(stack) \subseteq Scopes
    BY <2>1, <2>4
  <2>6. CASE stack = <<>>
    BY <2>1, <2>3, <2>5, <2>6
  <2>7. CASE stack # <<>>
    BY <2>2, <2>4, <2>5, <2>7
  <2> QED BY <2>6, <2>7
<1>5. CASE Cut
  <2>1. flag' = FALSE /\ uncollected' = {} /\ alive' = {}
    BY <1>2, <1>5 DEF Cut
  <2> QED BY <1>1, <2>1, AbandonConnection
<1>6. CASE HangUp
  <2>1. flag' = flag /\ uncollected' = ToSet(stack) /\ alive' = alive
    BY <1>6 DEF HangUp
  <2> QED BY <1>1, <1>2, <1>3, <1>4, <2>1, AbandonConnection
<1> QED BY <1>5, <1>6

LEMMA CollectConnection ==
  ASSUME ConnectionInv, Collect
  PROVE  ConnectionInv'
<1>1. /\ uncollected # {} /\ flag' = FALSE /\ alive' = alive \ uncollected /\ uncollected' = {}
      /\ UNCHANGED <<stack, phase, savepoints, name, awaited, answer, dbJobs, frames, db, result, path, overtaken, aborted>>
  BY DEF Collect, sqliteVars, historyVars
<1>2. stack = <<>> /\ ToSet(<<>>) = {}
  BY <1>1 DEF ConnectionInv, StackInv, ToSet
<1>3. alive' = {}
  BY <1>1, <1>2 DEF ConnectionInv, StackInv
<1>4. TypeOK'
  BY <1>1, <1>3 DEF ConnectionInv, TypeOK
<1>5. StackInv'
  BY <1>1, <1>2, <1>3 DEF ConnectionInv, StackInv, Top
<1>6. JobsInv'
  BY <1>1 DEF ConnectionInv, JobsInv, JobInv, StatementInv, ControlInv, Apart, Top
<1>7. CalmInv' /\ OuterStandsAlone' /\ \A w \in Writes : PathInv(w)'
  BY <1>1 DEF ConnectionInv, CalmInv, OuterStandsAlone, PathInv, Top
<1> QED BY <1>4, <1>5, <1>6, <1>7 DEF ConnectionInv

LEMMA BatchIs ==
  ASSUME ConnectionInv, NEW b \in Batches
  PROVE  /\ b \in Seq(Writes) /\ Len(b) <= MaxBatch /\ b # <<>> /\ DOMAIN b = 1..Len(b) /\ Len(b) \in Nat
         /\ \A k \in DOMAIN b : b[k] \in Writes /\ result[b[k]] = "unissued"
         /\ \A k, m \in DOMAIN b : b[k] = b[m] => k = m
<1>1. PICK n \in 1..MaxBatch : b \in [1..n -> {w \in Writes : result[w] = "unissued"}]
  BY DEF Batches
<1>2. n \in Nat /\ n >= 1 /\ n <= MaxBatch /\ DOMAIN b = 1..n
  BY <1>1, BatchIsPositive
<1>3. IsInjective(b)
  BY DEF Batches
<1>4. b \in Seq(Writes) /\ Len(b) = n
  BY <1>1, <1>2
<1>5. \A k \in DOMAIN b : b[k] \in Writes /\ result[b[k]] = "unissued"
  BY <1>1
<1>6. \A k, m \in DOMAIN b : b[k] = b[m] => k = m
  BY <1>3, Zenon DEF IsInjective
<1> QED BY <1>2, <1>4, <1>5, <1>6

LEMMA IssueConnection ==
  ASSUME ConnectionInv, InLua, NEW b \in Batches, NEW outer \in BOOLEAN, Issue(b, outer), outer <=> stack = <<>>,
         uncollected = {}
  PROVE  ConnectionInv'
<1>1. /\ awaited' = b
      /\ result' = [w \in Writes |-> IF w \in ToSet(b) THEN "sent" ELSE result[w]]
      /\ path' = [w \in Writes |-> IF w \in ToSet(b) THEN stack ELSE path[w]]
      /\ UNCHANGED <<flag, alive, uncollected, stack, phase, savepoints, name, answer, frames, db, overtaken, aborted>>
  BY DEF Issue, sqliteVars
<1>2. /\ awaited = <<>> /\ answer = "none" /\ (stack = <<>> \/ phase[Top] = "body")
      /\ \A i \in DOMAIN stack : phase[stack[i]] = "body"
  BY InLuaIs
<1>3. /\ b \in Seq(Writes) /\ Len(b) <= MaxBatch /\ DOMAIN b = 1..Len(b) /\ Len(b) \in Nat
      /\ \A k \in DOMAIN b : b[k] \in Writes /\ result[b[k]] = "unissued"
      /\ \A k, m \in DOMAIN b : b[k] = b[m] => k = m
  BY BatchIs
<1>4. \A w \in Writes : w \in ToSet(b) => result[w] = "unissued"
  BY <1>3 DEF ToSet
<1>5. \A k \in DOMAIN b : b[k] \in ToSet(b)
  BY DEF ToSet
<1>6. /\ stack \in Seq(Scopes) /\ path \in [Writes -> Seq(Scopes)]
      /\ result \in [Writes -> {"unissued", "sent", "ok", "failed"}]
  BY DEF ConnectionInv, TypeOK
<1>7. /\ result' \in [Writes -> {"unissued", "sent", "ok", "failed"}] /\ path' \in [Writes -> Seq(Scopes)]
      /\ \A w \in Writes : w \in ToSet(b) => result'[w] = "sent" /\ path'[w] = stack
      /\ \A w \in Writes : w \notin ToSet(b) => result'[w] = result[w] /\ path'[w] = path[w]
  BY <1>1, <1>6
<1>8. /\ dbJobs' \in Seq(JobRecords) /\ Len(dbJobs) \in Nat
      /\ \A k \in DOMAIN dbJobs : k \in DOMAIN dbJobs' /\ dbJobs'[k] = dbJobs[k] /\ k <= Len(dbJobs)
      /\ \A k \in DOMAIN dbJobs' : k \notin DOMAIN dbJobs =>
           /\ k - Len(dbJobs) \in DOMAIN b /\ k > Len(dbJobs)
           /\ dbJobs'[k] = Job("statement", outer, b[k - Len(dbJobs)])
  BY <1>3, JobTypes, IssueIs
<1>9. \A i \in DOMAIN dbJobs : ~dbJobs[i].live
  BY <1>2, QuietWhen
<1>10. ASSUME NEW k \in DOMAIN dbJobs', k \notin DOMAIN dbJobs
       PROVE  /\ dbJobs'[k].kind = "statement" /\ dbJobs'[k].outer = outer /\ dbJobs'[k].live = TRUE
              /\ dbJobs'[k].of = b[k - Len(dbJobs)] /\ dbJobs'[k].of \in Writes /\ dbJobs'[k].of \in ToSet(b)
  <2>1. PICK m \in DOMAIN b : m = k - Len(dbJobs) /\ dbJobs'[k] = Job("statement", outer, b[m])
    BY <1>8, <1>10
  <2> QED BY <1>3, <1>5, <2>1 DEF Job
<1>11. ASSUME NEW k \in DOMAIN dbJobs, dbJobs[k].kind = "statement"
       PROVE  /\ dbJobs[k].of \in Writes /\ dbJobs[k].of \notin ToSet(b)
              /\ result'[dbJobs[k].of] = "sent" /\ path'[dbJobs[k].of] = path[dbJobs[k].of]
  <2>1. dbJobs[k].of \in Writes /\ result[dbJobs[k].of] = "sent"
    BY <1>11 DEF ConnectionInv, JobsInv, JobInv, StatementInv
  <2> QED BY <1>4, <1>7, <2>1
<1>12. ASSUME NEW k \in DOMAIN dbJobs' PROVE JobInv(dbJobs[k])'
  <2>1. CASE k \notin DOMAIN dbJobs
    <3>1. StatementInv(dbJobs[k])'
      BY <1>1, <1>7, <1>10, <2>1 DEF StatementInv
    <3> QED BY <1>10, <2>1, <3>1 DEF JobInv
  <2>2. CASE k \in DOMAIN dbJobs
    <3>1. JobInv(dbJobs[k]) /\ ~dbJobs[k].live /\ dbJobs'[k] = dbJobs[k]
      BY <1>8, <1>9, <2>2 DEF ConnectionInv, JobsInv
    <3>2. CASE dbJobs[k].kind = "statement"
      BY <1>11, <2>2, <3>1, <3>2 DEF JobInv, StatementInv
    <3>3. CASE dbJobs[k].kind # "statement"
      BY <1>1, <3>1, <3>3 DEF JobInv, ControlInv
    <3> QED BY <3>2, <3>3
  <2> QED BY <2>1, <2>2
<1>13. ASSUME NEW i \in DOMAIN dbJobs', NEW k \in DOMAIN dbJobs', i < k, ~dbJobs'[k].live PROVE ~dbJobs'[i].live
  <2>1. k \in DOMAIN dbJobs
    BY <1>10, <1>13
  <2>2. i \in DOMAIN dbJobs
    <3>1. k <= Len(dbJobs) /\ i \in Nat /\ k \in Nat
      BY <1>8, <1>13, <2>1
    <3> QED BY <1>8, <1>13, <3>1
  <2> QED BY <1>8, <1>9, <2>2
<1>14. ASSUME NEW i \in DOMAIN dbJobs', NEW k \in DOMAIN dbJobs', i # k PROVE Apart(dbJobs'[i], dbJobs'[k])
  <2>1. CASE i \in DOMAIN dbJobs /\ k \in DOMAIN dbJobs
    BY <1>8, <1>14, <2>1 DEF ConnectionInv, JobsInv
  <2>2. CASE i \in DOMAIN dbJobs /\ k \notin DOMAIN dbJobs
    BY <1>8, <1>10, <1>11, <2>2 DEF Apart
  <2>3. CASE i \notin DOMAIN dbJobs /\ k \in DOMAIN dbJobs
    BY <1>8, <1>10, <1>11, <2>3 DEF Apart
  <2>4. CASE i \notin DOMAIN dbJobs /\ k \notin DOMAIN dbJobs
    <3>1. i - Len(dbJobs) \in DOMAIN b /\ k - Len(dbJobs) \in DOMAIN b /\ i - Len(dbJobs) # k - Len(dbJobs)
      BY <1>8, <1>14, <2>4
    <3>2. dbJobs'[i].of # dbJobs'[k].of
      BY <1>3, <1>10, <2>4, <3>1
    <3> QED BY <1>10, <2>4, <3>2 DEF Apart
  <2> QED BY <2>1, <2>2, <2>3, <2>4
<1>15. JobsInv'
  BY <1>12, <1>13, <1>14 DEF JobsInv, Apart
<1>16. StackInv'
  BY <1>1, <1>2 DEF ConnectionInv, StackInv, Top
<1>17. TypeOK'
  BY <1>1, <1>3, <1>7, <1>8 DEF ConnectionInv, TypeOK, JobRecords
<1>18. CalmInv'
  BY <1>1 DEF ConnectionInv, CalmInv, Top
<1>19. OuterStandsAlone'
  BY <1>1, <1>7 DEF ConnectionInv, OuterStandsAlone
<1>20. ASSUME NEW w \in Writes PROVE PathInv(w)'
  <2>1. CASE w \notin ToSet(b)
    BY <1>1, <1>7, <2>1 DEF ConnectionInv, PathInv
  <2>2. CASE w \in ToSet(b)
    <3>1. path'[w] = stack
      BY <1>7, <2>2
    <3>2. /\ \A k \in DOMAIN stack : phase[stack[k]] \notin {"unused", "begin"} /\ (name[stack[k]] = Begin <=> k = 1)
          /\ \A k, m \in DOMAIN stack : stack[k] = stack[m] => k = m
      BY <1>2 DEF ConnectionInv, StackInv, TypeOK
    <3> QED BY <1>1, <3>1, <3>2 DEF PathInv
  <2> QED BY <2>1, <2>2
<1> QED BY <1>15, <1>16, <1>17, <1>18, <1>19, <1>20 DEF ConnectionInv

LEMMA StatementsConnection ==
  ASSUME ConnectionInv, NEW b \in Batches, OuterStatements(b) \/ InnerStatements(b)
  PROVE  ConnectionInv'
<1>1. CASE OuterStatements(b)
  <2>1. InLua /\ ~flag /\ Issue(b, TRUE)
    BY <1>1 DEF OuterStatements
  <2>2. stack = <<>> /\ uncollected = {}
    BY <2>1 DEF ConnectionInv, StackInv
  <2> QED BY <2>1, <2>2, IssueConnection
<1>2. CASE InnerStatements(b)
  <2>1. InLua /\ alive \ uncollected # {} /\ Issue(b, FALSE)
    BY <1>2 DEF InnerStatements
  <2>2. stack # <<>> /\ uncollected = {}
    <3>1. ToSet(<<>>) = {}
      BY DEF ToSet
    <3> QED BY <2>1, <3>1 DEF ConnectionInv, StackInv
  <2> QED BY <2>1, <2>2, IssueConnection
<1> QED BY <1>1, <1>2

LEMMA ConnectionInitial == Init => ConnectionInv
<1> SUFFICES ASSUME Init PROVE ConnectionInv
  OBVIOUS
<1>1. /\ flag = FALSE /\ alive = {} /\ uncollected = {} /\ stack = <<>> /\ awaited = <<>> /\ answer = "none" /\ dbJobs = <<>>
      /\ frames = <<>> /\ db = {} /\ overtaken = FALSE /\ aborted = {}
      /\ phase = [s \in Scopes |-> "unused"] /\ savepoints = [s \in Scopes |-> 0] /\ name = [s \in Scopes |-> Begin]
      /\ result = [w \in Writes |-> "unissued"] /\ path = [w \in Writes |-> <<>>]
  BY DEF Init
<1>2. /\ \A S : <<>> \in Seq(S)
      /\ Len(<<>>) = 0 /\ DOMAIN <<>> = {} /\ 0 <= MaxDepth /\ 0 <= MaxBatch
  BY DepthIsPositive, BatchIsPositive
<1>3. TypeOK
  BY <1>1, <1>2 DEF TypeOK, Phases
<1>4. StackInv
  BY <1>1, <1>2 DEF StackInv, InControl
<1>5. JobsInv
  BY <1>1, <1>2 DEF JobsInv
<1>6. CalmInv /\ OuterStandsAlone
  BY <1>1, <1>2 DEF CalmInv, OuterStandsAlone
<1>7. \A w \in Writes : PathInv(w)
  BY <1>1, <1>2 DEF PathInv
<1> QED BY <1>3, <1>4, <1>5, <1>6, <1>7 DEF ConnectionInv

LEMMA ConnectionInductive == ConnectionInv /\ [Next]_vars => ConnectionInv'
<1> SUFFICES ASSUME ConnectionInv, [Next]_vars PROVE ConnectionInv'
  OBVIOUS
<1>1. CASE RunJob
  BY <1>1, RunStatementConnection, RunBeginConnection, RunCommitConnection, RunReleaseConnection,
     RunRollbackConnection, RunRollbackToConnection DEF RunJob
<1>2. CASE \E b \in Batches : OuterStatements(b) \/ InnerStatements(b)
  BY <1>2, StatementsConnection
<1>3. CASE Deliver \/ Cut \/ HangUp \/ Collect
  BY <1>3, DeliverConnection, CutConnection, CollectConnection
<1>4. CASE (\E s \in Scopes : Transaction(s)) \/ (\E tx, s \in Scopes : Savepoint(tx, s))
  BY <1>4, TransactionConnection, SavepointConnection
<1>5. CASE Begun \/ NotBegun \/ Committed \/ RolledBack
  BY <1>5, BegunConnection, EndsConnection
<1>6. CASE BodyReturns \/ BodyRaises \/ CommitFails
  BY <1>6, GoesOnConnection
<1>7. CASE UNCHANGED vars
  BY <1>7 DEF vars, ConnectionInv, TypeOK, StackInv, JobsInv, JobInv, StatementInv, ControlInv, Apart, CalmInv,
              OuterStandsAlone, PathInv, Top
<1> QED BY <1>1, <1>2, <1>3, <1>4, <1>5, <1>6, <1>7 DEF Next

LEMMA ConnectionInvHolds == Spec => []ConnectionInv
BY ConnectionInitial, ConnectionInductive, PTL DEF Spec

\* Statements, scopes, jobs and frames keep their types whatever is cut, fails or runs
\* late; an inner scope is always a savepoint, the outermost one a transaction.
THEOREM TransactionTypeCorrect == Spec => []TypeOK
<1>1. ConnectionInv => TypeOK
  BY DEF ConnectionInv
<1> QED BY <1>1, ConnectionInvHolds, PTL

\* Between handlers no flag refuses a statement and no stashed `tx` works, but those of a
\* handler that hung up until its coroutine is collected; and only a cut leaves a
\* transaction open (TxGuard, ScopeEnd, run_transaction, call_function).
THEOREM ConnectionStaysUsable == Spec => []ConnectionIsUsable
<1>1. ConnectionInv => ConnectionIsUsable
  <2> SUFFICES ASSUME ConnectionInv PROVE ConnectionIsUsable
    OBVIOUS
  <2>1. NeverBricked
    <3>1. ToSet(<<>>) = {}
      BY DEF ToSet
    <3> QED BY <3>1 DEF ConnectionInv, StackInv, NeverBricked
  <2>2. EndsInAutocommit
    BY DEF ConnectionInv, CalmInv, EndsInAutocommit
  <2> QED BY <2>1, <2>2 DEF ConnectionIsUsable
<1> QED BY <1>1, ConnectionInvHolds, PTL


-----------------------------------------------------------------------------
(* Rows of frames *)

LEMMA RowsIn ==
  ASSUME NEW fs, NEW w
  PROVE  w \in Rows(fs) <=> \E i \in DOMAIN fs : w \in fs[i].rows
BY DEF Rows

LEMMA NoRows == Rows(<<>>) = {}
BY DEF Rows

LEMMA AppendRows ==
  ASSUME NEW fs \in Seq(Frames), NEW n \in Nat \cup {Begin}
  PROVE  Rows(Append(fs, Frame(n))) \subseteq Rows(fs)
<1> DEFINE new == Frame(n)
           gs == Append(fs, new)
<1>1. new \in Frames /\ new.rows = {} /\ new.name = n
  BY DEF Frame, Frames
<1> HIDE DEF new
<1>2. /\ \A i \in DOMAIN gs : i \in DOMAIN fs \/ i = Len(fs) + 1
      /\ \A i \in DOMAIN fs : gs[i] = fs[i]
      /\ gs[Len(fs) + 1] = new
  BY <1>1
<1> HIDE DEF gs
<1>3. ASSUME NEW w \in Rows(gs) PROVE w \in Rows(fs)
  <2>1. PICK i \in DOMAIN gs : w \in gs[i].rows
    BY <1>3, RowsIn
  <2>2. i \in DOMAIN fs /\ w \in fs[i].rows
    BY <1>1, <1>2, <2>1
  <2> QED BY <2>2, RowsIn
<1> QED BY <1>3 DEF gs, new

LEMMA PrefixRows ==
  ASSUME NEW fs \in Seq(Frames), NEW k \in 0..Len(fs)
  PROVE  Rows(SubSeq(fs, 1, k)) \subseteq Rows(fs)
<1> DEFINE gs == SubSeq(fs, 1, k)
<1>1. \A i \in DOMAIN gs : i \in DOMAIN fs /\ gs[i] = fs[i]
  OBVIOUS
<1> HIDE DEF gs
<1>2. ASSUME NEW w \in Rows(gs) PROVE w \in Rows(fs)
  <2>1. PICK i \in DOMAIN gs : w \in gs[i].rows
    BY <1>2, RowsIn
  <2> QED BY <1>1, <2>1, RowsIn
<1> QED BY <1>2 DEF gs

LEMMA MergeRows ==
  ASSUME NEW fs \in Seq(Frames), NEW k \in DOMAIN fs, k > 1
  PROVE  Rows(Merge(fs, k)) \subseteq Rows(fs)
<1> DEFINE gs == Merge(fs, k)
           above == SubSeq(fs, k, Len(fs))
<1>1. /\ k \in Nat /\ 1 < k /\ k <= Len(fs) /\ Len(fs) \in Nat /\ DOMAIN fs = 1..Len(fs)
  OBVIOUS
<1>2. /\ \A i \in DOMAIN above : i + (k - 1) \in DOMAIN fs /\ above[i] = fs[i + (k - 1)]
  BY <1>1
<1>3. /\ gs \in Seq(Frames) /\ Len(gs) = k - 1
      /\ \A n \in 1..(k - 2) : gs[n].rows = fs[n].rows
      /\ gs[k - 1].rows = fs[k - 1].rows \cup Rows(above)
  BY MergeIs
<1> HIDE DEF gs, above
<1>4. \A n \in DOMAIN gs : n \in DOMAIN fs /\ (n = k - 1 \/ n \in 1..(k - 2))
  BY <1>1, <1>3
<1>5. Rows(above) \subseteq Rows(fs)
  <2>1. ASSUME NEW w \in Rows(above) PROVE w \in Rows(fs)
    <3>1. PICK i \in DOMAIN above : w \in above[i].rows
      BY <2>1, RowsIn
    <3> QED BY <1>2, <3>1, RowsIn
  <2> QED BY <2>1
<1>6. ASSUME NEW w \in Rows(gs) PROVE w \in Rows(fs)
  <2>1. PICK n \in DOMAIN gs : w \in gs[n].rows
    BY <1>6, RowsIn
  <2>2. CASE n \in 1..(k - 2)
    <3>1. n \in DOMAIN fs /\ w \in fs[n].rows
      BY <1>3, <1>4, <2>1, <2>2
    <3> QED BY <3>1, RowsIn
  <2>3. CASE n = k - 1
    <3>1. n \in DOMAIN fs /\ (w \in fs[n].rows \/ w \in Rows(above))
      BY <1>3, <1>4, <2>1, <2>3
    <3> QED BY <1>5, <3>1, RowsIn
  <2> QED BY <1>4, <2>2, <2>3
<1> QED BY <1>6 DEF gs

-----------------------------------------------------------------------------
(* What is left of the queue *)

\* The jobs of the queue are jobs that were in it, in the same order.
Echo(f) ==
  /\ f \in [DOMAIN dbJobs' -> DOMAIN dbJobs]
  /\ \A k \in DOMAIN dbJobs' :
       /\ dbJobs'[k].kind = dbJobs[f[k]].kind
       /\ dbJobs'[k].of = dbJobs[f[k]].of
       /\ dbJobs'[k].outer = dbJobs[f[k]].outer
  /\ \A k, m \in DOMAIN dbJobs' : k < m => f[k] < f[m]

LEMMA LeaveEcho ==
  ASSUME ConnectionInv, NEW i \in DOMAIN dbJobs, Leave(i)
  PROVE  \E f : Echo(f) /\ \A k \in DOMAIN dbJobs' : f[k] # i /\ dbJobs'[k].live = dbJobs[f[k]].live
<1>1. /\ \A k \in DOMAIN dbJobs' : /\ Was(i, k) \in DOMAIN dbJobs /\ Was(i, k) # i
                                   /\ dbJobs'[k] = dbJobs[Was(i, k)]
      /\ \A k, m \in DOMAIN dbJobs' : k < m => Was(i, k) < Was(i, m)
  BY JobTypes, LeaveIs
<1> DEFINE f == [k \in DOMAIN dbJobs' |-> Was(i, k)]
<1>2. f \in [DOMAIN dbJobs' -> DOMAIN dbJobs] /\ \A k \in DOMAIN dbJobs' : f[k] = Was(i, k)
  BY <1>1
<1> HIDE DEF f
<1>3. Echo(f)
  BY <1>1, <1>2 DEF Echo
<1> QED BY <1>1, <1>2, <1>3

LEMMA SameEcho ==
  ASSUME UNCHANGED dbJobs, dbJobs \in Seq(JobRecords)
  PROVE  Echo([k \in DOMAIN dbJobs' |-> k])
BY DEF Echo

LEMMA OrphanedEcho ==
  ASSUME dbJobs' = Orphaned(dbJobs), dbJobs \in Seq(JobRecords)
  PROVE  Echo([k \in DOMAIN dbJobs' |-> k])
BY OrphanedIs DEF Echo

\* What the handler expects of the connection does not change.
SameView ==
  HasBegun' =>
    /\ HasBegun /\ Depth' = Depth
    /\ stack'[1] = stack[1]
    /\ \A i \in 1..Depth : stack'[i] = stack[i] /\ name'[stack[i]] = name[stack[i]]
    /\ \A s \in Scopes : Released(s)' <=> Released(s)

\* Nor do the statements that succeeded.
SameRows ==
  \A w \in Writes : (result'[w] = "ok" <=> result[w] = "ok") /\ (result[w] = "ok" => path'[w] = path[w])

LEMMA AlignedKeeps ==
  ASSUME ConnectionInv, SameView, SameRows, HasBegun', Aligned, UNCHANGED frames
  PROVE  Aligned'
<1>1. /\ HasBegun /\ Depth' = Depth /\ \A i \in 1..Depth : stack'[i] = stack[i] /\ name'[stack[i]] = name[stack[i]]
  BY DEF SameView
<1>2. ASSUME NEW i \in 1..Depth PROVE RowsAt(i)' = RowsAt(i)
  <2>1. ASSUME NEW w \in Writes, result[w] = "ok", NEW k \in DOMAIN path[w] PROVE Released(path[w][k])' <=> Released(path[w][k])
    <3>1. PICK s \in Scopes : s = path[w][k]
      BY <2>1 DEF ConnectionInv, TypeOK
    <3>2. path'[w] = path[w]
      BY <2>1 DEF SameRows
    <3>3. Released(s)' <=> Released(s)
      BY DEF SameView
    <3> QED BY <3>1, <3>2, <3>3 DEF Released
  <2>2. ASSUME NEW w \in Writes PROVE w \in RowsAt(i)' <=> w \in RowsAt(i)
    <3>1. CASE result[w] # "ok"
      BY <3>1 DEF RowsAt, SameRows
    <3>2. CASE result[w] = "ok"
      <4>1. path'[w] = path[w] /\ result'[w] = "ok" /\ stack'[i] = stack[i]
        BY <1>1, <3>2 DEF SameRows
      <4>2. path[w] \in Seq(Scopes) /\ \A k \in (i + 1)..Len(path[w]) : k \in DOMAIN path[w]
        BY DEF ConnectionInv, TypeOK
      <4>3. (\A k \in (i + 1)..Len(path[w]) : Released(path[w][k])') <=> \A k \in (i + 1)..Len(path[w]) : Released(path[w][k])
        BY <2>1, <3>2, <4>2
      <4>4. w \in RowsAt(i) <=> i <= Len(path[w]) /\ path[w][i] = stack[i] /\ \A k \in (i + 1)..Len(path[w]) : Released(path[w][k])
        BY <3>2 DEF RowsAt
      <4>5. w \in RowsAt(i)' <=> i <= Len(path[w]) /\ path[w][i] = stack[i] /\ \A k \in (i + 1)..Len(path[w]) : Released(path[w][k])'
        BY <4>1 DEF RowsAt
      <4> QED BY <4>3, <4>4, <4>5
    <3> QED BY <3>1, <3>2
  <2> QED BY <2>2 DEF RowsAt
<1> QED BY <1>1, <1>2 DEF Aligned


LEMMA EchoQueue ==
  ASSUME QueueInv, NEW f, Echo(f), UNCHANGED <<name, path>>, SameView,
         HasBegun' => \A k \in DOMAIN dbJobs' : dbJobs'[k].kind # "statement" => dbJobs'[k].live
  PROVE  QueueInv'
<1>1. \A i, k \in DOMAIN dbJobs' : i < k /\ ~dbJobs'[k].outer => ~dbJobs'[i].outer /\ dbJobs'[i].kind = "statement"
  BY DEF QueueInv, Echo, IsInner
<1>2. ASSUME HasBegun', NEW i \in DOMAIN dbJobs'
      PROVE  /\ ~dbJobs'[i].outer
             /\ dbJobs'[i].kind = "statement" =>
                  /\ Len(path'[dbJobs'[i].of]) = Depth'
                  /\ \A k \in 1..Depth' : path'[dbJobs'[i].of][k] = stack'[k]
             /\ dbJobs'[i].kind # "statement" => dbJobs'[i].live
  <2>1. f[i] \in DOMAIN dbJobs /\ HasBegun /\ Depth' = Depth /\ \A k \in 1..Depth : stack'[k] = stack[k]
    BY <1>2 DEF Echo, SameView
  <2> QED BY <1>2, <2>1 DEF QueueInv, Echo, IsInner
<1>3. ASSUME NEW i \in DOMAIN dbJobs', NEW k \in DOMAIN dbJobs', IsCommit(i)', dbJobs'[k].kind = "statement", ~dbJobs'[k].outer
      PROVE  Len(path'[dbJobs'[k].of]) = 1
  <2>1. f[i] \in DOMAIN dbJobs /\ f[k] \in DOMAIN dbJobs /\ IsCommit(f[i])
    BY <1>3 DEF Echo, IsCommit
  <2> QED BY <1>3, <2>1 DEF QueueInv, Echo, IsInner
<1> QED BY <1>1, <1>2, <1>3 DEF QueueInv, IsInner

LEMMA EmptyQueue ==
  ASSUME DOMAIN dbJobs' = {}
  PROVE  QueueInv'
BY DEF QueueInv

LEMMA EchoMine ==
  ASSUME NEW o, Mine(o), NEW f, Echo(f), UNCHANGED <<name, path>>, Rows(frames') \subseteq RowsOf(o), HasBegun' => stack'[1] = o
  PROVE  Mine(o)'
<1>1. RowsOf(o)' = RowsOf(o)
  BY DEF RowsOf
<1>2. \A i \in DOMAIN dbJobs' : dbJobs'[i].kind = "statement" /\ ~dbJobs'[i].outer => path'[dbJobs'[i].of][1] = o
  BY DEF Mine, Echo, IsInner
<1>3. \A i \in DOMAIN dbJobs' : IsCommit(i)' => dbJobs'[i].of = o
  BY DEF Mine, Echo, IsCommit
<1> QED BY <1>1, <1>2, <1>3 DEF Mine, IsInner

\* With the frames as they were.
LEMMA EchoSound ==
  ASSUME NEW o, Sound(o), NEW f, Echo(f), UNCHANGED <<name, frames>>, HasBegun' => Aligned',
         (\E i \in DOMAIN dbJobs : IsCommit(i)) => Kept(o)' = Kept(o)
  PROVE  Sound(o)'
<1>1. (\E i \in DOMAIN dbJobs' : ~dbJobs'[i].outer) => \E i \in DOMAIN dbJobs : IsInner(i)
  BY DEF Echo, IsInner
<1>2. (\E i \in DOMAIN dbJobs' : IsCommit(i)') => \E i \in DOMAIN dbJobs : IsCommit(i)
  BY DEF Echo, IsCommit
<1>3. (\E i \in DOMAIN dbJobs' : IsInner(i)') => frames' # <<>>
  BY <1>1 DEF Sound, IsInner
<1>4. (\E i \in DOMAIN dbJobs' : IsCommit(i)') => Len(frames') = 1 /\ frames'[1].rows = Kept(o)'
  BY <1>2 DEF Sound
<1>5. \A i \in DOMAIN frames' : frames'[i].name = Begin <=> i = 1
  BY DEF Sound
<1> QED BY <1>3, <1>4, <1>5 DEF Sound

LEMMA KeptSame ==
  ASSUME ConnectionInv, SameRows, NEW s,
         \A x \in Scopes : phase'[x] = "committed" <=> phase[x] = "committed"
  PROVE  Kept(s)' = Kept(s)
<1>1. ASSUME NEW w \in Writes, result[w] = "ok"
      PROVE  /\ path'[w] = path[w]
             /\ \A i \in 2..Len(path[w]) : phase'[path[w][i]] = "committed" <=> phase[path[w][i]] = "committed"
  <2>1. path[w] \in Seq(Scopes)
    BY DEF ConnectionInv, TypeOK
  <2>2. \A i \in 2..Len(path[w]) : path[w][i] \in Scopes
    BY <2>1
  <2> QED BY <1>1, <2>2 DEF SameRows
<1>2. ASSUME NEW w \in Writes PROVE w \in Kept(s)' <=> w \in Kept(s)
  <2>1. CASE result[w] # "ok"
    BY <2>1 DEF Kept, SameRows
  <2>2. CASE result[w] = "ok"
    <3>1. result'[w] = "ok" /\ path'[w] = path[w]
      BY <1>1, <2>2 DEF SameRows
    <3> QED BY <1>1, <2>2, <3>1 DEF Kept, RowsOf
  <2> QED BY <2>1, <2>2
<1> QED BY <1>2 DEF Kept, RowsOf

\* A step of the handler that leaves the connection alone.
LEMMA EchoOwned ==
  ASSUME ConnectionInv, QueueInv, NEW o, Owned(o), NEW f, Echo(f), SameView, SameRows,
         UNCHANGED <<name, path, frames, aborted>>,
         HasBegun' => \A k \in DOMAIN dbJobs' : dbJobs'[k].kind # "statement" => dbJobs'[k].live,
         (\E i \in DOMAIN dbJobs : IsCommit(i)) => Kept(o)' = Kept(o)
  PROVE  QueueInv' /\ Owned(o)'
<1>1. QueueInv'
  BY EchoQueue
<1>2. Mine(o)'
  <2>1. Rows(frames') \subseteq RowsOf(o) /\ (HasBegun' => stack'[1] = o)
    BY DEF Owned, Mine, SameView
  <2> QED BY <2>1, EchoMine DEF Owned
<1>3. ASSUME o \notin aborted' PROVE Sound(o)'
  <2>1. Sound(o)
    BY <1>3 DEF Owned
  <2>2. HasBegun' => Aligned'
    BY <2>1, AlignedKeeps DEF Sound, SameView
  <2> QED BY <2>1, <2>2, EchoSound
<1> QED BY <1>1, <1>2, <1>3 DEF Owned

\* The same rows of a transaction are written, and its scope is where it was.
LEMMA EchoWritten ==
  ASSUME NEW s, WrittenInv(s), NEW f, Echo(f), UNCHANGED <<name, path>>, RowsOf(s) \cap db' = RowsOf(s) \cap db,
         phase[s] \in {"committed", "commit", "cut"} => Kept(s)' = Kept(s),
         phase'[s] = phase[s], phase[s] = "commit" => (answer' = "ok" <=> answer = "ok")
  PROVE  WrittenInv(s)'
<1>1. RowsOf(s)' = RowsOf(s)
  BY DEF RowsOf
<1>2. NoneLeft(s) => NoneLeft(s)'
  BY <1>1 DEF NoneLeft, Echo
<1>3. (\A i \in DOMAIN dbJobs : ~(IsCommit(i) /\ dbJobs[i].of = s)) => \A i \in DOMAIN dbJobs' : ~(IsCommit(i)' /\ dbJobs'[i].of = s)
  BY DEF IsCommit, Echo
<1> QED BY <1>1, <1>2, <1>3 DEF WrittenInv

\* The database has nothing of a transaction under way, or ended with an error.
LEMMA NothingWritten ==
  ASSUME NEW s, RowsOf(s)' \cap db' = {}, phase'[s] # "committed", phase'[s] # "commit" \/ answer' # "ok"
  PROVE  WrittenInv(s)'
BY DEF WrittenInv

\* An inner scope has no rows of its own.
LEMMA InnerRows ==
  ASSUME ConnectionInv, NEW s \in Scopes, name[s] # Begin
  PROVE  RowsOf(s) = {} /\ Kept(s) = {}
<1>1. ASSUME NEW w \in RowsOf(s) PROVE FALSE
  <2>1. w \in Writes /\ path[w] # <<>> /\ path[w][1] = s
    BY <1>1 DEF RowsOf
  <2>2. 1 \in DOMAIN path[w]
    BY <2>1 DEF ConnectionInv, TypeOK
  <2> QED BY <2>1, <2>2 DEF ConnectionInv, PathInv
<1> QED BY <1>1 DEF Kept

LEMMA InnerWritten ==
  ASSUME ConnectionInv', NEW s \in Scopes, name'[s] # Begin
  PROVE  WrittenInv(s)'
<1>1. RowsOf(s)' = {} /\ Kept(s)' = {}
  <2>1. ASSUME NEW w \in Writes, path'[w] # <<>>, path'[w][1] = s PROVE FALSE
    <3>1. 1 \in DOMAIN path'[w]
      BY <2>1 DEF ConnectionInv, TypeOK
    <3> QED BY <2>1, <3>1 DEF ConnectionInv, PathInv
  <2> QED BY <2>1 DEF RowsOf, Kept
<1> QED BY <1>1 DEF WrittenInv, NoneLeft


-----------------------------------------------------------------------------
(* The rows: the handler goes on *)

LEMMA TopIs ==
  ASSUME ConnectionInv, stack # <<>>
  PROVE  /\ stack \in Seq(Scopes) /\ Len(stack) \in Nat /\ Len(stack) >= 1 /\ DOMAIN stack = 1..Len(stack)
         /\ Top = stack[Len(stack)] /\ Top \in Scopes /\ Len(stack) \in DOMAIN stack /\ 1 \in DOMAIN stack
         /\ \A i \in DOMAIN stack : stack[i] \in Scopes
BY DEF ConnectionInv, TypeOK, Top, Last

LEMMA ControlIsTop ==
  ASSUME ConnectionInv, NEW s \in Scopes, phase[s] \in InControl
  PROVE  stack # <<>> /\ s = Top
<1>1. PICK i \in DOMAIN stack : stack[i] = s
  BY DEF ConnectionInv, StackInv
<1>2. stack # <<>>
  BY <1>1 DEF ConnectionInv, TypeOK
<1>3. i = Len(stack)
  BY <1>1 DEF ConnectionInv, StackInv, InControl
<1> QED BY <1>1, <1>2, <1>3, TopIs

\* While nobody awaits anything, the scopes under way have only statements left.
LEMMA QuietQueue ==
  ASSUME QueueInv, HasBegun, \A i \in DOMAIN dbJobs : ~dbJobs[i].live
  PROVE  \A i \in DOMAIN dbJobs : dbJobs[i].kind = "statement" /\ ~IsCommit(i)
BY DEF QueueInv, IsCommit

LEMMA BegunOrder ==
  ASSUME RowsInv, Begun
  PROVE  OrderInv'
<1>1. /\ stack # <<>> /\ phase[Top] = "begin" /\ answer = "ok" /\ answer' = "none"
      /\ phase' = [phase EXCEPT ![Top] = "body"]
      /\ UNCHANGED <<stack, name, awaited, dbJobs, frames, db, result, path, overtaken, aborted>>
  BY DEF Begun, Taken, sqliteVars, historyVars
<1>2. ConnectionInv /\ dbJobs \in Seq(JobRecords) /\ phase \in [Scopes -> Phases]
  BY JobTypes DEF RowsInv, ConnectionInv, TypeOK
<1>3. Top \in Scopes /\ Top' = Top
  BY <1>1, <1>2, TopIs DEF Top
<1>4. phase'[Top] = "body" /\ \A s \in Scopes : s # Top => phase'[s] = phase[s]
  BY <1>1, <1>2, <1>3
<1>5. HasBegun /\ HasBegun' /\ Depth = Len(stack) /\ Depth' = Len(stack)
  BY <1>1, <1>3, <1>4 DEF HasBegun, Depth, TopIsOff
<1>6. \A s \in Scopes : Released(s)' <=> Released(s)
  BY <1>1, <1>3, <1>4 DEF Released
<1>7. SameView /\ SameRows
  BY <1>1, <1>5, <1>6 DEF SameView, SameRows
<1>8. \A s : Kept(s)' = Kept(s)
  BY <1>1, <1>2, <1>4, <1>7, KeptSame
<1>9. \A i \in DOMAIN dbJobs : ~dbJobs[i].live
  <2>1. awaited = <<>>
    BY <1>1, <1>2 DEF ConnectionInv, StackInv
  <2> QED BY <1>1, <1>2, <2>1, QuietWhen
<1> SUFFICES ASSUME ~overtaken' PROVE QueueInv' /\ (\E o \in Owners : Owned(o)') /\ \A s \in Scopes \ aborted' : WrittenInv(s)'
  BY DEF OrderInv, Owners
<1>10. QueueInv /\ (\E o \in Owners : Owned(o)) /\ \A s \in Scopes \ aborted : WrittenInv(s)
  BY <1>1 DEF RowsInv, OrderInv
<1>11. PICK o \in Owners : Owned(o)
  BY <1>10
<1>12. PICK f : Echo(f)
  BY <1>1, <1>2, SameEcho
<1>13. QueueInv' /\ Owned(o)'
  BY <1>1, <1>2, <1>5, <1>7, <1>8, <1>9, <1>10, <1>11, <1>12, QuietQueue, EchoOwned
<1>14. ASSUME NEW s \in Scopes \ aborted' PROVE WrittenInv(s)'
  <2>1. WrittenInv(s) /\ RowsOf(s)' = RowsOf(s)
    BY <1>1, <1>10 DEF RowsOf
  <2>2. CASE s = Top
    <3>1. RowsOf(s) \cap db = {}
      BY <1>1, <2>1, <2>2 DEF WrittenInv
    <3> QED BY <1>1, <1>4, <2>1, <2>2, <3>1, NothingWritten
  <2>3. CASE s # Top
    <3>1. phase[s] # "commit" /\ phase'[s] = phase[s]
      BY <1>2, <1>4, <2>3, ControlIsTop DEF InControl
    <3> QED BY <1>1, <1>8, <1>12, <2>1, <3>1, EchoWritten
  <2> QED BY <2>2, <2>3
<1> QED BY <1>13, <1>14


\* A scope of the stack has rows only in the transaction under way.
LEMMA KeptApart ==
  ASSUME ConnectionInv, stack # <<>>, NEW s \in Scopes, phase[s] # "body", NEW w \in RowsOf(s), NEW i \in 2..Len(path[w])
  PROVE  path[w][i] # Top /\ path[w][i] \in Scopes
<1>1. w \in Writes /\ path[w] \in Seq(Scopes) /\ path[w][1] = s
  BY DEF RowsOf, ConnectionInv, TypeOK
<1>2. i \in DOMAIN path[w] /\ path[w][i] \in Scopes /\ 1 \in 1..i /\ i # 1
  BY <1>1
<1>3. Len(stack) \in DOMAIN stack /\ Top = stack[Len(stack)] /\ 1 \in DOMAIN stack
  BY TopIs
<1>4. ASSUME path[w][i] = Top PROVE FALSE
  <2>1. i = Len(stack) /\ path[w][1] = stack[1]
    BY <1>1, <1>2, <1>3, <1>4 DEF ConnectionInv, PathInv
  <2>2. phase[stack[1]] = "body"
    BY <1>2, <1>3, <2>1 DEF ConnectionInv, StackInv
  <2> QED BY <1>1, <2>1, <2>2
<1> QED BY <1>2, <1>4

LEMMA ExitOrder ==
  ASSUME RowsInv, ConnectionInv', stack # <<>>, TopIsOff, answer # "none", answer' = "none", phase[Top] \in InControl,
         NEW how \in {"committed", "rolledback", "failed"}, how = "committed" <=> phase[Top] = "commit",
         phase' = [phase EXCEPT ![Top] = how], stack' = Front(stack),
         UNCHANGED <<name, awaited, dbJobs, frames, db, result, path, overtaken, aborted>>
  PROVE  OrderInv'
<1>1. ConnectionInv /\ dbJobs \in Seq(JobRecords) /\ phase \in [Scopes -> Phases] /\ stack \in Seq(Scopes)
  BY JobTypes DEF RowsInv, ConnectionInv, TypeOK
<1>2. /\ Top \in Scopes /\ Top = stack[Len(stack)] /\ Len(stack) \in Nat /\ DOMAIN stack = 1..Len(stack)
      /\ Len(stack) \in DOMAIN stack
  BY <1>1, TopIs
<1>3. phase'[Top] = how /\ \A s \in Scopes : s # Top => phase'[s] = phase[s]
  BY <1>1, <1>2
<1>4. /\ stack' \in Seq(Scopes) /\ Len(stack') = Len(stack) - 1
      /\ \A i \in DOMAIN stack' : i \in DOMAIN stack /\ i # Len(stack) /\ stack'[i] = stack[i]
      /\ stack' = <<>> <=> Len(stack) = 1
  BY <1>1, FrontIs
<1>5. ASSUME stack' # <<>> PROVE Top' \in Scopes /\ Top' # Top /\ phase'[Top'] = "body" /\ 1 \in DOMAIN stack'
  <2>1. Len(stack') \in DOMAIN stack' /\ Top' = stack'[Len(stack')] /\ 1 \in DOMAIN stack'
    BY <1>4, <1>5 DEF Top, Last
  <2>2. Top' = stack[Len(stack')] /\ Len(stack') \in DOMAIN stack /\ Len(stack') # Len(stack)
    BY <1>4, <2>1
  <2>3. Top' # Top /\ phase[Top'] = "body" /\ Top' \in Scopes
    BY <1>1, <1>2, <2>2 DEF ConnectionInv, StackInv
  <2> QED BY <1>3, <2>1, <2>3
<1>6. Depth = Len(stack) - 1 /\ (Len(stack) # 1 => HasBegun) /\ (phase[Top] # "begin" => HasBegun)
  BY DEF Depth, HasBegun
<1>7. HasBegun' => stack' # <<>> /\ Depth' = Len(stack) - 1
  BY <1>4, <1>5 DEF HasBegun, Depth, TopIsOff
<1>8. ASSUME stack' # <<>>, NEW s \in Scopes PROVE Released(s)' <=> Released(s)
  <2>1. Released(s)' <=> phase'[s] = "committed"
    BY <1>5, <1>8 DEF Released
  <2>2. Released(s) <=> phase[s] = "committed" \/ (s = Top /\ phase[Top] = "commit")
    BY DEF Released, TopIsOff
  <2>3. phase[Top] # "committed"
    BY DEF InControl
  <2> QED BY <1>3, <2>1, <2>2, <2>3
<1>9. SameRows
  BY DEF SameRows
<1>10. SameView
  <2>1. ASSUME NEW i \in 1..Depth PROVE stack'[i] = stack[i] /\ name'[stack[i]] = name[stack[i]]
    <3>1. i \in DOMAIN stack'
      BY <1>4, <1>6
    <3> QED BY <1>4, <3>1
  <2>2. stack' # <<>> => stack'[1] = stack[1]
    BY <1>4, <1>5
  <2> QED BY <1>4, <1>6, <1>7, <1>8, <2>1, <2>2 DEF SameView
<1>11. \A i \in DOMAIN dbJobs : ~dbJobs[i].live
  <2>1. awaited = <<>>
    BY <1>1 DEF ConnectionInv, StackInv, InControl
  <2> QED BY <1>1, <2>1, QuietWhen
<1>12. how # "committed" => \A s : Kept(s)' = Kept(s)
  <2>1. phase[Top] # "committed"
    BY DEF InControl
  <2> QED BY <1>1, <1>3, <1>9, <2>1, KeptSame
<1>13. ASSUME NEW s \in Scopes, phase[s] # "body" PROVE Kept(s)' = Kept(s)
  <2>1. \A w \in RowsOf(s) : \A i \in 2..Len(path[w]) : phase'[path[w][i]] = phase[path[w][i]]
    BY <1>1, <1>3, <1>13, KeptApart
  <2> QED BY <2>1 DEF Kept, RowsOf
<1> SUFFICES ASSUME ~overtaken' PROVE QueueInv' /\ (\E o \in Owners : Owned(o)') /\ \A s \in Scopes \ aborted' : WrittenInv(s)'
  BY DEF OrderInv, Owners
<1>14. QueueInv /\ (\E o \in Owners : Owned(o)) /\ \A s \in Scopes \ aborted : WrittenInv(s)
  BY DEF RowsInv, OrderInv
<1>15. PICK o \in Owners : Owned(o)
  BY <1>14
<1>16. PICK f : Echo(f)
  BY <1>1, SameEcho
<1>17. QueueInv' /\ Owned(o)'
  <2>1. (\E i \in DOMAIN dbJobs : IsCommit(i)) => Kept(o)' = Kept(o)
    BY <1>6, <1>11, <1>12, <1>14, QuietQueue
  <2>2. HasBegun' => \A k \in DOMAIN dbJobs' : dbJobs'[k].kind # "statement" => dbJobs'[k].live
    BY <1>10, <1>11, <1>14, QuietQueue DEF SameView
  <2> QED BY <1>1, <1>9, <1>10, <1>14, <1>15, <1>16, <2>1, <2>2, EchoOwned
<1>18. ASSUME NEW s \in Scopes \ aborted' PROVE WrittenInv(s)'
  <2>1. WrittenInv(s) /\ RowsOf(s)' = RowsOf(s)
    BY <1>14 DEF RowsOf
  <2>2. CASE s = Top /\ how # "committed"
    <3>1. RowsOf(s) \cap db = {}
      <4>1. phase[s] \notin {"committed", "commit", "cut"}
        BY <2>2 DEF InControl
      <4> QED BY <2>1, <4>1 DEF WrittenInv
    <3> QED BY <1>3, <2>1, <2>2, <3>1, NothingWritten
  <2>3. CASE s = Top /\ how = "committed"
    <3>1. RowsOf(s) \cap db = Kept(s) /\ NoneLeft(s)
      BY <2>1, <2>3 DEF WrittenInv, TopIsOff
    <3>2. RowsOf(s)' \cap db' = Kept(s)' /\ phase'[s] = "committed"
      BY <1>3, <1>13, <2>1, <2>3, <3>1
    <3>3. NoneLeft(s)'
      BY <2>1, <3>1 DEF NoneLeft
    <3> QED BY <3>2, <3>3 DEF WrittenInv
  <2>4. CASE s # Top
    <3>1. phase[s] # "commit" /\ phase'[s] = phase[s]
      BY <1>1, <1>3, <2>4, ControlIsTop DEF InControl
    <3> QED BY <1>13, <1>16, <2>1, <3>1, EchoWritten
  <2> QED BY <2>2, <2>3, <2>4
<1> QED BY <1>17, <1>18

LEMMA EndsOrder ==
  ASSUME RowsInv, ConnectionInv', NotBegun \/ Committed \/ RolledBack
  PROVE  OrderInv'
<1>1. CASE NotBegun
  <2>1. /\ stack # <<>> /\ phase[Top] = "begin" /\ answer = "failed" /\ answer' = "none"
        /\ phase' = [phase EXCEPT ![Top] = "failed"] /\ stack' = Front(stack)
        /\ UNCHANGED <<name, awaited, dbJobs, frames, db, result, path, overtaken, aborted>>
    BY <1>1 DEF NotBegun, Taken, Exit, sqliteVars, historyVars
  <2> QED BY <2>1, ExitOrder DEF InControl, TopIsOff
<1>2. CASE Committed
  <2>1. /\ stack # <<>> /\ phase[Top] = "commit" /\ answer = "ok" /\ answer' = "none"
        /\ phase' = [phase EXCEPT ![Top] = "committed"] /\ stack' = Front(stack)
        /\ UNCHANGED <<name, awaited, dbJobs, frames, db, result, path, overtaken, aborted>>
    BY <1>2 DEF Committed, Taken, Exit, sqliteVars, historyVars
  <2> QED BY <2>1, ExitOrder DEF InControl, TopIsOff
<1>3. CASE RolledBack
  <2>1. PICK how \in {"rolledback", "failed"} :
        /\ stack # <<>> /\ phase[Top] \in {"rollback", "undo"} /\ answer # "none" /\ answer' = "none"
        /\ phase' = [phase EXCEPT ![Top] = how] /\ stack' = Front(stack)
        /\ UNCHANGED <<name, awaited, dbJobs, frames, db, result, path, overtaken, aborted>>
    BY <1>3 DEF RolledBack, Taken, Exit, sqliteVars, historyVars
  <2> QED BY <2>1, ExitOrder DEF InControl, TopIsOff
<1> QED BY <1>1, <1>2, <1>3

LEMMA DeliverOrder ==
  ASSUME RowsInv, Deliver
  PROVE  OrderInv'
<1>1. /\ awaited # <<>> /\ (dbJobs' = dbJobs \/ dbJobs' = Orphaned(dbJobs))
      /\ UNCHANGED <<stack, phase, name, answer, frames, db, result, path, overtaken, aborted>>
  BY DEF Deliver, sqliteVars, historyVars
<1>2. ConnectionInv /\ dbJobs \in Seq(JobRecords)
  BY JobTypes DEF RowsInv
<1>3. /\ HasBegun' = HasBegun /\ Depth' = Depth /\ \A s : Released(s)' = Released(s) /\ Kept(s)' = Kept(s)
  BY <1>1 DEF HasBegun, Depth, TopIsOff, Released, Kept, RowsOf, Top
<1>4. SameView /\ SameRows
  BY <1>1, <1>3 DEF SameView, SameRows
<1>5. \A i \in DOMAIN dbJobs : dbJobs[i].kind # "statement" => ~dbJobs[i].live
  BY <1>1, <1>2, LiveControl
<1>6. PICK f : Echo(f)
  BY <1>1, <1>2, SameEcho, OrphanedEcho
<1> SUFFICES ASSUME ~overtaken' PROVE QueueInv' /\ (\E o \in Owners : Owned(o)') /\ \A s \in Scopes \ aborted' : WrittenInv(s)'
  BY DEF OrderInv, Owners
<1>7. QueueInv /\ (\E o \in Owners : Owned(o)) /\ \A s \in Scopes \ aborted : WrittenInv(s)
  BY <1>1 DEF RowsInv, OrderInv
<1>8. PICK o \in Owners : Owned(o)
  BY <1>7
<1>9. HasBegun' => \A k \in DOMAIN dbJobs' : dbJobs'[k].kind = "statement"
  BY <1>3, <1>5, <1>6, <1>7 DEF Echo, QueueInv
<1>10. QueueInv' /\ Owned(o)'
  BY <1>1, <1>2, <1>3, <1>4, <1>6, <1>7, <1>8, <1>9, EchoOwned
<1>11. \A s \in Scopes \ aborted' : WrittenInv(s)'
  BY <1>1, <1>3, <1>6, <1>7, EchoWritten
<1> QED BY <1>10, <1>11


LEMMA CutOrder ==
  ASSUME RowsInv, Cut \/ HangUp
  PROVE  OrderInv'
<1>1. /\ stack' = <<>> /\ answer' = "none" /\ dbJobs' = Orphaned(dbJobs)
      /\ phase' = [s \in Scopes |-> IF s \in ToSet(stack) THEN "cut" ELSE phase[s]]
      /\ UNCHANGED <<name, frames, db, result, path, overtaken, aborted>>
  BY DEF Cut, HangUp, Abandon, sqliteVars, historyVars
<1>2. ConnectionInv /\ dbJobs \in Seq(JobRecords)
  BY JobTypes DEF RowsInv
<1>3. /\ \A s \in Scopes : s \in ToSet(stack) => phase'[s] = "cut" /\ phase[s] \in InControl \cup {"body"}
      /\ \A s \in Scopes : s \notin ToSet(stack) => phase'[s] = phase[s] /\ phase[s] \notin InControl \cup {"body"}
  <2>1. ASSUME NEW s \in Scopes, s \in ToSet(stack) PROVE phase[s] \in InControl \cup {"body"}
    <3>1. PICK i \in DOMAIN stack : stack[i] = s
      BY <2>1 DEF ToSet
    <3> QED BY <1>2, <3>1 DEF ConnectionInv, StackInv
  <2>2. ASSUME NEW s \in Scopes, phase[s] \in InControl \cup {"body"} PROVE s \in ToSet(stack)
    BY <1>2, <2>2 DEF ConnectionInv, StackInv, ToSet
  <2> QED BY <1>1, <2>1, <2>2
<1>4. ~HasBegun'
  BY <1>1 DEF HasBegun
<1>5. SameView /\ SameRows
  BY <1>1, <1>4 DEF SameView, SameRows
<1>6. \A s : Kept(s)' = Kept(s)
  <2>1. \A x \in Scopes : phase'[x] = "committed" <=> phase[x] = "committed"
    BY <1>3 DEF InControl
  <2> QED BY <1>2, <1>5, <2>1, KeptSame
<1>7. PICK f : Echo(f)
  BY <1>1, <1>2, OrphanedEcho
<1> SUFFICES ASSUME ~overtaken' PROVE QueueInv' /\ (\E o \in Owners : Owned(o)') /\ \A s \in Scopes \ aborted' : WrittenInv(s)'
  BY DEF OrderInv, Owners
<1>8. QueueInv /\ (\E o \in Owners : Owned(o)) /\ \A s \in Scopes \ aborted : WrittenInv(s)
  BY <1>1 DEF RowsInv, OrderInv
<1>9. PICK o \in Owners : Owned(o)
  BY <1>8
<1>10. QueueInv' /\ Owned(o)'
  BY <1>1, <1>2, <1>4, <1>5, <1>6, <1>7, <1>8, <1>9, EchoOwned
<1>11. ASSUME NEW s \in Scopes \ aborted' PROVE WrittenInv(s)'
  <2>1. WrittenInv(s) /\ RowsOf(s)' = RowsOf(s)
    BY <1>1, <1>8 DEF RowsOf
  <2>2. CASE s \notin ToSet(stack)
    <3>1. phase'[s] = phase[s] /\ phase[s] # "commit"
      BY <1>3, <2>2 DEF InControl
    <3> QED BY <1>1, <1>6, <1>7, <2>1, <3>1, EchoWritten
  <2>3. CASE s \in ToSet(stack) /\ ~(phase[s] = "commit" /\ answer = "ok")
    <3>1. phase'[s] = "cut" /\ phase[s] \notin {"committed", "cut"}
      BY <1>3, <2>3 DEF InControl
    <3>2. RowsOf(s) \cap db = {}
      BY <2>1, <2>3, <3>1 DEF WrittenInv
    <3> QED BY <1>1, <2>1, <3>1, <3>2, NothingWritten
  <2>4. CASE s \in ToSet(stack) /\ phase[s] = "commit" /\ answer = "ok"
    <3>1. phase'[s] = "cut"
      BY <1>3, <2>4
    <3>2. RowsOf(s) \cap db = Kept(s) /\ NoneLeft(s)
      BY <2>1, <2>4 DEF WrittenInv
    <3>3. HasBegun
      <4>1. stack # <<>> /\ phase[Top] = "commit"
        BY <1>2, <2>4, ControlIsTop DEF InControl
      <4> QED BY <4>1 DEF HasBegun
    <3>4. \A i \in DOMAIN dbJobs : ~IsCommit(i)
      BY <1>2, <1>8, <2>4, <3>3, LiveControl DEF QueueInv, IsCommit
    <3>5. \A i \in DOMAIN dbJobs' : ~(IsCommit(i)' /\ dbJobs'[i].of = s)
      BY <1>1, <1>7, <3>4 DEF Echo, IsCommit
    <3>6. NoneLeft(s)'
      BY <1>7, <2>1, <3>2 DEF NoneLeft, Echo
    <3>7. RowsOf(s)' \cap db' = Kept(s)'
      BY <1>1, <1>6, <2>1, <3>2
    <3> QED BY <3>1, <3>5, <3>6, <3>7 DEF WrittenInv
  <2> QED BY <2>2, <2>3, <2>4
<1> QED BY <1>10, <1>11

-----------------------------------------------------------------------------
(* The rows: jobs are added to the queue *)

\* The jobs that were in the queue stay where they were, and mean what they meant.
Grows ==
  /\ \A k \in DOMAIN dbJobs : /\ k \in DOMAIN dbJobs' /\ dbJobs'[k] = dbJobs[k]
                              /\ dbJobs[k].kind = "statement" => path'[dbJobs[k].of] = path[dbJobs[k].of]
                              /\ dbJobs[k].kind # "statement" => name'[dbJobs[k].of] = name[dbJobs[k].of]
  /\ \A k \in DOMAIN dbJobs' : k \notin DOMAIN dbJobs => \A m \in DOMAIN dbJobs : ~(k < m)

LEMMA RowsStay ==
  ASSUME RowsInv, SameRows, UNCHANGED frames, NEW o, Rows(frames) \subseteq RowsOf(o)
  PROVE  Rows(frames') \subseteq RowsOf(o)'
<1>1. ASSUME NEW w \in Rows(frames) PROVE w \in RowsOf(o)'
  <2>1. w \in Writes /\ result[w] = "ok" /\ path[w] # <<>> /\ path[w][1] = o
    BY <1>1 DEF RowsInv, LandedInv, RowsOf
  <2> QED BY <2>1 DEF SameRows, RowsOf
<1> QED BY <1>1

LEMMA GrowOuter ==
  ASSUME RowsInv, QueueInv, NEW o, Owned(o), Grows, SameRows, ~HasBegun', UNCHANGED <<frames, aborted>>, Kept(o)' = Kept(o),
         \A k \in DOMAIN dbJobs' : k \notin DOMAIN dbJobs => dbJobs'[k].outer /\ dbJobs'[k].kind \in {"statement", "begin"}
  PROVE  QueueInv' /\ Owned(o)'
<1>1. \A k \in DOMAIN dbJobs' : ~dbJobs'[k].outer => k \in DOMAIN dbJobs /\ IsInner(k)
  BY DEF Grows, IsInner
<1>2. \A k \in DOMAIN dbJobs' : IsCommit(k)' => k \in DOMAIN dbJobs /\ IsCommit(k)
  BY DEF Grows, IsCommit
<1>3. \A i, k \in DOMAIN dbJobs' : i < k /\ ~dbJobs'[k].outer => ~dbJobs'[i].outer /\ dbJobs'[i].kind = "statement"
  BY <1>1 DEF Grows, QueueInv, IsInner
<1>4. \A i, k \in DOMAIN dbJobs' : IsCommit(i)' /\ dbJobs'[k].kind = "statement" /\ ~dbJobs'[k].outer => Len(path'[dbJobs'[k].of]) = 1
  BY <1>1, <1>2 DEF Grows, QueueInv
<1>5. QueueInv'
  BY <1>3, <1>4 DEF QueueInv, IsInner
<1>6. Rows(frames)' \subseteq RowsOf(o)'
  BY RowsStay DEF Owned, Mine
<1>7. \A i \in DOMAIN dbJobs' : dbJobs'[i].kind = "statement" /\ ~dbJobs'[i].outer => path'[dbJobs'[i].of][1] = o
  BY <1>1 DEF Grows, Owned, Mine
<1>8. \A i \in DOMAIN dbJobs' : IsCommit(i)' => dbJobs'[i].of = o
  BY <1>2 DEF Grows, Owned, Mine
<1>9. Mine(o)'
  BY <1>6, <1>7, <1>8 DEF Mine, IsInner
<1>10. ASSUME o \notin aborted' PROVE Sound(o)'
  <2>1. Sound(o)
    BY <1>10 DEF Owned
  <2>2. (\E i \in DOMAIN dbJobs' : ~dbJobs'[i].outer) => frames' # <<>>
    BY <1>1, <2>1 DEF Sound
  <2>3. (\E i \in DOMAIN dbJobs' : IsCommit(i)') => Len(frames') = 1 /\ frames'[1].rows = Kept(o)'
    BY <1>2, <2>1 DEF Sound
  <2>4. \A i \in DOMAIN frames' : frames'[i].name = Begin <=> i = 1
    BY <2>1 DEF Sound
  <2> QED BY <2>2, <2>3, <2>4 DEF Sound, IsInner
<1> QED BY <1>5, <1>9, <1>10 DEF Owned

LEMMA GrowInner ==
  ASSUME RowsInv, QueueInv, NEW o, Owned(o), Grows, SameRows, SameView, HasBegun', Depth \in Nat \ {0},
         UNCHANGED <<frames, aborted>>,
         \A k \in DOMAIN dbJobs : dbJobs[k].kind = "statement",
         \A k \in DOMAIN dbJobs' : k \notin DOMAIN dbJobs =>
           /\ ~dbJobs'[k].outer
           /\ dbJobs'[k].kind = "statement" => /\ Len(path'[dbJobs'[k].of]) = Depth
                                               /\ \A m \in 1..Depth : path'[dbJobs'[k].of][m] = stack[m]
           /\ dbJobs'[k].kind # "statement" => dbJobs'[k].live /\ \A m \in DOMAIN dbJobs' : ~(k < m)
           /\ IsCommit(k)' => dbJobs'[k].of = o /\ Depth = 1 /\ Kept(o)' = RowsAt(1)
  PROVE  QueueInv' /\ Owned(o)'
<1>1. /\ HasBegun /\ Depth' = Depth /\ stack'[1] = stack[1] /\ \A i \in 1..Depth : stack'[i] = stack[i]
  BY DEF SameView
<1>2. stack[1] = o /\ 1 \in 1..Depth
  BY <1>1 DEF Owned, Mine
<1>3. ASSUME NEW k \in DOMAIN dbJobs'
      PROVE  /\ ~dbJobs'[k].outer
             /\ dbJobs'[k].kind = "statement" => /\ Len(path'[dbJobs'[k].of]) = Depth
                                                 /\ \A m \in 1..Depth : path'[dbJobs'[k].of][m] = stack[m]
             /\ dbJobs'[k].kind # "statement" => dbJobs'[k].live /\ \A m \in DOMAIN dbJobs' : ~(k < m)
             /\ IsCommit(k)' => dbJobs'[k].of = o /\ Depth = 1 /\ Kept(o)' = RowsAt(1)
  <2>1. CASE k \in DOMAIN dbJobs
    <3>1. dbJobs'[k] = dbJobs[k] /\ dbJobs[k].kind = "statement" /\ path'[dbJobs[k].of] = path[dbJobs[k].of]
      BY <2>1 DEF Grows
    <3> QED BY <1>1, <2>1, <3>1 DEF QueueInv, IsInner, IsCommit
  <2>2. CASE k \notin DOMAIN dbJobs
    BY <1>3, <2>2
  <2> QED BY <2>1, <2>2
<1>4. QueueInv'
  BY <1>1, <1>3 DEF QueueInv, IsInner
<1>5. Mine(o)'
  <2>1. Rows(frames)' \subseteq RowsOf(o)'
    BY RowsStay DEF Owned, Mine
  <2> QED BY <1>1, <1>2, <1>3, <2>1 DEF Mine, IsInner
<1>6. ASSUME o \notin aborted' PROVE Sound(o)'
  <2>1. Sound(o) /\ Aligned
    BY <1>1, <1>6 DEF Owned, Sound
  <2>2. Aligned'
    BY <2>1, AlignedKeeps DEF RowsInv
  <2>3. Len(frames) = Depth /\ frames[1].rows = RowsAt(1) /\ frames # <<>>
    BY <1>2, <2>1 DEF Aligned
  <2>4. (\E i \in DOMAIN dbJobs' : IsCommit(i)') => Len(frames') = 1 /\ frames'[1].rows = Kept(o)'
    BY <1>3, <2>3
  <2>5. \A i \in DOMAIN frames' : frames'[i].name = Begin <=> i = 1
    BY <2>1 DEF Sound
  <2> QED BY <2>2, <2>3, <2>4, <2>5 DEF Sound
<1> QED BY <1>4, <1>5, <1>6 DEF Owned

LEMMA WrittenKeeps ==
  ASSUME NEW s, WrittenInv(s), NoneLeft(s) => NoneLeft(s)',
         (\A i \in DOMAIN dbJobs : ~(IsCommit(i) /\ dbJobs[i].of = s)) => \A i \in DOMAIN dbJobs' : ~(IsCommit(i)' /\ dbJobs'[i].of = s),
         RowsOf(s)' \cap db' = RowsOf(s) \cap db, Kept(s)' = Kept(s), phase'[s] = phase[s], phase[s] # "commit"
  PROVE  WrittenInv(s)'
BY DEF WrittenInv


\* The top scope goes on with COMMIT, RELEASE or a rollback.
LEMMA ControlOrder ==
  ASSUME RowsInv, stack # <<>>, awaited = <<>>, phase[Top] = "body" \/ (phase[Top] = "commit" /\ answer = "failed"),
         NEW p \in {"commit", "rollback", "undo"}, NEW kind \in {"commit", "rollback"}, Serves(kind, p),
         Control(p, kind), answer' = "none"
  PROVE  OrderInv'
<1> DEFINE last == Len(dbJobs) + 1
           new == Job(kind, FALSE, Top)
<1>1. /\ phase' = [phase EXCEPT ![Top] = p] /\ dbJobs' = Append(dbJobs, new)
      /\ UNCHANGED <<stack, name, frames, db, result, path, overtaken, aborted>>
  BY DEF Control, Spawn, sqliteVars, historyVars
<1>2. ConnectionInv /\ dbJobs \in Seq(JobRecords) /\ phase \in [Scopes -> Phases]
  BY JobTypes DEF RowsInv, ConnectionInv, TypeOK
<1>3. Top \in Scopes /\ Top' = Top /\ Top = stack[Len(stack)] /\ Len(stack) \in Nat \ {0} /\ Len(stack) \in DOMAIN stack
  BY <1>1, <1>2, TopIs DEF Top
<1>4. phase'[Top] = p /\ \A s \in Scopes : s # Top => phase'[s] = phase[s]
  BY <1>1, <1>2, <1>3
<1>5. HasBegun /\ HasBegun' /\ Depth = Len(stack) /\ Depth' = Len(stack)
  BY <1>1, <1>3, <1>4 DEF HasBegun, Depth, TopIsOff
<1>6. \A s \in Scopes : (Released(s)' <=> Released(s)) /\ (Released(s) <=> phase[s] = "committed")
  BY <1>1, <1>3, <1>4 DEF Released
<1>7. SameView /\ SameRows
  BY <1>1, <1>5, <1>6 DEF SameView, SameRows
<1>8. \A s : Kept(s)' = Kept(s)
  BY <1>1, <1>2, <1>4, <1>7, KeptSame
<1>9. \A i \in DOMAIN dbJobs : ~dbJobs[i].live
  BY <1>2, QuietWhen
<1>10. new \in JobRecords /\ new.kind = kind /\ new.outer = FALSE /\ new.of = Top /\ new.live = TRUE
  BY <1>3 DEF Job, JobRecords
<1> HIDE DEF new
<1>11. /\ \A k \in DOMAIN dbJobs' : k = last \/ k \in DOMAIN dbJobs
       /\ \A k \in DOMAIN dbJobs : k \in DOMAIN dbJobs' /\ dbJobs'[k] = dbJobs[k] /\ k < last
       /\ last \in DOMAIN dbJobs' /\ dbJobs'[last] = new
  BY <1>1, <1>2, <1>10, SpawnIs
<1>12. last \in Nat /\ \A k \in DOMAIN dbJobs : k \in Nat
  BY <1>2
<1> HIDE DEF last
<1>13. Grows /\ \A k \in DOMAIN dbJobs' : ~(last < k)
  BY <1>1, <1>11, <1>12 DEF Grows
<1> SUFFICES ASSUME ~overtaken' PROVE QueueInv' /\ (\E o \in Owners : Owned(o)') /\ \A s \in Scopes \ aborted' : WrittenInv(s)'
  BY DEF OrderInv, Owners
<1>14. QueueInv /\ (\E o \in Owners : Owned(o)) /\ \A s \in Scopes \ aborted : WrittenInv(s)
  BY <1>1 DEF RowsInv, OrderInv
<1>15. PICK o \in Owners : Owned(o)
  BY <1>14
<1>16. stack[1] = o /\ \A k \in DOMAIN dbJobs : dbJobs[k].kind = "statement" /\ ~IsCommit(k)
  BY <1>5, <1>9, <1>14, <1>15, QuietQueue DEF Owned, Mine
<1>17. ASSUME NEW k, k = last, IsCommit(k)' PROVE Top = o /\ Depth = 1 /\ Kept(o)' = RowsAt(1)
  <2>1. name[Top] = Begin
    BY <1>1, <1>10, <1>11, <1>17 DEF IsCommit
  <2>2. Len(stack) = 1
    BY <1>2, <1>3, <2>1 DEF ConnectionInv, TypeOK
  <2>3. ASSUME NEW w \in Writes PROVE w \in Kept(o) <=> w \in RowsAt(1)
    <3>1. path[w] \in Seq(Scopes)
      BY <1>2 DEF ConnectionInv, TypeOK
    <3>2. \A i \in 2..Len(path[w]) : Released(path[w][i]) <=> phase[path[w][i]] = "committed"
      BY <1>6, <3>1
    <3>3. path[w] # <<>> <=> 1 <= Len(path[w])
      BY <3>1
    <3> QED BY <1>16, <3>2, <3>3 DEF Kept, RowsOf, RowsAt
  <2>4. Kept(o) = RowsAt(1)
    BY <2>3 DEF Kept, RowsOf, RowsAt
  <2> QED BY <1>3, <1>5, <1>8, <1>16, <2>2, <2>4
<1>18. QueueInv' /\ Owned(o)'
  <2>1. ASSUME NEW k \in DOMAIN dbJobs', k \notin DOMAIN dbJobs
        PROVE  /\ ~dbJobs'[k].outer /\ dbJobs'[k].kind # "statement" /\ dbJobs'[k].live
               /\ \A m \in DOMAIN dbJobs' : ~(k < m)
               /\ IsCommit(k)' => dbJobs'[k].of = o /\ Depth = 1 /\ Kept(o)' = RowsAt(1)
    <3>1. k = last
      BY <1>11, <2>1
    <3> QED BY <1>10, <1>11, <1>13, <1>17, <3>1
  <2> QED BY <1>1, <1>3, <1>5, <1>7, <1>13, <1>14, <1>15, <1>16, <2>1, GrowInner
<1>19. ASSUME NEW s \in Scopes \ aborted' PROVE WrittenInv(s)'
  <2>1. WrittenInv(s) /\ RowsOf(s)' = RowsOf(s)
    BY <1>1, <1>14 DEF RowsOf
  <2>2. CASE s = Top
    <3>1. RowsOf(s) \cap db = {}
      BY <2>1, <2>2 DEF WrittenInv
    <3> QED BY <1>1, <1>4, <2>1, <2>2, <3>1, NothingWritten
  <2>3. CASE s # Top
    <3>1. phase[s] # "commit" /\ phase'[s] = phase[s]
      BY <1>2, <1>4, <2>3, ControlIsTop DEF InControl
    <3>2. NoneLeft(s) => NoneLeft(s)'
      BY <1>10, <1>11, <2>1 DEF NoneLeft
    <3>3. \A i \in DOMAIN dbJobs' : ~(IsCommit(i)' /\ dbJobs'[i].of = s)
      BY <1>10, <1>11, <1>16, <2>3 DEF IsCommit
    <3> QED BY <1>1, <1>8, <2>1, <3>1, <3>2, <3>3, WrittenKeeps
  <2> QED BY <2>2, <2>3
<1> QED BY <1>18, <1>19

LEMMA GoesOnOrder ==
  ASSUME RowsInv, BodyReturns \/ BodyRaises \/ CommitFails
  PROVE  OrderInv'
<1>1. ConnectionInv
  BY DEF RowsInv
<1>2. CASE BodyReturns
  <2>1. stack # <<>> /\ InLua /\ Control("commit", "commit") /\ answer' = answer
    BY <1>2 DEF BodyReturns
  <2> QED BY <1>1, <2>1, InLuaIs, ControlOrder DEF Serves
<1>3. CASE BodyRaises
  <2>1. stack # <<>> /\ InLua /\ Control("rollback", "rollback") /\ answer' = answer
    BY <1>3 DEF BodyRaises
  <2> QED BY <1>1, <2>1, InLuaIs, ControlOrder DEF Serves
<1>4. CASE CommitFails
  <2>1. stack # <<>> /\ phase[Top] = "commit" /\ answer = "failed" /\ answer' = "none" /\ Control("undo", "rollback")
    BY <1>4 DEF CommitFails, Taken
  <2>2. awaited = <<>>
    BY <1>1, <2>1 DEF ConnectionInv, StackInv
  <2> QED BY <2>1, <2>2, ControlOrder DEF Serves
<1> QED BY <1>2, <1>3, <1>4


\* run_transaction() begins, through either handle.
LEMMA EnterOrder ==
  ASSUME RowsInv, InLua, NEW s \in Scopes, NEW n \in Nat \cup {Begin}, NEW outer \in BOOLEAN, Enter(s, n, outer),
         outer <=> stack = <<>>
  PROVE  OrderInv'
<1> DEFINE last == Len(dbJobs) + 1
           new == Job("begin", outer, s)
<1>1. /\ phase[s] = "unused" /\ stack' = Append(stack, s) /\ phase' = [phase EXCEPT ![s] = "begin"]
      /\ name' = [name EXCEPT ![s] = n] /\ dbJobs' = Append(dbJobs, new)
      /\ UNCHANGED <<answer, frames, db, result, path, overtaken, aborted>>
  BY DEF Enter, Spawn, sqliteVars, historyVars
<1>2. /\ ConnectionInv /\ dbJobs \in Seq(JobRecords) /\ phase \in [Scopes -> Phases] /\ stack \in Seq(Scopes)
      /\ name \in [Scopes -> Nat \cup {Begin}] /\ Len(stack) \in Nat
  BY JobTypes DEF RowsInv, ConnectionInv, TypeOK
<1>3. /\ awaited = <<>> /\ answer = "none" /\ (stack = <<>> \/ phase[Top] = "body")
      /\ \A i \in DOMAIN stack : phase[stack[i]] = "body"
  BY <1>2, InLuaIs
<1>4. /\ phase'[s] = "begin" /\ \A x \in Scopes : x # s => phase'[x] = phase[x] /\ name'[x] = name[x]
  BY <1>1, <1>2
<1>5. /\ stack' # <<>> /\ Len(stack') = Len(stack) + 1 /\ stack'[Len(stack) + 1] = s
      /\ \A i \in DOMAIN stack : stack'[i] = stack[i] /\ stack[i] \in Scopes
  BY <1>1, <1>2
<1>6. Top' = s
  BY <1>5 DEF Top, Last
<1>7. \A x \in Scopes : (Released(x)' <=> Released(x))
  BY <1>1, <1>3, <1>4, <1>6 DEF Released
<1>8. SameRows /\ \A x : Kept(x)' = Kept(x)
  <2>1. SameRows
    BY <1>1 DEF SameRows
  <2>2. \A x \in Scopes : phase'[x] = "committed" <=> phase[x] = "committed"
    BY <1>1, <1>4
  <2> QED BY <1>2, <2>1, <2>2, KeptSame
<1>9. \A i \in DOMAIN dbJobs : ~dbJobs[i].live
  BY <1>2, <1>3, QuietWhen
<1>10. \A i \in DOMAIN dbJobs : dbJobs[i].kind # "statement" => name'[dbJobs[i].of] = name[dbJobs[i].of]
  BY <1>1, <1>2, <1>4, <1>9, ControlScope
<1>11. new \in JobRecords /\ new.kind = "begin" /\ new.outer = outer /\ new.of = s /\ new.live = TRUE
  BY DEF Job, JobRecords
<1> HIDE DEF new
<1>12. /\ \A k \in DOMAIN dbJobs' : k = last \/ k \in DOMAIN dbJobs
       /\ \A k \in DOMAIN dbJobs : k \in DOMAIN dbJobs' /\ dbJobs'[k] = dbJobs[k] /\ k < last
       /\ last \in DOMAIN dbJobs' /\ dbJobs'[last] = new
  BY <1>1, <1>2, <1>11, SpawnIs
<1>13. last \in Nat /\ \A k \in DOMAIN dbJobs : k \in Nat
  BY <1>2
<1> HIDE DEF last
<1>14. Grows /\ \A k \in DOMAIN dbJobs' : ~(last < k)
  BY <1>1, <1>10, <1>12, <1>13 DEF Grows
<1>15. \A k \in DOMAIN dbJobs' : IsCommit(k)' => k \in DOMAIN dbJobs /\ IsCommit(k) /\ dbJobs'[k].of = dbJobs[k].of
  BY <1>10, <1>11, <1>12 DEF IsCommit
<1> SUFFICES ASSUME ~overtaken' PROVE QueueInv' /\ (\E o \in Owners : Owned(o)') /\ \A x \in Scopes \ aborted' : WrittenInv(x)'
  BY DEF OrderInv, Owners
<1>16. QueueInv /\ (\E o \in Owners : Owned(o)) /\ \A x \in Scopes \ aborted : WrittenInv(x)
  BY <1>1 DEF RowsInv, OrderInv
<1>17. PICK o \in Owners : Owned(o)
  BY <1>16
<1>18. QueueInv' /\ Owned(o)'
  <2>1. CASE stack = <<>>
    <3>1. Len(stack') = 1
      BY <1>5, <2>1
    <3>2. ~HasBegun'
      BY <1>1, <1>3, <1>4, <1>6, <3>1 DEF HasBegun
    <3>3. \A k \in DOMAIN dbJobs' : k \notin DOMAIN dbJobs => dbJobs'[k].outer /\ dbJobs'[k].kind \in {"statement", "begin"}
      BY <1>11, <1>12, <2>1
    <3> QED BY <1>1, <1>8, <1>14, <1>16, <1>17, <3>2, <3>3, GrowOuter
  <2>2. CASE stack # <<>>
    <3>1. Len(stack) \in Nat \ {0} /\ 1 \in DOMAIN stack /\ Len(stack') # 1
      BY <1>2, <1>5, <2>2
    <3>2. HasBegun /\ HasBegun' /\ Depth = Len(stack) /\ Depth' = Len(stack)
      <4>1. HasBegun /\ HasBegun'
        BY <1>3, <1>5, <2>2, <3>1 DEF HasBegun
      <4>2. Depth = Len(stack)
        BY <1>3, <2>2 DEF Depth, TopIsOff
      <4>3. TopIsOff'
        BY <1>1, <1>3, <1>4, <1>6 DEF TopIsOff
      <4>4. Depth' = Len(stack') - 1
        BY <1>5, <4>3 DEF Depth
      <4> QED BY <1>2, <1>5, <4>1, <4>2, <4>4
    <3>3. SameView
      <4>1. \A i \in DOMAIN stack : stack[i] # s
        BY <1>1, <1>3
      <4>2. \A i \in DOMAIN stack : stack'[i] = stack[i] /\ name'[stack[i]] = name[stack[i]]
        BY <1>4, <1>5, <4>1
      <4>3. DOMAIN stack = 1..Depth
        BY <1>2, <3>2
      <4> QED BY <1>7, <3>1, <3>2, <4>2, <4>3 DEF SameView
    <3>4. \A k \in DOMAIN dbJobs : dbJobs[k].kind = "statement"
      BY <1>9, <1>16, <3>2, QuietQueue
    <3>5. ASSUME NEW k \in DOMAIN dbJobs', k \notin DOMAIN dbJobs
          PROVE  /\ ~dbJobs'[k].outer /\ dbJobs'[k].kind # "statement" /\ dbJobs'[k].live
                 /\ \A m \in DOMAIN dbJobs' : ~(k < m)
                 /\ ~IsCommit(k)'
      BY <1>11, <1>12, <1>14, <1>15, <2>2, <3>5
    <3> QED BY <1>1, <1>8, <1>14, <1>16, <1>17, <3>1, <3>2, <3>3, <3>4, <3>5, GrowInner
  <2> QED BY <2>1, <2>2
<1>19. ASSUME NEW x \in Scopes \ aborted' PROVE WrittenInv(x)'
  <2>1. WrittenInv(x) /\ RowsOf(x)' = RowsOf(x)
    BY <1>1, <1>16 DEF RowsOf
  <2>2. CASE x = s
    <3>1. RowsOf(x) \cap db = {}
      BY <1>1, <2>1, <2>2 DEF WrittenInv
    <3> QED BY <1>1, <1>4, <2>1, <2>2, <3>1, NothingWritten
  <2>3. CASE x # s
    <3>1. phase[x] # "commit" /\ phase'[x] = phase[x]
      BY <1>2, <1>3, <1>4, <2>3, ControlIsTop DEF InControl
    <3>2. NoneLeft(x) => NoneLeft(x)'
      BY <1>11, <1>12, <2>1 DEF NoneLeft
    <3>3. (\A i \in DOMAIN dbJobs : ~(IsCommit(i) /\ dbJobs[i].of = x)) => \A i \in DOMAIN dbJobs' : ~(IsCommit(i)' /\ dbJobs'[i].of = x)
      BY <1>15
    <3> QED BY <1>1, <1>8, <2>1, <3>1, <3>2, <3>3, WrittenKeeps
  <2> QED BY <2>2, <2>3
<1> QED BY <1>18, <1>19

LEMMA ScopeOrder ==
  ASSUME RowsInv, (\E s \in Scopes : Transaction(s)) \/ (\E tx, s \in Scopes : Savepoint(tx, s))
  PROVE  OrderInv'
<1>1. ConnectionInv
  BY DEF RowsInv
<1>2. ASSUME NEW s \in Scopes, Transaction(s) PROVE OrderInv'
  <2>1. InLua /\ ~flag /\ Enter(s, Begin, TRUE) /\ Begin \in Nat \cup {Begin}
    BY <1>2 DEF Transaction
  <2>2. stack = <<>>
    BY <1>1, <2>1 DEF ConnectionInv, StackInv
  <2> QED BY <2>1, <2>2, EnterOrder
<1>3. ASSUME NEW tx \in Scopes, NEW s \in Scopes, Savepoint(tx, s) PROVE OrderInv'
  <2>1. InLua /\ tx \in alive \ uncollected
    BY <1>3 DEF Savepoint
  <2>2. stack # <<>>
    <3>1. ToSet(<<>>) = {}
      BY DEF ToSet
    <3> QED BY <1>1, <2>1, <3>1 DEF ConnectionInv, StackInv
  <2>3. PICK n \in Nat \cup {Begin} : Enter(s, n, FALSE)
    BY <1>1, <1>3 DEF Savepoint, ConnectionInv, TypeOK
  <2> QED BY <2>1, <2>2, <2>3, EnterOrder
<1> QED BY <1>2, <1>3

\* Statements are issued.
LEMMA IssueOrder ==
  ASSUME RowsInv, InLua, NEW b \in Batches, NEW outer \in BOOLEAN, Issue(b, outer), outer <=> stack = <<>>
  PROVE  OrderInv' /\ LandedInv'
<1>1. /\ result' = [w \in Writes |-> IF w \in ToSet(b) THEN "sent" ELSE result[w]]
      /\ path' = [w \in Writes |-> IF w \in ToSet(b) THEN stack ELSE path[w]]
      /\ UNCHANGED <<stack, phase, name, answer, frames, db, overtaken, aborted>>
  BY DEF Issue, sqliteVars
<1>2. /\ ConnectionInv /\ dbJobs \in Seq(JobRecords) /\ stack \in Seq(Scopes) /\ Len(stack) \in Nat /\ Len(dbJobs) \in Nat
      /\ db \subseteq Writes /\ Rows(frames) \subseteq Writes
  BY JobTypes, FramesTyped DEF RowsInv, ConnectionInv, TypeOK
<1>3. /\ awaited = <<>> /\ answer = "none" /\ (stack = <<>> \/ phase[Top] = "body")
      /\ \A i \in DOMAIN stack : phase[stack[i]] = "body"
  BY <1>2, InLuaIs
<1>4. b \in Seq(Writes) /\ \A k \in DOMAIN b : b[k] \in Writes /\ result[b[k]] = "unissued" /\ b[k] \in ToSet(b)
  BY <1>2, BatchIs DEF ToSet
<1>5. \A w \in Writes : w \in ToSet(b) => result[w] = "unissued"
  BY <1>4 DEF ToSet
<1>6. /\ \A w \in Writes : w \in ToSet(b) => result'[w] = "sent" /\ path'[w] = stack
      /\ \A w \in Writes : w \notin ToSet(b) => result'[w] = result[w] /\ path'[w] = path[w]
  BY <1>1
<1>7. SameRows
  BY <1>5, <1>6 DEF SameRows
<1>8. LandedInv'
  BY <1>1, <1>2, <1>7 DEF RowsInv, LandedInv, SameRows
<1>9. \A s : Kept(s)' = Kept(s)
  BY <1>1, <1>2, <1>7, KeptSame
<1>10. HasBegun' = HasBegun /\ Depth' = Depth /\ \A s : Released(s)' = Released(s)
  BY <1>1 DEF HasBegun, Depth, TopIsOff, Released, Top
<1>11. SameView
  BY <1>1, <1>10 DEF SameView
<1>12. /\ \A k \in DOMAIN dbJobs : k \in DOMAIN dbJobs' /\ dbJobs'[k] = dbJobs[k] /\ k <= Len(dbJobs) /\ k \in Nat
       /\ \A k \in DOMAIN dbJobs' : k \notin DOMAIN dbJobs =>
            /\ k - Len(dbJobs) \in DOMAIN b /\ k > Len(dbJobs) /\ k \in Nat
            /\ dbJobs'[k] = Job("statement", outer, b[k - Len(dbJobs)])
  <2>1. dbJobs' \in Seq(JobRecords)
    BY <1>2, <1>4, IssueIs
  <2> QED BY <1>2, <1>4, <2>1, IssueIs
<1>13. ASSUME NEW k \in DOMAIN dbJobs', k \notin DOMAIN dbJobs
       PROVE  /\ dbJobs'[k].kind = "statement" /\ dbJobs'[k].outer = outer
              /\ dbJobs'[k].of \in Writes /\ dbJobs'[k].of \in ToSet(b)
              /\ path'[dbJobs'[k].of] = stack
  <2>1. PICK m \in DOMAIN b : dbJobs'[k] = Job("statement", outer, b[m])
    BY <1>12, <1>13
  <2>2. dbJobs'[k].kind = "statement" /\ dbJobs'[k].outer = outer /\ dbJobs'[k].of = b[m]
    BY <2>1 DEF Job
  <2> QED BY <1>4, <1>6, <2>2
<1>14. ASSUME NEW k \in DOMAIN dbJobs, dbJobs[k].kind = "statement"
       PROVE  dbJobs[k].of \in Writes /\ dbJobs[k].of \notin ToSet(b) /\ path'[dbJobs[k].of] = path[dbJobs[k].of]
  <2>1. dbJobs[k].of \in Writes /\ result[dbJobs[k].of] = "sent"
    BY <1>2, <1>14 DEF ConnectionInv, JobsInv, JobInv, StatementInv
  <2> QED BY <1>5, <1>6, <2>1
<1>15. Grows
  <2>1. ASSUME NEW k \in DOMAIN dbJobs', k \notin DOMAIN dbJobs, NEW m \in DOMAIN dbJobs PROVE ~(k < m)
    BY <1>2, <1>12, <2>1
  <2> QED BY <1>1, <1>12, <1>14, <2>1 DEF Grows
<1>16. \A i \in DOMAIN dbJobs : ~dbJobs[i].live
  BY <1>2, <1>3, QuietWhen
<1>17. \A k \in DOMAIN dbJobs' : IsCommit(k)' => k \in DOMAIN dbJobs /\ IsCommit(k) /\ dbJobs'[k].of = dbJobs[k].of
  BY <1>1, <1>12, <1>13 DEF IsCommit
<1> SUFFICES ASSUME ~overtaken' PROVE QueueInv' /\ (\E o \in Owners : Owned(o)') /\ \A s \in Scopes \ aborted' : WrittenInv(s)'
  BY <1>8 DEF OrderInv, Owners
<1>18. QueueInv /\ (\E o \in Owners : Owned(o)) /\ \A s \in Scopes \ aborted : WrittenInv(s)
  BY <1>1 DEF RowsInv, OrderInv
<1>19. PICK o \in Owners : Owned(o)
  BY <1>18
<1>20. QueueInv' /\ Owned(o)'
  <2>1. CASE stack = <<>>
    <3>1. ~HasBegun'
      BY <1>1, <2>1 DEF HasBegun
    <3>2. \A k \in DOMAIN dbJobs' : k \notin DOMAIN dbJobs => dbJobs'[k].outer /\ dbJobs'[k].kind \in {"statement", "begin"}
      BY <1>13, <2>1
    <3> QED BY <1>1, <1>7, <1>9, <1>15, <1>18, <1>19, <3>1, <3>2, GrowOuter
  <2>2. CASE stack # <<>>
    <3>1. Len(stack) \in Nat \ {0}
      BY <1>2, <2>2
    <3>2. HasBegun /\ HasBegun' /\ Depth = Len(stack)
      BY <1>3, <1>10, <2>2 DEF HasBegun, Depth, TopIsOff
    <3>3. \A k \in DOMAIN dbJobs : dbJobs[k].kind = "statement"
      BY <1>16, <1>18, <3>2, QuietQueue
    <3>4. ASSUME NEW k \in DOMAIN dbJobs', k \notin DOMAIN dbJobs
          PROVE  /\ ~dbJobs'[k].outer /\ dbJobs'[k].kind = "statement" /\ ~IsCommit(k)'
                 /\ Len(path'[dbJobs'[k].of]) = Depth
                 /\ \A m \in 1..Depth : path'[dbJobs'[k].of][m] = stack[m]
      BY <1>13, <1>17, <2>2, <3>2, <3>4
    <3> QED BY <1>1, <1>7, <1>11, <1>15, <1>18, <1>19, <3>1, <3>2, <3>3, <3>4, GrowInner
  <2> QED BY <2>1, <2>2
<1>21. ASSUME NEW s \in Scopes \ aborted' PROVE WrittenInv(s)'
  <2>1. WrittenInv(s)
    BY <1>1, <1>18
  <2>2. RowsOf(s)' \cap db' = RowsOf(s) \cap db
    <3>1. \A w \in db : path'[w] = path[w]
      BY <1>2, <1>7 DEF RowsInv, LandedInv, SameRows
    <3> QED BY <1>1, <1>2, <3>1 DEF RowsOf
  <2>3. phase[s] # "commit"
    BY <1>2, <1>3, ControlIsTop DEF InControl
  <2>4. CASE \A i \in DOMAIN stack : stack[i] # s
    <3>1. NoneLeft(s) => NoneLeft(s)'
      <4> SUFFICES ASSUME NoneLeft(s), NEW k \in DOMAIN dbJobs', dbJobs'[k].kind = "statement" PROVE dbJobs'[k].of \notin RowsOf(s)'
        BY DEF NoneLeft
      <4>1. CASE k \in DOMAIN dbJobs
        BY <1>12, <1>14, <4>1 DEF NoneLeft, RowsOf
      <4>2. CASE k \notin DOMAIN dbJobs
        <5>1. path'[dbJobs'[k].of] = stack
          BY <1>13, <4>2
        <5>2. stack # <<>> => stack[1] # s
          BY <1>2, <2>4
        <5> QED BY <5>1, <5>2 DEF RowsOf
      <4> QED BY <4>1, <4>2
    <3>2. (\A i \in DOMAIN dbJobs : ~(IsCommit(i) /\ dbJobs[i].of = s)) => \A i \in DOMAIN dbJobs' : ~(IsCommit(i)' /\ dbJobs'[i].of = s)
      BY <1>17
    <3> QED BY <1>1, <1>9, <2>1, <2>2, <2>3, <3>1, <3>2, WrittenKeeps
  <2>5. CASE \E i \in DOMAIN stack : stack[i] = s
    <3>1. phase[s] = "body"
      BY <1>3, <2>5
    <3>2. RowsOf(s) \cap db = {}
      BY <2>1, <3>1 DEF WrittenInv
    <3> QED BY <1>1, <2>2, <3>1, <3>2, NothingWritten
  <2> QED BY <2>4, <2>5
<1> QED BY <1>20, <1>21

LEMMA StatementsOrder ==
  ASSUME RowsInv, NEW b \in Batches, OuterStatements(b) \/ InnerStatements(b)
  PROVE  OrderInv' /\ LandedInv'
<1>1. ConnectionInv
  BY DEF RowsInv
<1>2. CASE OuterStatements(b)
  <2>1. InLua /\ ~flag /\ Issue(b, TRUE)
    BY <1>2 DEF OuterStatements
  <2>2. stack = <<>>
    BY <1>1, <2>1 DEF ConnectionInv, StackInv
  <2> QED BY <2>1, <2>2, IssueOrder
<1>3. CASE InnerStatements(b)
  <2>1. InLua /\ alive \ uncollected # {} /\ Issue(b, FALSE)
    BY <1>3 DEF InnerStatements
  <2>2. stack # <<>>
    <3>1. ToSet(<<>>) = {}
      BY DEF ToSet
    <3> QED BY <1>1, <2>1, <3>1 DEF ConnectionInv, StackInv
  <2> QED BY <2>1, <2>2, IssueOrder
<1> QED BY <1>2, <1>3


-----------------------------------------------------------------------------
(* The rows: a job runs *)

\* A job that leaves no older orphan behind.
LEMMA RunWhen ==
  ASSUME ConnectionInv, NEW i \in DOMAIN dbJobs, Leave(i), ~overtaken'
  PROVE  /\ ~overtaken
         /\ dbJobs[i].live => \A k \in DOMAIN dbJobs : dbJobs[k].live
         /\ ~dbJobs[i].live => i = 1
<1>1. dbJobs \in Seq(JobRecords) /\ DOMAIN dbJobs = 1..Len(dbJobs) /\ Len(dbJobs) \in Nat
  BY JobTypes
<1>2. ~overtaken /\ \A k \in 1..(i - 1) : dbJobs[k].live
  BY DEF Leave
<1>3. \A k, m \in DOMAIN dbJobs : k < m /\ ~dbJobs[m].live => ~dbJobs[k].live
  BY DEF ConnectionInv, JobsInv
<1>4. ASSUME dbJobs[i].live, NEW k \in DOMAIN dbJobs PROVE dbJobs[k].live
  <2>1. CASE k < i
    <3>1. k \in 1..(i - 1)
      BY <1>1, <2>1
    <3> QED BY <1>2, <3>1
  <2>2. CASE i < k
    BY <1>3, <1>4, <2>2
  <2>3. CASE i = k
    BY <1>4, <2>3
  <2> QED BY <1>1, <2>1, <2>2, <2>3
<1>5. ASSUME ~dbJobs[i].live, i # 1 PROVE FALSE
  <2>1. 1 \in 1..(i - 1) /\ 1 \in DOMAIN dbJobs /\ 1 < i
    BY <1>1, <1>5
  <2> QED BY <1>2, <1>3, <1>5, <2>1
<1> QED BY <1>2, <1>4, <1>5

\* An awaited control statement is alone in the queue.
LEMMA RunAlone ==
  ASSUME ConnectionInv, NEW i \in DOMAIN dbJobs, Leave(i), ~overtaken', dbJobs[i].kind # "statement", dbJobs[i].live
  PROVE  DOMAIN dbJobs' = {} /\ \A k \in DOMAIN dbJobs : k = i
<1>1. \A k \in DOMAIN dbJobs : dbJobs[k].live
  BY RunWhen
<1>2. awaited = <<>>
  BY LiveControl
<1>3. ASSUME NEW k \in DOMAIN dbJobs, k # i PROVE FALSE
  <2>1. CASE dbJobs[k].kind # "statement"
    BY <1>1, <1>3, <2>1 DEF ConnectionInv, JobsInv, Apart
  <2>2. CASE dbJobs[k].kind = "statement"
    <3>1. dbJobs[k].of \in ToSet(awaited)
      BY <1>1, <1>3, <2>2 DEF ConnectionInv, JobsInv, JobInv, StatementInv
    <3>2. ToSet(<<>>) = {}
      BY DEF ToSet
    <3> QED BY <1>2, <3>1, <3>2
  <2> QED BY <2>1, <2>2
<1>4. PICK f : Echo(f) /\ \A k \in DOMAIN dbJobs' : f[k] # i
  BY LeaveEcho
<1>5. DOMAIN dbJobs' = {}
  BY <1>3, <1>4 DEF Echo
<1> QED BY <1>3, <1>5

\* A control statement, and a statement of the outer handle, leave no job of a scope behind.
LEMMA NoInnerLeft ==
  ASSUME ConnectionInv, QueueInv, NEW i \in DOMAIN dbJobs, Leave(i), ~overtaken', dbJobs[i].kind # "statement" \/ dbJobs[i].outer
  PROVE  \A k \in DOMAIN dbJobs' : dbJobs'[k].outer
<1>1. PICK f : Echo(f) /\ \A k \in DOMAIN dbJobs' : f[k] # i
  BY LeaveEcho
<1>2. ASSUME NEW m \in DOMAIN dbJobs, m # i, ~dbJobs[m].outer PROVE FALSE
  <2>1. i \in Nat /\ m \in Nat /\ i >= 1 /\ m >= 1
    BY JobTypes
  <2>2. CASE i < m
    BY <1>2, <2>2 DEF QueueInv, IsInner
  <2>3. CASE m < i
    <3>1. dbJobs[i].live /\ dbJobs[m].live
      BY <2>1, <2>3, RunWhen
    <3>2. dbJobs[i].kind = "statement" /\ dbJobs[i].outer
      BY <1>2, <3>1, RunAlone
    <3>3. StatementInv(dbJobs[i])
      BY <3>2 DEF ConnectionInv, JobsInv, JobInv
    <3>4. path[dbJobs[i].of] = <<>> /\ path[dbJobs[i].of] = stack /\ dbJobs[i].of \in ToSet(awaited)
      BY <3>1, <3>2, <3>3 DEF StatementInv
    <3>5. CASE dbJobs[m].kind = "statement"
      <4>1. StatementInv(dbJobs[m])
        BY <3>5 DEF ConnectionInv, JobsInv, JobInv
      <4> QED BY <1>2, <3>1, <3>4, <4>1 DEF StatementInv
    <3>6. CASE dbJobs[m].kind # "statement"
      BY <3>1, <3>4, <3>6, LiveControl
    <3> QED BY <3>5, <3>6
  <2> QED BY <1>2, <2>1, <2>2, <2>3
<1> QED BY <1>1, <1>2 DEF Echo

\* The queue has no job of a scope left.
LEMMA AloneOwned ==
  ASSUME ConnectionInv', \A k \in DOMAIN dbJobs' : dbJobs'[k].outer, NEW o, Rows(frames') \subseteq RowsOf(o)',
         HasBegun' => stack'[1] = o,
         o \notin aborted' => /\ \A n \in DOMAIN frames' : frames'[n].name = Begin <=> n = 1
                              /\ HasBegun' => Aligned'
  PROVE  Owned(o)'
<1>1. \A k \in DOMAIN dbJobs' : ~IsCommit(k)'
  <2>1. ASSUME NEW k \in DOMAIN dbJobs', dbJobs'[k].kind = "commit" PROVE FALSE
    <3>1. JobInv(dbJobs[k])'
      BY <2>1 DEF ConnectionInv, JobsInv
    <3> QED BY <2>1, <3>1 DEF JobInv, ControlInv
  <2> QED BY <2>1 DEF IsCommit
<1> QED BY <1>1 DEF Owned, Mine, Sound, IsInner

\* How deep the connection is.
LEMMA DepthIs ==
  ASSUME ConnectionInv, stack # <<>>
  PROVE  /\ Depth \in Nat /\ Len(stack) - 1 <= Depth /\ Depth <= Len(stack)
         /\ \A k \in 1..Depth : k \in DOMAIN stack /\ ~Released(stack[k])
<1>1. /\ Len(stack) \in Nat /\ Len(stack) >= 1 /\ DOMAIN stack = 1..Len(stack) /\ Top = stack[Len(stack)] /\ Len(stack) \in DOMAIN stack
  BY TopIs
<1>2. Depth \in Nat /\ Len(stack) - 1 <= Depth /\ Depth <= Len(stack) /\ (Depth = Len(stack) => ~TopIsOff)
  <2>1. PICK n : n = Len(stack)
    OBVIOUS
  <2>2. Depth = IF TopIsOff THEN n - 1 ELSE n
    BY <2>1 DEF Depth
  <2>3. n \in Nat /\ n >= 1
    BY <1>1, <2>1
  <2>4. Depth \in Nat /\ n - 1 <= Depth /\ Depth <= n /\ (Depth = n => ~TopIsOff)
    BY <2>2, <2>3
  <2> QED BY <2>1, <2>4
<1>3. ASSUME NEW k \in 1..Depth PROVE k \in DOMAIN stack /\ ~Released(stack[k])
  <2>1. k \in DOMAIN stack
    <3>1. PICK n, d : n = Len(stack) /\ d = Depth
      OBVIOUS
    <3>2. d \in Nat /\ n \in Nat /\ d <= n /\ k \in 1..d
      BY <1>1, <1>2, <1>3, <3>1
    <3>3. k \in 1..n
      BY <3>2
    <3> QED BY <1>1, <3>1, <3>3
  <2>2. CASE k # Len(stack)
    <3>1. phase[stack[k]] = "body"
      BY <2>1, <2>2 DEF ConnectionInv, StackInv
    <3> QED BY <2>1, <3>1 DEF Released
  <2>3. CASE k = Len(stack)
    <3>1. ~TopIsOff
      <4>1. PICK n, d : n = Len(stack) /\ d = Depth
        OBVIOUS
      <4>2. d \in Nat /\ n \in Nat /\ d <= n /\ k \in 1..d /\ k = n
        BY <1>1, <1>2, <1>3, <2>3, <4>1
      <4>3. d = n
        BY <4>2
      <4> QED BY <1>2, <4>1, <4>3
    <3>2. phase[Top] # "committed"
      BY <1>1 DEF ConnectionInv, StackInv, InControl
    <3> QED BY <1>1, <2>1, <2>3, <3>1, <3>2 DEF Released, TopIsOff
  <2> QED BY <2>2, <2>3
<1> QED BY <1>2, <1>3

\* A row is written into the frame on top.
LEMMA AlignedWrite ==
  ASSUME ConnectionInv, HasBegun, Aligned, UNCHANGED <<stack, phase, name, answer, path>>,
         NEW v \in Writes, result[v] # "ok", result'[v] = "ok", \A w \in Writes : w # v => result'[w] = result[w],
         Len(path[v]) = Depth, \A k \in 1..Depth : path[v][k] = stack[k],
         Len(frames') = Len(frames), \A n \in 1..Len(frames) : frames'[n].name = frames[n].name,
         \A n \in 1..Len(frames) : frames'[n].rows = IF n = Len(frames) THEN frames[n].rows \cup {v} ELSE frames[n].rows
  PROVE  Aligned'
<1>1. stack # <<>>
  BY DEF HasBegun
<1>2. Depth \in Nat /\ \A k \in 1..Depth : ~Released(stack[k])
  BY <1>1, DepthIs
<1>3. Depth' = Depth /\ Len(frames) = Depth
  BY DEF Depth, TopIsOff, Top, Aligned
<1>4. \A s : Released(s)' = Released(s)
  BY DEF Released, Top
<1>5. ASSUME NEW n \in 1..Depth PROVE RowsAt(n)' = IF n = Depth THEN RowsAt(n) \cup {v} ELSE RowsAt(n)
  <2>1. ASSUME NEW w \in Writes, w # v PROVE w \in RowsAt(n)' <=> w \in RowsAt(n)
    BY <2>1 DEF RowsAt, Released, Top
  <2>2. v \notin RowsAt(n)
    BY DEF RowsAt
  <2>3. v \in RowsAt(n)' <=> n = Depth
    <3>1. v \in RowsAt(n)' <=> \A k \in (n + 1)..Depth : Released(path[v][k])
      <4>1. n <= Len(path[v]) /\ path[v][n] = stack[n]
        BY <1>2
      <4> QED BY <4>1 DEF RowsAt, Released, Top
    <3>2. \A k \in (n + 1)..Depth : k \in 1..Depth /\ path[v][k] = stack[k]
      BY <1>2
    <3>3. (\A k \in (n + 1)..Depth : Released(path[v][k])) <=> \A k \in (n + 1)..Depth : FALSE
      BY <1>2, <3>2
    <3>4. (\A k \in (n + 1)..Depth : FALSE) <=> n = Depth
      BY <1>2
    <3> QED BY <3>1, <3>3, <3>4
  <2> QED BY <2>1, <2>2, <2>3 DEF RowsAt
<1>6. ASSUME NEW n \in 1..Depth' PROVE frames'[n].name = name'[stack'[n]] /\ frames'[n].rows = RowsAt(n)'
  BY <1>3, <1>5, <1>6 DEF Aligned
<1>7. Len(frames') = Depth'
  BY <1>3
<1> QED BY <1>6, <1>7 DEF Aligned

LEMMA KeptOthers ==
  ASSUME NEW s, NEW v \in Writes, UNCHANGED <<path, phase>>, \A w \in Writes : w # v => result'[w] = result[w], v \notin RowsOf(s)
  PROVE  Kept(s)' = Kept(s)
<1>1. RowsOf(s)' = RowsOf(s) /\ RowsOf(s) \subseteq Writes
  BY DEF RowsOf
<1>2. \A w \in RowsOf(s) : result'[w] = result[w]
  BY <1>1
<1> QED BY <1>1, <1>2 DEF Kept


LEMMA WriteIs ==
  ASSUME NEW fs \in Seq(Frames), fs # <<>>, NEW v \in Writes, NEW gs
  PROVE  gs = [fs EXCEPT ![Len(fs)].rows = fs[Len(fs)].rows \cup {v}] =>
         /\ Len(gs) = Len(fs) /\ DOMAIN gs = 1..Len(fs) /\ gs # <<>> /\ gs \in Seq(Frames)
         /\ \A n \in 1..Len(fs) : gs[n].name = fs[n].name
         /\ \A n \in 1..Len(fs) : gs[n].rows = IF n = Len(fs) THEN fs[n].rows \cup {v} ELSE fs[n].rows
         /\ Rows(gs) \subseteq Rows(fs) \cup {v}
<1> DEFINE top == fs[Len(fs)]
           g == [top EXCEPT !.rows = top.rows \cup {v}]
<1>1. top \in Frames /\ DOMAIN fs = 1..Len(fs)
  OBVIOUS
<1>2. gs = [fs EXCEPT ![Len(fs)].rows = fs[Len(fs)].rows \cup {v}] => gs = [fs EXCEPT ![Len(fs)] = g]
  OBVIOUS
<1>3. g \in Frames /\ g.name = top.name /\ g.rows = top.rows \cup {v}
  <2> HIDE DEF top
  <2> QED BY <1>1 DEF Frames
<1> HIDE DEF g
<1>4. gs = [fs EXCEPT ![Len(fs)] = g] => gs = [n \in 1..Len(fs) |-> IF n = Len(fs) THEN g ELSE fs[n]]
  BY <1>1
<1>5. ASSUME gs = [n \in 1..Len(fs) |-> IF n = Len(fs) THEN g ELSE fs[n]]
      PROVE  /\ Len(gs) = Len(fs) /\ DOMAIN gs = 1..Len(fs) /\ gs # <<>> /\ gs \in Seq(Frames)
             /\ \A n \in 1..Len(fs) : gs[n].name = fs[n].name
             /\ \A n \in 1..Len(fs) : gs[n].rows = IF n = Len(fs) THEN fs[n].rows \cup {v} ELSE fs[n].rows
             /\ Rows(gs) \subseteq Rows(fs) \cup {v}
  <2>1. PICK n0 : n0 = Len(fs)
    OBVIOUS
  <2>2. n0 \in DOMAIN fs /\ DOMAIN fs = 1..n0 /\ n0 \in Nat /\ n0 >= 1 /\ \A n \in 1..n0 : fs[n] \in Frames
    BY <2>1
  <2>3. gs = [n \in 1..n0 |-> IF n = n0 THEN g ELSE fs[n]]
    BY <1>5, <2>1
  <2>4. \A n \in 1..n0 : (IF n = n0 THEN g ELSE fs[n]) \in Frames
    BY <1>3, <2>2
  <2>5. gs \in Seq(Frames) /\ Len(gs) = n0 /\ DOMAIN gs = 1..n0
    BY <2>2, <2>3, <2>4
  <2>6. gs[n0] = g /\ \A n \in 1..n0 : n # n0 => gs[n] = fs[n]
    BY <2>2, <2>3
  <2>7. gs # <<>>
    BY <2>2, <2>5
  <2>8. ASSUME NEW n \in 1..n0
        PROVE  gs[n].name = fs[n].name /\ gs[n].rows = IF n = n0 THEN fs[n].rows \cup {v} ELSE fs[n].rows
    <3>1. CASE n = n0
      BY <1>3, <2>1, <2>6, <3>1
    <3>2. CASE n # n0
      BY <2>6, <2>8, <3>2
    <3> QED BY <3>1, <3>2
  <2>9. ASSUME NEW w \in Rows(gs) PROVE w \in Rows(fs) \cup {v}
    <3>1. PICK n \in DOMAIN gs : w \in gs[n].rows
      BY <2>9, RowsIn
    <3>2. n \in DOMAIN fs /\ (w \in fs[n].rows \/ w = v)
      BY <2>2, <2>5, <2>8, <3>1
    <3> QED BY <3>2, RowsIn
  <2> QED BY <2>1, <2>5, <2>7, <2>8, <2>9
<1> HIDE DEF top
<1> QED BY <1>2, <1>4, <1>5, Zenon

\* Facts about a statement that runs.
LEMMA RunStatementIs ==
  ASSUME RowsInv, NEW i \in DOMAIN dbJobs, RunStatement(i)
  PROVE  /\ dbJobs[i].kind = "statement" /\ Leave(i)
         /\ UNCHANGED <<stack, phase, name, answer, path>>
         /\ dbJobs[i].of \in Writes /\ result[dbJobs[i].of] = "sent" /\ (dbJobs[i].outer <=> path[dbJobs[i].of] = <<>>)
         /\ \A w \in Writes : w # dbJobs[i].of => result'[w] = result[w]
         /\ SameView /\ HasBegun' = HasBegun
         /\ \/ /\ result'[dbJobs[i].of] = "ok" /\ aborted' = aborted
               /\ dbJobs[i].outer \/ frames = <<>>
               /\ frames' = <<>> /\ db' = db \cup {dbJobs[i].of}
            \/ /\ result'[dbJobs[i].of] = "ok" /\ aborted' = aborted
               /\ ~dbJobs[i].outer /\ frames # <<>> /\ db' = db
               /\ frames' = [frames EXCEPT ![Len(frames)].rows = frames[Len(frames)].rows \cup {dbJobs[i].of}]
            \/ /\ result'[dbJobs[i].of] = "failed" /\ db' = db /\ aborted' = aborted
               /\ frames' = IF dbJobs[i].outer THEN <<>> ELSE frames
            \/ /\ result'[dbJobs[i].of] = "failed" /\ db' = db /\ ~dbJobs[i].outer /\ frames' = <<>>
               /\ aborted' = aborted \cup ToSet(path[dbJobs[i].of])
<1> DEFINE j == dbJobs[i]
<1>1. j.kind = "statement" /\ Leave(i) /\ UNCHANGED <<stack, phase, name, answer, path>>
  BY DEF RunStatement, handlerVars
<1>2. j.of \in Writes /\ result[j.of] = "sent" /\ (j.outer <=> path[j.of] = <<>>)
  BY <1>1 DEF RowsInv, ConnectionInv, JobsInv, JobInv, StatementInv
<1>3. result \in [Writes -> {"unissued", "sent", "ok", "failed"}]
  BY DEF RowsInv, ConnectionInv, TypeOK
<1>4. \A w \in Writes : w # j.of => result'[w] = result[w]
  BY <1>2, <1>3 DEF RunStatement
<1>5. HasBegun' = HasBegun /\ Depth' = Depth /\ \A s : Released(s)' = Released(s)
  BY <1>1 DEF HasBegun, Depth, TopIsOff, Released, Top
<1>6. SameView
  BY <1>1, <1>5 DEF SameView
<1>7. CASE j.outer
  BY <1>1, <1>2, <1>3, <1>4, <1>5, <1>6, <1>7 DEF RunStatement, Entry
<1>8. CASE ~j.outer
  <2>1. Entry(j) = frames
    BY <1>8 DEF Entry
  <2>2. \/ /\ result' = [result EXCEPT ![j.of] = "ok"] /\ aborted' = aborted
           /\ IF frames = <<>>
                THEN frames' = <<>> /\ db' = db \cup {j.of}
                ELSE frames' = [frames EXCEPT ![Len(frames)].rows = @ \cup {j.of}] /\ db' = db
        \/ result' = [result EXCEPT ![j.of] = "failed"] /\ frames' = frames /\ db' = db /\ aborted' = aborted
        \/ /\ result' = [result EXCEPT ![j.of] = "failed"] /\ frames' = <<>> /\ db' = db
           /\ aborted' = aborted \cup ToSet(path[j.of])
    BY <2>1 DEF RunStatement
  <2>3. CASE result' = [result EXCEPT ![j.of] = "ok"]
    <3>1. result'[j.of] = "ok" /\ result'[j.of] # "failed"
      BY <1>2, <1>3, <2>3
    <3>2. [result EXCEPT ![j.of] = "ok"] # [result EXCEPT ![j.of] = "failed"]
      BY <1>2, <1>3
    <3> QED BY <1>1, <1>2, <1>4, <1>5, <1>6, <1>8, <2>2, <2>3, <3>1, <3>2
  <2>4. CASE result' = [result EXCEPT ![j.of] = "failed"]
    <3>1. result'[j.of] = "failed"
      BY <1>2, <1>3, <2>4
    <3>2. [result EXCEPT ![j.of] = "ok"] # [result EXCEPT ![j.of] = "failed"]
      BY <1>2, <1>3
    <3> QED BY <1>1, <1>2, <1>4, <1>5, <1>6, <1>8, <2>2, <2>4, <3>1, <3>2
  <2> QED BY <2>2, <2>3, <2>4
<1> QED BY <1>7, <1>8


LEMMA RunStatementOrder ==
  ASSUME RowsInv, NEW i \in DOMAIN dbJobs, RunStatement(i), ConnectionInv'
  PROVE  OrderInv' /\ LandedInv'
<1> DEFINE v == dbJobs[i].of
<1>1. /\ dbJobs[i].kind = "statement" /\ Leave(i)
      /\ UNCHANGED <<stack, phase, name, answer, path>>
      /\ v \in Writes /\ result[v] = "sent" /\ (dbJobs[i].outer <=> path[v] = <<>>)
      /\ \A w \in Writes : w # v => result'[w] = result[w]
      /\ SameView /\ HasBegun' = HasBegun
  BY RunStatementIs
<1>2. \/ /\ result'[v] = "ok" /\ aborted' = aborted
         /\ dbJobs[i].outer \/ frames = <<>>
         /\ frames' = <<>> /\ db' = db \cup {v}
      \/ /\ result'[v] = "ok" /\ aborted' = aborted
         /\ ~dbJobs[i].outer /\ frames # <<>> /\ db' = db
         /\ frames' = [frames EXCEPT ![Len(frames)].rows = frames[Len(frames)].rows \cup {v}]
      \/ /\ result'[v] = "failed" /\ db' = db /\ aborted' = aborted
         /\ frames' = IF dbJobs[i].outer THEN <<>> ELSE frames
      \/ /\ result'[v] = "failed" /\ db' = db /\ ~dbJobs[i].outer /\ frames' = <<>>
         /\ aborted' = aborted \cup ToSet(path[v])
  BY RunStatementIs
<1>3. ConnectionInv /\ frames \in Seq(Frames) /\ path[v] \in Seq(Scopes) /\ db \subseteq Writes /\ Rows(frames) \subseteq Writes
  BY <1>1, FramesTyped DEF RowsInv, ConnectionInv, TypeOK
<1>4. PICK f : Echo(f) /\ \A k \in DOMAIN dbJobs' : f[k] # i /\ dbJobs'[k].live = dbJobs[f[k]].live
  BY <1>1, <1>3, LeaveEcho
<1> HIDE DEF v
<1>5. ~dbJobs[i].outer /\ frames # <<>> /\ frames' = [frames EXCEPT ![Len(frames)].rows = frames[Len(frames)].rows \cup {v}] =>
         /\ Len(frames') = Len(frames) /\ DOMAIN frames' = 1..Len(frames) /\ frames' # <<>> /\ frames' \in Seq(Frames)
         /\ \A n \in 1..Len(frames) : frames'[n].name = frames[n].name
         /\ \A n \in 1..Len(frames) : frames'[n].rows = IF n = Len(frames) THEN frames[n].rows \cup {v} ELSE frames[n].rows
         /\ Rows(frames') \subseteq Rows(frames) \cup {v}
  BY <1>1, <1>3, WriteIs
<1>6. \/ result'[v] = "ok" /\ aborted' = aborted /\ (dbJobs[i].outer \/ frames = <<>>) /\ frames' = <<>> /\ db' = db \cup {v}
      \/ /\ result'[v] = "ok" /\ aborted' = aborted /\ ~dbJobs[i].outer /\ frames # <<>> /\ db' = db
         /\ Len(frames') = Len(frames) /\ DOMAIN frames' = 1..Len(frames) /\ frames' # <<>> /\ frames' \in Seq(Frames)
         /\ \A n \in 1..Len(frames) : frames'[n].name = frames[n].name
         /\ \A n \in 1..Len(frames) : frames'[n].rows = IF n = Len(frames) THEN frames[n].rows \cup {v} ELSE frames[n].rows
         /\ Rows(frames') \subseteq Rows(frames) \cup {v}
      \/ /\ result'[v] = "failed" /\ db' = db /\ aborted' = aborted
         /\ frames' = IF dbJobs[i].outer THEN <<>> ELSE frames
      \/ /\ result'[v] = "failed" /\ db' = db /\ ~dbJobs[i].outer /\ frames' = <<>>
         /\ aborted' = aborted \cup ToSet(path[v])
  BY <1>2, <1>5, Zenon
<1>7. LandedInv'
  <2>1. db' \cup Rows(frames') \subseteq db \cup Rows(frames) \cup (IF result'[v] = "ok" THEN {v} ELSE {})
    <3>1. CASE result'[v] = "ok"
      BY <1>6, <3>1, NoRows
    <3>2. CASE result'[v] # "ok"
      BY <1>6, <3>2, NoRows
    <3> QED BY <3>1, <3>2
  <2>2. \A w \in db \cup Rows(frames) : w \in Writes /\ w # v /\ result[w] = "ok"
    BY <1>1, <1>3 DEF RowsInv, LandedInv
  <2> QED BY <1>1, <2>1, <2>2 DEF LandedInv
<1> SUFFICES ASSUME ~overtaken' PROVE QueueInv' /\ (\E o \in Owners : Owned(o)') /\ \A s \in Scopes \ aborted' : WrittenInv(s)'
  BY <1>7 DEF OrderInv, Owners
<1>8. ~overtaken
  BY <1>1, <1>3, RunWhen
<1>9. QueueInv /\ (\E o \in Owners : Owned(o)) /\ \A s \in Scopes \ aborted : WrittenInv(s)
  BY <1>8 DEF RowsInv, OrderInv
<1>10. PICK o \in Owners : Owned(o)
  BY <1>9
<1>11. \A s : v \notin RowsOf(s) => Kept(s)' = Kept(s)
  BY <1>1, KeptOthers
<1>12. HasBegun' => \A k \in DOMAIN dbJobs' : dbJobs'[k].kind # "statement" => dbJobs'[k].live
  BY <1>1, <1>4, <1>9 DEF Echo, QueueInv
<1>13. QueueInv'
  BY <1>1, <1>4, <1>9, <1>12, EchoQueue
<1>14. ASSUME NEW s \in Scopes \ aborted', v \notin RowsOf(s) PROVE WrittenInv(s)'
  <2>1. s \in Scopes \ aborted /\ RowsOf(s) \cap db' = RowsOf(s) \cap db
    BY <1>6, <1>14
  <2> QED BY <1>1, <1>4, <1>9, <1>11, <1>14, <2>1, EchoWritten
<1>15. CASE dbJobs[i].outer
  <2>1. \A s : v \notin RowsOf(s)
    BY <1>1, <1>15 DEF RowsOf
  <2>2. frames' = <<>> /\ ~HasBegun'
    BY <1>1, <1>6, <1>9, <1>15 DEF QueueInv, IsInner
  <2>3. \A k \in DOMAIN dbJobs' : dbJobs'[k].outer
    BY <1>1, <1>3, <1>9, <1>15, NoInnerLeft
  <2>4. Rows(frames') \subseteq RowsOf(o)' /\ \A n \in DOMAIN frames' : FALSE
    BY <2>2, NoRows
  <2>5. Owned(o)'
    BY <2>2, <2>3, <2>4, AloneOwned
  <2> QED BY <1>13, <1>14, <2>1, <2>5
<1>16. CASE ~dbJobs[i].outer
  <2>1. path[v][1] = o /\ v \in RowsOf(o) /\ \A s : s # o => v \notin RowsOf(s)
    <3>1. path[v][1] = o
      BY <1>1, <1>10, <1>16 DEF Owned, Mine, IsInner, v
    <3> QED BY <1>1, <1>16, <3>1 DEF RowsOf
  <2>2. ASSUME Rows(frames') \subseteq Rows(frames) \cup {v} PROVE Mine(o)'
    <3>1. Rows(frames') \subseteq RowsOf(o) /\ (HasBegun' => stack'[1] = o)
      BY <1>1, <1>10, <2>1, <2>2 DEF Owned, Mine
    <3> QED BY <1>1, <1>4, <1>10, <3>1, EchoMine DEF Owned
  <2>3. ASSUME o \notin aborted', o \in Scopes, db' = db PROVE WrittenInv(o)'
    <3>1. WrittenInv(o)
      BY <1>6, <1>9, <2>3
    <3>2. ~NoneLeft(o)
      BY <1>1, <2>1 DEF NoneLeft, v
    <3>3. RowsOf(o) \cap db = {} /\ phase[o] # "committed" /\ (phase[o] # "commit" \/ answer # "ok")
      BY <3>1, <3>2 DEF WrittenInv
    <3>4. RowsOf(o)' = RowsOf(o)
      BY <1>1 DEF RowsOf
    <3> QED BY <1>1, <2>3, <3>3, <3>4, NothingWritten
  <2>4. CASE result'[v] = "ok" /\ frames = <<>> /\ aborted' = aborted /\ frames' = <<>>
    <3>1. o \in aborted
      BY <1>10, <1>16, <2>4 DEF Owned, Sound, IsInner
    <3>2. Mine(o)'
      BY <2>2, <2>4
    <3>3. Owned(o)'
      BY <2>4, <3>1, <3>2 DEF Owned
    <3>4. \A s \in Scopes \ aborted' : WrittenInv(s)'
      BY <1>14, <2>1, <2>4, <3>1
    <3> QED BY <1>13, <3>3, <3>4
  <2>5. CASE /\ result'[v] = "ok" /\ aborted' = aborted /\ frames # <<>> /\ db' = db
             /\ Len(frames') = Len(frames) /\ DOMAIN frames' = 1..Len(frames) /\ frames' # <<>>
             /\ \A n \in 1..Len(frames) : frames'[n].name = frames[n].name
             /\ \A n \in 1..Len(frames) : frames'[n].rows = IF n = Len(frames) THEN frames[n].rows \cup {v} ELSE frames[n].rows
             /\ Rows(frames') \subseteq Rows(frames) \cup {v}
    <3>1. Mine(o)'
      BY <2>2, <2>5
    <3>2. ASSUME o \notin aborted' PROVE Sound(o)'
      <4>1. Sound(o)
        BY <1>10, <2>5, <3>2 DEF Owned
      <4>2. \A n \in DOMAIN frames' : frames'[n].name = Begin <=> n = 1
        <5>1. DOMAIN frames = 1..Len(frames)
          BY <1>3
        <5> QED BY <2>5, <4>1, <5>1 DEF Sound
      <4>3. HasBegun' => Aligned'
        <5> SUFFICES ASSUME HasBegun' PROVE Aligned'
          OBVIOUS
        <5>1. HasBegun /\ Aligned
          BY <1>1, <4>1 DEF Sound
        <5>2. Len(path[v]) = Depth /\ \A k \in 1..Depth : path[v][k] = stack[k]
          BY <1>1, <1>9, <5>1 DEF QueueInv, v
        <5> QED BY <1>1, <1>3, <2>5, <5>1, <5>2, AlignedWrite
      <4>4. ASSUME \E k \in DOMAIN dbJobs' : IsCommit(k)' PROVE Len(frames') = 1 /\ frames'[1].rows = Kept(o)'
        <5>1. PICK k \in DOMAIN dbJobs : IsCommit(k)
          BY <1>1, <1>4, <4>4 DEF Echo, IsCommit
        <5>2. Len(frames) = 1 /\ frames[1].rows = Kept(o)
          BY <4>1, <5>1 DEF Sound
        <5>3. Len(path[v]) = 1
          BY <1>1, <1>9, <1>16, <5>1 DEF QueueInv, IsInner, v
        <5>4. frames'[1].rows = Kept(o) \cup {v} /\ Len(frames') = 1
          BY <2>5, <5>2
        <5>5. ASSUME NEW w \in Writes PROVE w \in Kept(o)' <=> w \in Kept(o) \cup {v}
          <6>1. CASE w = v
            <7>1. \A n \in 2..Len(path[v]) : FALSE
              BY <5>3
            <7> QED BY <1>1, <2>1, <2>5, <6>1, <7>1 DEF Kept, RowsOf
          <6>2. CASE w # v
            BY <1>1, <6>2 DEF Kept, RowsOf
          <6> QED BY <6>1, <6>2
        <5>6. Kept(o)' = Kept(o) \cup {v}
          BY <1>1, <5>5 DEF Kept, RowsOf
        <5> QED BY <5>4, <5>6
      <4> QED BY <2>5, <4>2, <4>3, <4>4 DEF Sound
    <3>3. Owned(o)'
      BY <3>1, <3>2 DEF Owned
    <3>4. \A s \in Scopes \ aborted' : WrittenInv(s)'
      BY <1>14, <2>1, <2>3, <2>5
    <3> QED BY <1>13, <3>3, <3>4
  <2>6. CASE result'[v] = "failed" /\ db' = db /\ aborted' = aborted /\ frames' = frames
    <3>1. SameRows
      BY <1>1, <2>6 DEF SameRows
    <3>2. \A s : Kept(s)' = Kept(s)
      BY <1>1, <1>3, <3>1, KeptSame
    <3>3. Owned(o)'
      BY <1>1, <1>3, <1>4, <1>9, <1>10, <1>12, <2>6, <3>1, <3>2, EchoOwned
    <3>4. \A s \in Scopes \ aborted' : WrittenInv(s)'
      BY <1>14, <2>1, <2>3, <2>6
    <3> QED BY <1>13, <3>3, <3>4
  <2>7. CASE result'[v] = "failed" /\ db' = db /\ frames' = <<>> /\ aborted' = aborted \cup ToSet(path[v])
    <3>1. o \in aborted'
      <4>1. 1 \in DOMAIN path[v]
        BY <1>1, <1>3, <1>16
      <4> QED BY <2>1, <2>7, <4>1 DEF ToSet
    <3>2. Mine(o)'
      BY <2>2, <2>7, NoRows
    <3>3. Owned(o)'
      BY <3>1, <3>2 DEF Owned
    <3>4. \A s \in Scopes \ aborted' : WrittenInv(s)'
      BY <1>14, <2>1, <3>1
    <3> QED BY <1>13, <3>3, <3>4
  <2> QED BY <1>6, <1>16, <2>4, <2>5, <2>6, <2>7
<1> QED BY <1>15, <1>16


-----------------------------------------------------------------------------
(* The rows: a control statement runs *)

\* What every control statement does to the queue and to the handler's view.
LEMMA ControlRuns ==
  ASSUME RowsInv, NEW i \in DOMAIN dbJobs, dbJobs[i].kind # "statement", Leave(i), UNCHANGED handlerVars,
         UNCHANGED <<result, path>>, NEW a \in {"ok", "failed"}, Reply(dbJobs[i], a), ~overtaken'
  PROVE  /\ UNCHANGED <<stack, phase, name>>
         /\ QueueInv /\ (\E o \in Owners : Owned(o)) /\ \A s \in Scopes \ aborted : WrittenInv(s)
         /\ QueueInv' /\ (\E f : Echo(f)) /\ \A k \in DOMAIN dbJobs' : dbJobs'[k].outer
         /\ \A s : RowsOf(s)' = RowsOf(s) /\ Kept(s)' = Kept(s)
         /\ ~dbJobs[i].live => ~HasBegun /\ ~HasBegun' /\ answer' = answer
         /\ dbJobs[i].live => answer = "none" /\ answer' = a /\ stack # <<>> /\ dbJobs[i].of = Top /\ Serves(dbJobs[i].kind, phase[Top])
<1>1. ConnectionInv /\ ~overtaken
  BY RunWhen DEF RowsInv
<1>2. QueueInv /\ (\E o \in Owners : Owned(o)) /\ \A s \in Scopes \ aborted : WrittenInv(s)
  BY <1>1 DEF RowsInv, OrderInv
<1>3. UNCHANGED <<stack, phase, name>>
  BY DEF handlerVars
<1>4. PICK f : Echo(f)
  BY <1>1, LeaveEcho
<1>5. \A k \in DOMAIN dbJobs' : dbJobs'[k].outer
  BY <1>1, <1>2, NoInnerLeft
<1>6. \A s : RowsOf(s)' = RowsOf(s) /\ Kept(s)' = Kept(s)
  BY <1>3 DEF RowsOf, Kept
<1>7. ASSUME ~dbJobs[i].live PROVE ~HasBegun /\ ~HasBegun' /\ answer' = answer
  <2>1. ~HasBegun
    BY <1>2, <1>7 DEF QueueInv
  <2>2. answer' = answer
    BY <1>7 DEF Reply
  <2> QED BY <1>3, <2>1, <2>2 DEF HasBegun, Top
<1>8. ASSUME dbJobs[i].live
      PROVE  answer = "none" /\ answer' = a /\ stack # <<>> /\ dbJobs[i].of = Top /\ Serves(dbJobs[i].kind, phase[Top])
  BY <1>1, <1>8, LiveControl DEF Reply
<1>9. QueueInv'
  <2>1. CASE dbJobs[i].live
    BY <1>1, <2>1, RunAlone, EmptyQueue
  <2>2. CASE ~dbJobs[i].live
    <3>1. SameView
      BY <1>7, <2>2 DEF SameView
    <3> QED BY <1>2, <1>3, <1>4, <1>7, <2>2, <3>1, EchoQueue
  <2> QED BY <2>1, <2>2
<1> QED BY <1>2, <1>3, <1>4, <1>5, <1>6, <1>7, <1>8, <1>9

\* The transactions whose rows stay as they were.
LEMMA ControlWritten ==
  ASSUME RowsInv, NEW i \in DOMAIN dbJobs, dbJobs[i].kind # "statement", Leave(i), UNCHANGED handlerVars,
         UNCHANGED <<result, path>>, NEW a \in {"ok", "failed"}, Reply(dbJobs[i], a), ~overtaken',
         NEW s \in Scopes \ aborted, RowsOf(s) \cap db' = RowsOf(s) \cap db,
         dbJobs[i].kind = "commit" /\ a = "ok" => s # dbJobs[i].of
  PROVE  WrittenInv(s)'
<1>1. /\ UNCHANGED <<stack, phase, name>> /\ WrittenInv(s) /\ (\E f : Echo(f)) /\ Kept(s)' = Kept(s)
      /\ ~dbJobs[i].live => answer' = answer
      /\ dbJobs[i].live => answer = "none" /\ answer' = a /\ stack # <<>> /\ dbJobs[i].of = Top /\ Serves(dbJobs[i].kind, phase[Top])
  BY ControlRuns
<1>2. phase[s] = "commit" => (answer' = "ok" <=> answer = "ok")
  <2> SUFFICES ASSUME phase[s] = "commit", dbJobs[i].live PROVE answer' = "ok" <=> answer = "ok"
    BY <1>1
  <2>1. s = Top
    BY ControlIsTop DEF RowsInv, InControl
  <2>2. dbJobs[i].kind = "commit"
    BY <1>1, <2>1 DEF Serves
  <2>3. a # "ok"
    BY <1>1, <2>1, <2>2
  <2> QED BY <1>1, <2>3
<1>3. phase'[s] = phase[s]
  BY <1>1
<1> QED BY <1>1, <1>2, <1>3, EchoWritten

\* A transaction has no row of another.
LEMMA RowsApart ==
  ASSUME NEW s, NEW o, s # o
  PROVE  RowsOf(s) \cap RowsOf(o) = {}
BY DEF RowsOf

\* The handler sees the rows of its frames as before, when no release was answered.
LEMMA RowsAtSame ==
  ASSUME UNCHANGED <<stack, phase, path, result>>, phase[Top] # "commit" \/ (answer # "ok" /\ answer' # "ok")
  PROVE  \A m : RowsAt(m)' = RowsAt(m)
<1>1. \A s : Released(s)' = Released(s)
  BY DEF Released, Top
<1> QED BY <1>1 DEF RowsAt, Released, Top

\* The frame of the top scope is the innermost of its name.
LEMMA TopFrame ==
  ASSUME ConnectionInv, stack # <<>>, Aligned, ~TopIsOff
  PROVE  /\ Len(frames) = Len(stack) /\ Depth = Len(stack)
         /\ Named(frames, name[Top]) # {} /\ Innermost(frames, name[Top]) = Len(frames)
<1>1. frames \in Seq(Frames)
  BY FramesTyped
<1>2. Top = stack[Len(stack)] /\ Len(stack) \in Nat /\ Len(stack) >= 1
  BY TopIs
<1>3. Depth = Len(stack) /\ Len(frames) = Len(stack)
  BY DEF Depth, Aligned
<1>4. PICK n : n = Len(stack)
  OBVIOUS
<1>5. n \in Nat /\ n >= 1 /\ n \in 1..n
  BY <1>2, <1>4
<1>6. DOMAIN frames = 1..n
  BY <1>1, <1>3, <1>4
<1>7. frames[n].name = name[Top]
  BY <1>2, <1>3, <1>4, <1>5 DEF Aligned
<1>8. n \in Named(frames, name[Top])
  BY <1>5, <1>6, <1>7 DEF Named
<1>9. Innermost(frames, name[Top]) \in 1..n /\ n <= Innermost(frames, name[Top])
  BY <1>1, <1>6, <1>8, InnermostIs
<1>10. PICK m : m = Innermost(frames, name[Top])
  OBVIOUS
<1>11. m = n
  BY <1>5, <1>9, <1>10
<1> QED BY <1>3, <1>4, <1>8, <1>10, <1>11


\* What is left to show of a control statement that writes nothing to the database.
LEMMA ControlKeeps ==
  ASSUME RowsInv, NEW i \in DOMAIN dbJobs, dbJobs[i].kind # "statement", Leave(i), UNCHANGED handlerVars,
         UNCHANGED <<result, path, db, aborted>>, NEW a \in {"ok", "failed"}, Reply(dbJobs[i], a), ConnectionInv',
         dbJobs[i].kind = "commit" => a # "ok" \/ name[dbJobs[i].of] # Begin,
         Rows(frames') \subseteq Rows(frames),
         ~overtaken' => \E o \in Owners : Owned(o)'
  PROVE  OrderInv' /\ LandedInv'
<1>1. LandedInv'
  BY DEF RowsInv, LandedInv
<1> SUFFICES ASSUME ~overtaken' PROVE QueueInv' /\ \A s \in Scopes \ aborted' : WrittenInv(s)'
  BY <1>1 DEF OrderInv, Owners
<1>2. QueueInv' /\ UNCHANGED name
  BY ControlRuns
<1>3. ASSUME NEW s \in Scopes \ aborted' PROVE WrittenInv(s)'
  <2>1. CASE name[s] # Begin
    BY <1>2, <1>3, <2>1, InnerWritten
  <2>2. CASE name[s] = Begin
    BY <1>3, <2>2, ControlWritten
  <2> QED BY <2>1, <2>2
<1> QED BY <1>2, <1>3

LEMMA RunRollbackOrder ==
  ASSUME RowsInv, NEW i \in DOMAIN dbJobs, RunRollback(i), ConnectionInv'
  PROVE  OrderInv' /\ LandedInv'
<1>1. /\ dbJobs[i].kind = "rollback" /\ name[dbJobs[i].of] = Begin /\ Leave(i) /\ UNCHANGED handlerVars
      /\ UNCHANGED <<result, path, aborted, db>> /\ frames' = <<>> /\ Reply(dbJobs[i], "ok")
  BY DEF RunRollback
<1>2. Rows(frames') = {} /\ Len(frames') = 0 /\ \A n \in DOMAIN frames' : FALSE
  BY <1>1, NoRows
<1>3. ASSUME ~overtaken' PROVE \E o \in Owners : Owned(o)'
  <2>1. /\ UNCHANGED <<stack, phase, name>> /\ (\E o \in Owners : Owned(o)) /\ \A k \in DOMAIN dbJobs' : dbJobs'[k].outer
        /\ ~dbJobs[i].live => ~HasBegun'
        /\ dbJobs[i].live => answer' = "ok" /\ stack # <<>> /\ dbJobs[i].of = Top /\ Serves("rollback", phase[Top])
    BY <1>1, <1>3, ControlRuns
  <2>2. PICK o \in Owners : Owned(o)
    BY <2>1
  <2>3. ASSUME HasBegun' PROVE stack'[1] = o /\ Aligned'
    <3>1. dbJobs[i].live /\ phase[Top] \in {"rollback", "undo"}
      BY <2>1, <2>3 DEF Serves
    <3>2. Len(stack) = 1
      BY <1>1, <3>1, ControlScope DEF RowsInv
    <3>3. HasBegun
      BY <2>1, <3>1 DEF HasBegun
    <3>4. Depth' = 0
      BY <2>1, <3>1, <3>2 DEF Depth, TopIsOff, Top
    <3>5. Aligned'
      BY <1>2, <3>4 DEF Aligned
    <3> QED BY <2>1, <2>2, <3>3, <3>5 DEF Owned, Mine
  <2>4. Owned(o)'
    BY <1>2, <2>1, <2>3, AloneOwned
  <2> QED BY <2>2, <2>4
<1> QED BY <1>1, <1>2, <1>3, ControlKeeps

LEMMA RunRollbackToOrder ==
  ASSUME RowsInv, NEW i \in DOMAIN dbJobs, RunRollbackTo(i), ConnectionInv'
  PROVE  OrderInv' /\ LandedInv'
<1> DEFINE n == name[dbJobs[i].of]
           k == Innermost(frames, n)
<1>1. /\ dbJobs[i].kind = "rollback" /\ n # Begin /\ Leave(i) /\ UNCHANGED handlerVars
      /\ UNCHANGED <<result, path, aborted, db>>
      /\ \/ Named(frames, n) = {} /\ frames' = frames /\ Reply(dbJobs[i], "failed")
         \/ Named(frames, n) # {} /\ frames' = SubSeq(frames, 1, k - 1) /\ Reply(dbJobs[i], "ok")
  BY DEF RunRollbackTo
<1>2. ConnectionInv /\ frames \in Seq(Frames) /\ DOMAIN frames = 1..Len(frames) /\ Len(frames) \in Nat
  BY FramesTyped DEF RowsInv
<1>3. Named(frames, n) # {} => k \in DOMAIN frames
  BY <1>2, InnermostIs
<1>4. PICK a \in {"ok", "failed"} : Reply(dbJobs[i], a) /\ (a = "failed" => Named(frames, n) = {})
  BY <1>1
<1> HIDE DEF n, k
<1>5. PICK m \in 0..Len(frames) :
        frames' = SubSeq(frames, 1, m) /\ (Named(frames, n) # {} => m = k - 1)
  <2>1. CASE Named(frames, n) = {}
    <3>1. frames = SubSeq(frames, 1, Len(frames))
      BY <1>2
    <3>2. Len(frames) \in 0..Len(frames)
      BY <1>2
    <3> QED BY <1>1, <2>1, <3>1, <3>2
  <2>2. CASE Named(frames, n) # {}
    <3>1. k - 1 \in 0..Len(frames)
      BY <1>2, <1>3, <2>2
    <3> QED BY <1>1, <2>2, <3>1
  <2> QED BY <2>1, <2>2
<1>6. Len(frames') = m /\ DOMAIN frames' = 1..m /\ \A x \in 1..m : x \in DOMAIN frames /\ frames'[x] = frames[x]
  BY <1>2, <1>5
<1>7. Rows(frames') \subseteq Rows(frames)
  BY <1>2, <1>5, PrefixRows
<1>8. ASSUME ~overtaken' PROVE \E o \in Owners : Owned(o)'
  <2>1. /\ UNCHANGED <<stack, phase, name>> /\ (\E o \in Owners : Owned(o)) /\ \A x \in DOMAIN dbJobs' : dbJobs'[x].outer
        /\ \A s : RowsOf(s)' = RowsOf(s)
        /\ ~dbJobs[i].live => ~HasBegun'
        /\ dbJobs[i].live => answer = "none" /\ answer' = a /\ stack # <<>> /\ dbJobs[i].of = Top /\ Serves("rollback", phase[Top])
    BY <1>1, <1>4, <1>8, ControlRuns
  <2>2. PICK o \in Owners : Owned(o)
    BY <2>1
  <2>3. ASSUME HasBegun'
        PROVE  /\ dbJobs[i].live /\ phase[Top] \in {"rollback", "undo"} /\ HasBegun /\ stack'[1] = o
               /\ stack # <<>> /\ answer = "none" /\ answer' = a /\ n = name[Top] /\ Len(stack) # 1
    <3>1. dbJobs[i].live /\ phase[Top] \in {"rollback", "undo"}
      BY <2>1, <2>3 DEF Serves
    <3>2. HasBegun /\ stack # <<>>
      BY <2>1, <3>1 DEF HasBegun
    <3>3. Len(stack) # 1
      BY <1>1, <1>2, <3>1, ControlScope DEF n
    <3> QED BY <2>1, <2>2, <3>1, <3>2, <3>3 DEF Owned, Mine, n
  <2>4. ASSUME o \notin aborted', NEW x \in DOMAIN frames' PROVE frames'[x].name = Begin <=> x = 1
    BY <1>1, <1>6, <2>2, <2>4 DEF Owned, Sound
  <2>5. ASSUME o \notin aborted', HasBegun' PROVE Aligned'
    <3>1. Aligned /\ ~TopIsOff
      BY <1>1, <2>2, <2>3, <2>5 DEF Owned, Sound, TopIsOff
    <3>2. Len(frames) = Len(stack) /\ Depth = Len(stack) /\ Named(frames, n) # {} /\ k = Len(frames)
      BY <1>2, <2>3, <2>5, <3>1, TopFrame DEF k
    <3>3. m = Len(stack) - 1 /\ a = "ok"
      BY <1>4, <1>5, <3>2
    <3>4. Depth' = Len(stack) - 1
      BY <2>1, <2>3, <2>5, <3>3 DEF Depth, TopIsOff, Top
    <3>5. \A x : RowsAt(x)' = RowsAt(x)
      <4>1. phase[Top] # "commit"
        BY <2>3, <2>5
      <4> QED BY <1>1, <2>1, <4>1, RowsAtSame
    <3>6. \A x \in 1..m : x \in 1..Depth
      BY <1>2, <3>2, <3>3
    <3>7. ASSUME NEW x \in 1..m PROVE frames'[x].name = name'[stack'[x]] /\ frames'[x].rows = RowsAt(x)'
      BY <1>6, <2>1, <3>1, <3>5, <3>6 DEF Aligned
    <3> QED BY <1>6, <3>3, <3>4, <3>7 DEF Aligned
  <2>6. Rows(frames') \subseteq RowsOf(o)'
    BY <1>7, <2>1, <2>2 DEF Owned, Mine
  <2>7. Owned(o)'
    BY <2>1, <2>3, <2>4, <2>5, <2>6, AloneOwned
  <2> QED BY <2>2, <2>7
<1> QED BY <1>1, <1>4, <1>7, <1>8, ControlKeeps


\* A scope that has not begun has no rows.
LEMMA NotYetRows ==
  ASSUME ConnectionInv, stack # <<>>, phase[Top] = "begin"
  PROVE  RowsAt(Len(stack)) = {}
<1>1. Top = stack[Len(stack)] /\ Len(stack) \in Nat /\ Len(stack) >= 1
  BY TopIs
<1>2. ASSUME NEW w \in Writes, Len(stack) <= Len(path[w]), path[w][Len(stack)] = stack[Len(stack)] PROVE FALSE
  <2>1. path[w] \in Seq(Scopes)
    BY DEF ConnectionInv, TypeOK
  <2>2. Len(stack) \in DOMAIN path[w]
    BY <1>1, <1>2, <2>1
  <2>3. phase[path[w][Len(stack)]] # "begin"
    BY <2>2 DEF ConnectionInv, PathInv
  <2> QED BY <1>1, <1>2, <2>3
<1> QED BY <1>2 DEF RowsAt

\* BEGIN of an outermost scope: whatever was open is rolled back first.
LEMMA OuterBegins ==
  ASSUME RowsInv, NEW i \in DOMAIN dbJobs, dbJobs[i].kind = "begin", name[dbJobs[i].of] = Begin, Leave(i),
         UNCHANGED handlerVars, UNCHANGED <<db, result, path, aborted>>, ConnectionInv', ~overtaken',
         NEW a \in {"ok", "failed"}, Reply(dbJobs[i], a),
         frames' = IF a = "ok" THEN Append(<<>>, Frame(Begin)) ELSE <<>>
  PROVE  \E o \in Owners : Owned(o)'
<1>1. /\ UNCHANGED <<stack, phase, name>> /\ \A k \in DOMAIN dbJobs' : dbJobs'[k].outer
      /\ ~dbJobs[i].live => ~HasBegun'
      /\ dbJobs[i].live => answer' = a /\ stack # <<>> /\ dbJobs[i].of = Top /\ Serves("begin", phase[Top])
  BY ControlRuns
<1>2. ConnectionInv /\ dbJobs[i].of \in Scopes
  BY ControlScope DEF RowsInv
<1> DEFINE new == Frame(Begin)
<1>3. new.name = Begin /\ new.rows = {}
  BY DEF Frame
<1> HIDE DEF new
<1>4. IF a = "ok" THEN Len(frames') = 1 /\ DOMAIN frames' = {1} /\ frames'[1] = new
                  ELSE frames' = <<>> /\ DOMAIN frames' = {}
  BY DEF new
<1>5. Rows(frames') = {}
  BY <1>3, <1>4 DEF Rows
<1>6. \A n \in DOMAIN frames' : frames'[n].name = Begin <=> n = 1
  BY <1>3, <1>4
<1>7. ASSUME HasBegun' PROVE stack'[1] = dbJobs[i].of /\ Aligned'
  <2>1. /\ dbJobs[i].live /\ answer' = a /\ stack # <<>> /\ dbJobs[i].of = Top /\ phase[Top] = "begin"
    BY <1>1, <1>7 DEF Serves
  <2>2. Len(stack) = 1 /\ Top = stack[1]
    BY <1>2, <2>1, ControlScope, TopIs
  <2>3. a = "ok"
    BY <1>1, <1>7, <2>1, <2>2 DEF HasBegun, Top
  <2>4. Depth' = 1
    BY <1>1, <2>1, <2>2, <2>3 DEF Depth, TopIsOff, Top
  <2>5. RowsAt(1)' = {}
    <3>1. RowsAt(1) = {}
      BY <1>2, <2>1, <2>2, NotYetRows
    <3>2. RowsAt(1)' = RowsAt(1)
      BY <1>1, <2>1, RowsAtSame
    <3> QED BY <3>1, <3>2
  <2>6. Aligned'
    <3>1. frames'[1].name = Begin /\ frames'[1].rows = {} /\ Len(frames') = 1
      BY <1>3, <1>4, <2>3
    <3>2. name'[stack'[1]] = Begin
      BY <1>1, <2>1, <2>2
    <3>3. \A x \in 1..1 : x = 1
      OBVIOUS
    <3> QED BY <2>4, <2>5, <3>1, <3>2, <3>3 DEF Aligned
  <2> QED BY <1>1, <2>1, <2>2, <2>6
<1>8. PICK o \in Owners : o = dbJobs[i].of
  BY <1>2 DEF Owners
<1>9. Rows(frames') \subseteq RowsOf(o)' /\ (HasBegun' => stack'[1] = o)
  BY <1>5, <1>7, <1>8
<1>10. Owned(o)'
  BY <1>1, <1>6, <1>7, <1>9, AloneOwned
<1> QED BY <1>10

\* SAVEPOINT of an inner scope.
LEMMA InnerBegins ==
  ASSUME RowsInv, NEW i \in DOMAIN dbJobs, dbJobs[i].kind = "begin", name[dbJobs[i].of] # Begin, Leave(i),
         UNCHANGED handlerVars, UNCHANGED <<db, result, path, aborted>>, ConnectionInv', ~overtaken',
         NEW a \in {"ok", "failed"}, Reply(dbJobs[i], a),
         frames' = IF a = "ok" THEN Append(frames, Frame(name[dbJobs[i].of])) ELSE frames
  PROVE  \E o \in Owners : Owned(o)'
<1> DEFINE n == name[dbJobs[i].of]
           new == Frame(n)
<1>1. /\ UNCHANGED <<stack, phase, name>> /\ (\E o \in Owners : Owned(o)) /\ \A k \in DOMAIN dbJobs' : dbJobs'[k].outer
      /\ \A s : RowsOf(s)' = RowsOf(s)
      /\ ~dbJobs[i].live => ~HasBegun'
      /\ dbJobs[i].live => answer = "none" /\ answer' = a /\ stack # <<>> /\ dbJobs[i].of = Top /\ Serves("begin", phase[Top])
  BY ControlRuns
<1>2. ConnectionInv /\ dbJobs[i].of \in Scopes /\ ~dbJobs[i].outer /\ n \in Nat \cup {Begin} /\ n # Begin
  BY ControlScope DEF RowsInv
<1>3. frames \in Seq(Frames) /\ DOMAIN frames = 1..Len(frames) /\ Len(frames) \in Nat
  BY <1>2, FramesTyped
<1>4. Rows(frames') \subseteq Rows(frames)
  BY <1>2, <1>3, AppendRows
<1>5. new.name = n /\ new.rows = {} /\ new \in Frames
  BY <1>2 DEF Frame, Frames
<1> HIDE DEF new
<1>6. IF a = "ok" THEN /\ Len(frames') = Len(frames) + 1 /\ DOMAIN frames' = 1..(Len(frames) + 1)
                       /\ frames'[Len(frames) + 1] = new /\ \A x \in DOMAIN frames : frames'[x] = frames[x]
                  ELSE frames' = frames
  <2>1. frames' = IF a = "ok" THEN Append(frames, new) ELSE frames
    BY DEF new
  <2> QED BY <1>3, <1>5, <2>1
<1> HIDE DEF n
<1>7. PICK o \in Owners : Owned(o)
  BY <1>1
<1>8. ASSUME HasBegun'
      PROVE  /\ dbJobs[i].live /\ phase[Top] = "begin" /\ HasBegun /\ stack'[1] = o
             /\ stack # <<>> /\ answer = "none" /\ answer' = a /\ n = name[Top] /\ Len(stack) # 1
  <2>1. dbJobs[i].live /\ phase[Top] = "begin"
    BY <1>1, <1>8 DEF Serves
  <2>2. Len(stack) # 1
    BY <1>2, <2>1, ControlScope DEF n
  <2>3. HasBegun /\ stack # <<>>
    BY <1>1, <2>1, <2>2 DEF HasBegun
  <2> QED BY <1>1, <1>7, <2>1, <2>2, <2>3 DEF Owned, Mine, n
<1>9. ASSUME o \notin aborted', NEW x \in DOMAIN frames' PROVE frames'[x].name = Begin <=> x = 1
  <2>1. Sound(o)
    BY <1>7, <1>9 DEF Owned
  <2>2. frames # <<>>
    BY <1>2, <2>1 DEF Sound, IsInner
  <2>3. Len(frames) >= 1
    BY <1>3, <2>2
  <2>4. CASE x \in DOMAIN frames
    BY <1>6, <2>1, <2>4 DEF Sound
  <2>5. CASE x \notin DOMAIN frames
    <3>1. a = "ok" /\ x = Len(frames) + 1 /\ x # 1
      <4>1. PICK l : l = Len(frames)
        OBVIOUS
      <4>2. a = "ok" /\ x \in 1..(l + 1) /\ l \in Nat /\ l >= 1 /\ x \notin 1..l
        BY <1>3, <1>6, <1>9, <2>3, <2>5, <4>1
      <4>3. x = l + 1 /\ x # 1
        BY <4>2
      <4> QED BY <4>1, <4>2, <4>3
    <3> QED BY <1>2, <1>5, <1>6, <3>1
  <2> QED BY <2>4, <2>5
<1>10. ASSUME o \notin aborted', HasBegun' PROVE Aligned'
  <2>1. Aligned /\ TopIsOff
    BY <1>7, <1>8, <1>10 DEF Owned, Sound, TopIsOff
  <2>2. Depth = Len(stack) - 1 /\ Len(frames) = Len(stack) - 1
    BY <1>8, <1>10, <2>1 DEF Depth, Aligned
  <2>3. \A x : RowsAt(x)' = RowsAt(x)
    BY <1>1, <1>8, <1>10, RowsAtSame
  <2>4. Top = stack[Len(stack)] /\ Len(stack) \in Nat /\ Len(stack) >= 1
    BY <1>2, <1>8, <1>10, TopIs
  <2>5. PICK l, d : l = Len(stack) /\ d = Len(frames)
    OBVIOUS
  <2>6. l \in Nat /\ d = l - 1 /\ d + 1 = l /\ d \in Nat /\ Depth = d
    BY <1>3, <2>2, <2>4, <2>5
  <2>7. ASSUME NEW x \in 1..d PROVE frames'[x].name = name'[stack'[x]] /\ frames'[x].rows = RowsAt(x)'
    <3>1. frames'[x] = frames[x]
      BY <1>3, <1>6, <2>5
    <3> QED BY <1>1, <2>1, <2>3, <2>6, <3>1 DEF Aligned
  <2>8. CASE a = "ok"
    <3>1. Depth' = l
      BY <1>1, <1>8, <1>10, <2>5, <2>8 DEF Depth, TopIsOff, Top
    <3>2. RowsAt(l) = {}
      BY <1>2, <1>8, <1>10, <2>5, NotYetRows
    <3>3. frames'[l].name = name'[stack'[l]] /\ frames'[l].rows = RowsAt(l)'
      <4>1. frames'[l] = new
        BY <1>6, <2>5, <2>6, <2>8
      <4>2. name'[stack'[l]] = n
        BY <1>1, <1>8, <1>10, <2>4, <2>5
      <4>3. RowsAt(l)' = {}
        BY <2>3, <3>2
      <4> QED BY <1>5, <4>1, <4>2, <4>3
    <3>4. \A x \in 1..l : x \in 1..d \/ x = l
      BY <2>6
    <3>5. Len(frames') = l
      BY <1>6, <2>5, <2>6, <2>8
    <3> QED BY <2>7, <3>1, <3>3, <3>4, <3>5 DEF Aligned
  <2>9. CASE a # "ok"
    <3>1. Depth' = d
      BY <1>1, <1>8, <1>10, <2>5, <2>6, <2>9 DEF Depth, TopIsOff, Top
    <3>2. Len(frames') = d
      BY <1>6, <2>5, <2>9
    <3> QED BY <2>7, <3>1, <3>2 DEF Aligned
  <2> QED BY <2>8, <2>9
<1>11. Rows(frames') \subseteq RowsOf(o)'
  BY <1>1, <1>4, <1>7 DEF Owned, Mine
<1>12. Owned(o)'
  BY <1>1, <1>8, <1>9, <1>10, <1>11, AloneOwned
<1> QED BY <1>12

LEMMA RunBeginOrder ==
  ASSUME RowsInv, NEW i \in DOMAIN dbJobs, RunBegin(i), ConnectionInv'
  PROVE  OrderInv' /\ LandedInv'
<1> DEFINE n == name[dbJobs[i].of]
           fs == Entry(dbJobs[i])
<1>1. /\ dbJobs[i].kind = "begin" /\ Leave(i) /\ UNCHANGED handlerVars /\ UNCHANGED <<db, result, path, aborted>>
      /\ \/ frames' = Append(fs, Frame(n)) /\ Reply(dbJobs[i], "ok")
         \/ frames' = fs /\ Reply(dbJobs[i], "failed")
  BY DEF RunBegin
<1>2. PICK a \in {"ok", "failed"} :
        Reply(dbJobs[i], a) /\ frames' = IF a = "ok" THEN Append(fs, Frame(n)) ELSE fs
  BY <1>1
<1>3. (dbJobs[i].outer <=> n = Begin) /\ n \in Nat \cup {Begin} /\ frames \in Seq(Frames) /\ <<>> \in Seq(Frames)
  BY <1>1, ControlScope, FramesTyped DEF RowsInv
<1>4. Rows(frames') \subseteq Rows(frames)
  <2>1. Rows(fs) \subseteq Rows(frames) /\ fs \in Seq(Frames)
    BY <1>3, NoRows DEF Entry
  <2>2. Rows(Append(fs, Frame(n))) \subseteq Rows(fs)
    BY <1>3, <2>1, AppendRows
  <2> QED BY <1>2, <2>1, <2>2
<1>5. ASSUME ~overtaken' PROVE \E o \in Owners : Owned(o)'
  <2>1. CASE n = Begin
    <3>1. fs = <<>>
      BY <1>3, <2>1 DEF Entry
    <3> QED BY <1>1, <1>2, <1>5, <2>1, <3>1, OuterBegins
  <2>2. CASE n # Begin
    <3>1. fs = frames
      BY <1>3, <2>2 DEF Entry
    <3> QED BY <1>1, <1>2, <1>5, <2>2, <3>1, InnerBegins
  <2> QED BY <2>1, <2>2
<1> QED BY <1>1, <1>2, <1>4, <1>5, ControlKeeps


\* COMMIT succeeds: the transaction's rows are in the database, and none is to come.
LEMMA CommitWritten ==
  ASSUME RowsInv, NEW i \in DOMAIN dbJobs, dbJobs[i].kind = "commit", name[dbJobs[i].of] = Begin, Leave(i),
         UNCHANGED handlerVars, UNCHANGED <<result, path>>, Reply(dbJobs[i], "ok"), ConnectionInv', ~overtaken',
         NEW o, o = dbJobs[i].of, o \notin aborted, Owned(o), db' = db \cup Rows(frames)
  PROVE  WrittenInv(o)'
<1>1. /\ UNCHANGED <<stack, phase, name>> /\ \A s \in Scopes \ aborted : WrittenInv(s)
      /\ \A k \in DOMAIN dbJobs' : dbJobs'[k].outer
      /\ RowsOf(o)' = RowsOf(o) /\ Kept(o)' = Kept(o)
      /\ dbJobs[i].live => answer = "none" /\ answer' = "ok" /\ stack # <<>> /\ dbJobs[i].of = Top /\ Serves("commit", phase[Top])
  BY ControlRuns
<1>2. ConnectionInv /\ o \in Scopes /\ (~dbJobs[i].live => phase[o] = "cut")
  BY ControlScope DEF RowsInv
<1>3. IsCommit(i) /\ WrittenInv(o)
  BY <1>1, <1>2 DEF IsCommit
<1>4. phase[o] = "cut" \/ (phase[o] = "commit" /\ answer = "none" /\ answer' = "ok")
  <2>1. CASE dbJobs[i].live
    BY <1>1, <1>2, <2>1 DEF Serves
  <2>2. CASE ~dbJobs[i].live
    BY <1>2, <2>2
  <2> QED BY <2>1, <2>2
<1>5. RowsOf(o) \cap db = {}
  BY <1>3, <1>4 DEF WrittenInv
<1>6. Rows(frames) = Kept(o)
  <2>1. Len(frames) = 1 /\ frames[1].rows = Kept(o)
    BY <1>3 DEF Owned, Sound
  <2>2. DOMAIN frames = {1}
    BY <1>2, <2>1, FramesTyped
  <2> QED BY <2>1, <2>2 DEF Rows
<1>7. RowsOf(o)' \cap db' = Kept(o)'
  BY <1>1, <1>5, <1>6 DEF Kept
<1>8. NoneLeft(o)' /\ \A k \in DOMAIN dbJobs' : ~IsCommit(k)'
  <2>1. ASSUME NEW k \in DOMAIN dbJobs'
        PROVE  dbJobs'[k].kind # "commit" /\ (dbJobs'[k].kind = "statement" => path'[dbJobs'[k].of] = <<>>)
    <3>1. JobInv(dbJobs[k])' /\ dbJobs'[k].outer
      BY <1>1, <2>1 DEF ConnectionInv, JobsInv
    <3> QED BY <3>1 DEF JobInv, StatementInv, ControlInv
  <2> QED BY <2>1 DEF NoneLeft, RowsOf, IsCommit
<1>9. phase'[o] = phase[o]
  BY <1>1
<1> QED BY <1>4, <1>7, <1>8, <1>9 DEF WrittenInv

LEMMA RunCommitOrder ==
  ASSUME RowsInv, NEW i \in DOMAIN dbJobs, RunCommit(i), ConnectionInv'
  PROVE  OrderInv' /\ LandedInv'
<1>1. /\ dbJobs[i].kind = "commit" /\ name[dbJobs[i].of] = Begin /\ Leave(i) /\ UNCHANGED handlerVars
      /\ UNCHANGED <<result, path>>
      /\ \/ frames' = <<>> /\ db' = db \cup Rows(frames) /\ aborted' = aborted /\ Reply(dbJobs[i], "ok")
         \/ frames' = frames /\ db' = db /\ aborted' = aborted /\ Reply(dbJobs[i], "failed")
         \/ frames' = <<>> /\ db' = db /\ aborted' = aborted \cup {dbJobs[i].of} /\ Reply(dbJobs[i], "failed")
  BY DEF RunCommit, sqliteVars
<1>2. PICK a \in {"ok", "failed"} :
        /\ Reply(dbJobs[i], a)
        /\ \/ a = "ok" /\ frames' = <<>> /\ db' = db \cup Rows(frames) /\ aborted' = aborted
           \/ a = "failed" /\ frames' = frames /\ db' = db /\ aborted' = aborted
           \/ a = "failed" /\ frames' = <<>> /\ db' = db /\ aborted' = aborted \cup {dbJobs[i].of}
  BY <1>1
<1>3. ConnectionInv
  BY DEF RowsInv
<1>4. LandedInv'
  <2>1. db' \cup Rows(frames') \subseteq db \cup Rows(frames)
    BY <1>2, NoRows
  <2> QED BY <1>1, <2>1 DEF RowsInv, LandedInv
<1> SUFFICES ASSUME ~overtaken' PROVE QueueInv' /\ (\E o \in Owners : Owned(o)') /\ \A s \in Scopes \ aborted' : WrittenInv(s)'
  BY <1>4 DEF OrderInv, Owners
<1>5. /\ UNCHANGED <<stack, phase, name>> /\ (\E o \in Owners : Owned(o)) /\ \A x \in DOMAIN dbJobs' : dbJobs'[x].outer
      /\ QueueInv' /\ \A s : RowsOf(s)' = RowsOf(s)
      /\ ~dbJobs[i].live => ~HasBegun'
      /\ dbJobs[i].live => answer = "none" /\ answer' = a /\ stack # <<>> /\ dbJobs[i].of = Top /\ Serves("commit", phase[Top])
  BY <1>1, <1>2, ControlRuns
<1>6. PICK o \in Owners : Owned(o)
  BY <1>5
<1>7. dbJobs[i].of = o /\ Rows(frames) \subseteq RowsOf(o)
  BY <1>1, <1>6 DEF Owned, Mine, IsCommit
<1>8. ASSUME HasBegun'
      PROVE  /\ phase[Top] = "commit" /\ HasBegun /\ stack'[1] = o /\ stack # <<>>
             /\ answer = "none" /\ answer' = a /\ Len(stack) = 1
  <2>1. dbJobs[i].live /\ phase[Top] = "commit"
    BY <1>5, <1>8 DEF Serves
  <2>2. HasBegun /\ stack # <<>> /\ Len(stack) = 1
    BY <1>1, <1>3, <1>5, <2>1, ControlScope DEF HasBegun
  <2> QED BY <1>5, <1>6, <2>1, <2>2 DEF Owned, Mine
<1>9. ASSUME NEW s \in Scopes \ aborted', s # o PROVE WrittenInv(s)'
  <2>1. s \in Scopes \ aborted
    BY <1>2, <1>9
  <2>2. RowsOf(s) \cap RowsOf(o) = {}
    BY <1>9, RowsApart
  <2>3. RowsOf(s) \cap db' = RowsOf(s) \cap db
    BY <1>2, <1>7, <2>2
  <2> QED BY <1>1, <1>2, <1>7, <1>9, <2>1, <2>3, ControlWritten
<1>10. CASE a = "ok" /\ frames' = <<>> /\ db' = db \cup Rows(frames) /\ aborted' = aborted
  <2>1. Rows(frames') = {} /\ Len(frames') = 0 /\ \A n \in DOMAIN frames' : FALSE
    BY <1>10, NoRows
  <2>2. ASSUME HasBegun' PROVE Aligned'
    <3>1. Depth' = 0
      BY <1>5, <1>8, <1>10, <2>2 DEF Depth, TopIsOff, Top
    <3> QED BY <2>1, <3>1 DEF Aligned
  <2>3. Owned(o)'
    BY <1>5, <1>8, <2>1, <2>2, AloneOwned
  <2>4. o \notin aborted => WrittenInv(o)'
    BY <1>1, <1>2, <1>6, <1>7, <1>10, CommitWritten
  <2> QED BY <1>5, <1>9, <1>10, <2>3, <2>4
<1>11. CASE a = "failed" /\ frames' = frames /\ db' = db /\ aborted' = aborted
  <2>1. ASSUME o \notin aborted' PROVE (\A n \in DOMAIN frames' : frames'[n].name = Begin <=> n = 1) /\ (HasBegun' => Aligned')
    <3>1. Sound(o)
      BY <1>6, <1>11, <2>1 DEF Owned
    <3>2. ASSUME HasBegun' PROVE Aligned'
      <4>1. Aligned
        BY <1>8, <3>1, <3>2 DEF Sound
      <4>2. Depth' = Depth
        BY <1>5, <1>8, <1>11, <3>2 DEF Depth, TopIsOff, Top
      <4>3. \A x : RowsAt(x)' = RowsAt(x)
        BY <1>1, <1>5, <1>8, <1>11, <3>2, RowsAtSame
      <4> QED BY <1>5, <1>11, <4>1, <4>2, <4>3 DEF Aligned
    <3> QED BY <1>11, <3>1, <3>2 DEF Sound
  <2>2. Rows(frames') \subseteq RowsOf(o)'
    BY <1>5, <1>7, <1>11
  <2>3. Owned(o)'
    BY <1>5, <1>8, <2>1, <2>2, AloneOwned
  <2>4. ASSUME NEW s \in Scopes \ aborted' PROVE WrittenInv(s)'
    BY <1>1, <1>2, <1>11, <2>4, ControlWritten
  <2> QED BY <1>5, <2>3, <2>4
<1>12. CASE a = "failed" /\ frames' = <<>> /\ db' = db /\ aborted' = aborted \cup {dbJobs[i].of}
  <2>1. Rows(frames') \subseteq RowsOf(o)' /\ o \in aborted'
    BY <1>7, <1>12, NoRows
  <2>2. Owned(o)'
    BY <1>5, <1>8, <2>1, AloneOwned
  <2> QED BY <1>5, <1>9, <2>1, <2>2
<1> QED BY <1>2, <1>10, <1>11, <1>12

\* The released scope's rows join those of the scope below.
LEMMA ReleasedRows ==
  ASSUME ConnectionInv, stack # <<>>, Len(stack) # 1, phase[Top] = "commit", answer = "none",
         UNCHANGED <<stack, phase, path, result>>, answer' = "ok"
  PROVE  /\ \A m \in 1..(Len(stack) - 2) : RowsAt(m)' = RowsAt(m)
         /\ RowsAt(Len(stack) - 1)' = RowsAt(Len(stack) - 1) \cup RowsAt(Len(stack))
<1>1. PICK l : l = Len(stack)
  OBVIOUS
<1>2. l \in Nat /\ l >= 2 /\ DOMAIN stack = 1..l /\ Top = stack[l] /\ l \in DOMAIN stack /\ \A m \in DOMAIN stack : stack[m] \in Scopes
  <2>1. /\ Len(stack) \in Nat /\ Len(stack) >= 1 /\ DOMAIN stack = 1..Len(stack) /\ Top = stack[Len(stack)]
        /\ Len(stack) \in DOMAIN stack /\ \A m \in DOMAIN stack : stack[m] \in Scopes
    BY TopIs
  <2>2. l \in Nat /\ l >= 1 /\ l # 1
    BY <1>1, <2>1
  <2> QED BY <1>1, <2>1, <2>2
<1>3. \A s : Released(s)' <=> Released(s) \/ s = Top
  BY DEF Released, Top
<1>4. ASSUME NEW w \in Writes
      PROVE  /\ path[w] \in Seq(Scopes) /\ DOMAIN path[w] = 1..Len(path[w]) /\ Len(path[w]) \in Nat
             /\ \A k \in DOMAIN path[w] : path[w][k] = Top => k = l /\ \A n \in 1..l : path[w][n] = stack[n]
  <2>1. path[w] \in Seq(Scopes)
    BY DEF ConnectionInv, TypeOK
  <2>2. PathInv(w)
    BY DEF ConnectionInv
  <2>3. ASSUME NEW k \in DOMAIN path[w], path[w][k] = Top PROVE k = l /\ \A n \in 1..l : path[w][n] = stack[n]
    <3>1. path[w][k] = stack[l]
      BY <1>2, <2>3
    <3>2. k = l /\ \A n \in 1..k : path[w][n] = stack[n]
      BY <1>2, <2>2, <3>1 DEF PathInv
    <3> QED BY <3>2
  <2> QED BY <2>1, <2>3
<1>5. ASSUME NEW w, NEW m
      PROVE  w \in RowsAt(m)' <=> /\ w \in Writes /\ result[w] = "ok" /\ m <= Len(path[w]) /\ path[w][m] = stack[m]
                                  /\ \A k \in (m + 1)..Len(path[w]) : Released(path[w][k]) \/ path[w][k] = Top
  BY <1>3 DEF RowsAt, Released, Top
<1>6. ASSUME NEW w, NEW m
      PROVE  w \in RowsAt(m) <=> /\ w \in Writes /\ result[w] = "ok" /\ m <= Len(path[w]) /\ path[w][m] = stack[m]
                                 /\ \A k \in (m + 1)..Len(path[w]) : Released(path[w][k])
  BY DEF RowsAt
<1>7. ASSUME NEW m \in 1..(l - 2), NEW w PROVE w \in RowsAt(m)' <=> w \in RowsAt(m)
  <2>1. ASSUME w \in RowsAt(m)', NEW k \in (m + 1)..Len(path[w]), path[w][k] = Top PROVE FALSE
    <3>1. w \in Writes
      BY <1>5, <2>1
    <3>2. k \in DOMAIN path[w]
      BY <1>4, <2>1, <3>1
    <3>3. k = l /\ \A n \in 1..l : path[w][n] = stack[n]
      BY <1>4, <2>1, <3>1, <3>2
    <3>4. l - 1 \in 1..l /\ l - 1 \in (m + 1)..Len(path[w]) /\ l - 1 # l
      BY <1>2, <1>4, <2>1, <3>1, <3>3
    <3>5. phase[stack[l - 1]] = "body" /\ stack[l - 1] # Top
      BY <1>1, <1>2, <3>4 DEF ConnectionInv, StackInv
    <3>6. Released(stack[l - 1]) \/ stack[l - 1] = Top
      BY <1>5, <2>1, <3>3, <3>4
    <3> QED BY <3>5, <3>6 DEF Released
  <2> QED BY <1>5, <1>6, <2>1
<1>8. ASSUME NEW w PROVE w \in RowsAt(l - 1)' <=> w \in RowsAt(l - 1) \cup RowsAt(l)
  <2>1. ASSUME w \in RowsAt(l - 1)', w \notin RowsAt(l - 1) PROVE w \in RowsAt(l)
    <3>1. w \in Writes /\ result[w] = "ok"
      BY <1>5, <2>1
    <3>2. PICK k \in (l - 1 + 1)..Len(path[w]) : path[w][k] = Top
      BY <1>5, <1>6, <2>1
    <3>3. k \in DOMAIN path[w]
      BY <1>2, <1>4, <3>1, <3>2
    <3>4. k = l /\ path[w][l] = stack[l]
      BY <1>2, <1>4, <3>1, <3>2, <3>3
    <3>5. ASSUME NEW x \in (l + 1)..Len(path[w]) PROVE Released(path[w][x])
      <4>1. x \in DOMAIN path[w] /\ x # l /\ x \in (l - 1 + 1)..Len(path[w])
        BY <1>2, <1>4, <3>1, <3>5
      <4> QED BY <1>4, <1>5, <2>1, <3>1, <4>1
    <3>6. l <= Len(path[w])
      BY <1>4, <3>1, <3>3, <3>4
    <3> QED BY <1>6, <3>1, <3>4, <3>5, <3>6
  <2>2. ASSUME w \in RowsAt(l) PROVE w \in RowsAt(l - 1)'
    <3>1. w \in Writes /\ result[w] = "ok" /\ l <= Len(path[w]) /\ path[w][l] = stack[l]
      BY <1>6, <2>2
    <3>2. l \in DOMAIN path[w]
      BY <1>2, <1>4, <3>1
    <3>3. path[w][l - 1] = stack[l - 1]
      <4>1. l - 1 \in 1..l
        BY <1>2
      <4> QED BY <1>2, <1>4, <3>1, <3>2, <4>1
    <3>4. l - 1 <= Len(path[w])
      BY <1>2, <1>4, <3>1
    <3>5. ASSUME NEW x \in (l - 1 + 1)..Len(path[w]) PROVE Released(path[w][x]) \/ path[w][x] = Top
      <4>1. x = l \/ x \in (l + 1)..Len(path[w])
        BY <1>2, <1>4, <3>1, <3>5
      <4> QED BY <1>2, <1>6, <2>2, <3>1, <4>1
    <3> QED BY <1>5, <3>1, <3>3, <3>4, <3>5
  <2>3. ASSUME w \in RowsAt(l - 1) PROVE w \in RowsAt(l - 1)'
    BY <1>5, <1>6, <2>3
  <2> QED BY <2>1, <2>2, <2>3
<1>9. \A m \in 1..(l - 2) : RowsAt(m)' = RowsAt(m)
  <2>1. \A m : RowsAt(m) \subseteq Writes /\ RowsAt(m)' \subseteq Writes
    BY DEF RowsAt
  <2> QED BY <1>7, <2>1
<1>10. RowsAt(l - 1)' = RowsAt(l - 1) \cup RowsAt(l)
  BY <1>8
<1> QED BY <1>1, <1>9, <1>10


\* RELEASE of the top scope's savepoint.
LEMMA ReleaseAligned ==
  ASSUME ConnectionInv, stack # <<>>, Len(stack) # 1, phase[Top] = "commit", answer = "none", answer' = "ok",
         UNCHANGED <<stack, phase, path, result, name>>, Aligned, Len(frames) = Len(stack), Depth = Len(stack),
         frames' = Merge(frames, Len(frames))
  PROVE  Aligned'
<1>1. PICK l : l = Len(stack)
  OBVIOUS
<1>2. l \in Nat /\ l >= 2
  <2>1. Len(stack) \in Nat /\ Len(stack) >= 1
    BY TopIs
  <2>2. l \in Nat /\ l >= 1 /\ l # 1
    BY <1>1, <2>1
  <2> QED BY <2>2
<1>3. frames \in Seq(Frames) /\ Len(frames) = l /\ l \in DOMAIN frames /\ l > 1
  BY <1>1, <1>2, FramesTyped
<1>4. /\ Len(frames') = l - 1
      /\ \A x \in 1..(l - 1) : frames'[x].name = frames[x].name
      /\ \A x \in 1..(l - 2) : frames'[x].rows = frames[x].rows
      /\ frames'[l - 1].rows = frames[l - 1].rows \cup Rows(SubSeq(frames, l, l))
  BY <1>3, MergeIs
<1>5. Rows(SubSeq(frames, l, l)) = frames[l].rows
  <2> DEFINE gs == SubSeq(frames, l, l)
  <2>1. DOMAIN gs = {1} /\ gs[1] = frames[l]
    BY <1>2, <1>3
  <2> HIDE DEF gs
  <2>2. Rows(gs) = frames[l].rows
    BY <2>1 DEF Rows
  <2> QED BY <2>2 DEF gs
<1>6. \A x \in 1..l : frames[x].name = name[stack[x]] /\ frames[x].rows = RowsAt(x)
  BY <1>1 DEF Aligned
<1>7. \A x \in 1..(l - 2) : RowsAt(x)' = RowsAt(x)
  BY <1>1, ReleasedRows
<1>8. RowsAt(l - 1)' = RowsAt(l - 1) \cup RowsAt(l)
  <2>1. RowsAt(Len(stack) - 1)' = RowsAt(Len(stack) - 1) \cup RowsAt(Len(stack))
    BY ReleasedRows
  <2>2. RowsAt(Len(stack) - 1)' = RowsAt(l - 1)'
    BY <1>1
  <2> QED BY <1>1, <2>1, <2>2
<1>9. Depth' = l - 1
  BY <1>1 DEF Depth, TopIsOff, Top
<1>10. /\ \A x \in 1..(l - 1) : x \in 1..l /\ (x = l - 1 \/ x \in 1..(l - 2))
       /\ l \in 1..l /\ l - 1 \in 1..l
  BY <1>2
<1>11. ASSUME NEW x \in 1..(l - 1) PROVE frames'[x].name = name'[stack'[x]] /\ frames'[x].rows = RowsAt(x)'
  <2>1. frames'[x].name = name'[stack'[x]]
    BY <1>4, <1>6, <1>10
  <2>2. CASE x = l - 1
    BY <1>4, <1>5, <1>6, <1>8, <1>10, <2>1, <2>2
  <2>3. CASE x \in 1..(l - 2)
    BY <1>4, <1>6, <1>7, <1>10, <2>1, <2>3
  <2> QED BY <1>10, <2>2, <2>3
<1> QED BY <1>4, <1>9, <1>11 DEF Aligned

LEMMA RunReleaseOrder ==
  ASSUME RowsInv, NEW i \in DOMAIN dbJobs, RunRelease(i), ConnectionInv'
  PROVE  OrderInv' /\ LandedInv'
<1> DEFINE n == name[dbJobs[i].of]
           k == Innermost(frames, n)
<1>1. /\ dbJobs[i].kind = "commit" /\ n # Begin /\ Leave(i) /\ UNCHANGED handlerVars
      /\ UNCHANGED <<result, path, aborted>>
      /\ \/ Named(frames, n) # {} /\ k > 1 /\ frames' = Merge(frames, k) /\ db' = db /\ Reply(dbJobs[i], "ok")
         \/ Named(frames, n) # {} /\ k = 1 /\ frames' = <<>> /\ db' = db \cup Rows(frames) /\ Reply(dbJobs[i], "ok")
         \/ (Named(frames, n) # {} => k = 1) /\ frames' = frames /\ db' = db /\ Reply(dbJobs[i], "failed")
  BY DEF RunRelease, sqliteVars
<1>2. ConnectionInv /\ frames \in Seq(Frames) /\ DOMAIN frames = 1..Len(frames) /\ Len(frames) \in Nat
  BY FramesTyped DEF RowsInv
<1>3. Named(frames, n) # {} => k \in DOMAIN frames /\ frames[k].name = n
  BY <1>2, InnermostIs
<1> HIDE DEF n, k
<1>4. PICK a \in {"ok", "failed"} :
        /\ Reply(dbJobs[i], a)
        /\ \/ a = "ok" /\ Named(frames, n) # {} /\ k > 1 /\ frames' = Merge(frames, k) /\ db' = db
           \/ a = "ok" /\ Named(frames, n) # {} /\ k = 1 /\ frames' = <<>> /\ db' = db \cup Rows(frames)
           \/ a = "failed" /\ (Named(frames, n) # {} => k = 1) /\ frames' = frames /\ db' = db
  BY <1>1
<1>5. Rows(frames') \subseteq Rows(frames)
  <2>1. Named(frames, n) # {} /\ k > 1 => Rows(Merge(frames, k)) \subseteq Rows(frames)
    BY <1>2, <1>3, MergeRows
  <2> QED BY <1>4, <2>1, NoRows
<1>6. LandedInv'
  <2>1. db' \cup Rows(frames') \subseteq db \cup Rows(frames)
    BY <1>4, <1>5
  <2> QED BY <1>1, <2>1 DEF RowsInv, LandedInv
<1> SUFFICES ASSUME ~overtaken' PROVE QueueInv' /\ (\E o \in Owners : Owned(o)') /\ \A s \in Scopes \ aborted' : WrittenInv(s)'
  BY <1>6 DEF OrderInv, Owners
<1>7. /\ UNCHANGED <<stack, phase, name>> /\ (\E o \in Owners : Owned(o)) /\ \A x \in DOMAIN dbJobs' : dbJobs'[x].outer
      /\ QueueInv' /\ \A s : RowsOf(s)' = RowsOf(s)
      /\ ~dbJobs[i].live => ~HasBegun'
      /\ dbJobs[i].live => answer = "none" /\ answer' = a /\ stack # <<>> /\ dbJobs[i].of = Top /\ Serves("commit", phase[Top])
  BY <1>1, <1>4, ControlRuns
<1>8. PICK o \in Owners : Owned(o)
  BY <1>7
<1>9. ASSUME HasBegun'
      PROVE  /\ phase[Top] = "commit" /\ HasBegun /\ stack'[1] = o /\ stack # <<>>
             /\ answer = "none" /\ answer' = a /\ n = name[Top] /\ Len(stack) # 1
  <2>1. dbJobs[i].live /\ phase[Top] = "commit"
    BY <1>7, <1>9 DEF Serves
  <2>2. HasBegun /\ stack # <<>>
    BY <1>7, <2>1 DEF HasBegun
  <2>3. Len(stack) # 1
    BY <1>1, <1>2, <2>1, ControlScope DEF n
  <2> QED BY <1>7, <1>8, <2>1, <2>2, <2>3 DEF Owned, Mine, n
<1>10. ASSUME o \notin aborted
       PROVE  /\ db' = db
              /\ \/ a = "ok" /\ Named(frames, n) # {} /\ k > 1 /\ frames' = Merge(frames, k)
                 \/ a = "failed" /\ (Named(frames, n) # {} => k = 1) /\ frames' = frames
  <2>1. Sound(o)
    BY <1>8, <1>10 DEF Owned
  <2>2. ASSUME Named(frames, n) # {}, k = 1 PROVE FALSE
    BY <1>1, <1>3, <2>1, <2>2 DEF Sound
  <2> QED BY <1>4, <2>2
<1>11. ASSUME o \notin aborted', NEW x \in DOMAIN frames' PROVE frames'[x].name = Begin <=> x = 1
  <2>1. Sound(o)
    BY <1>1, <1>8, <1>11 DEF Owned
  <2>2. CASE frames' = frames
    BY <1>11, <2>1, <2>2 DEF Sound
  <2>3. CASE Named(frames, n) # {} /\ k > 1 /\ frames' = Merge(frames, k)
    <3>1. /\ Merge(frames, k) \in Seq(Frames) /\ Len(Merge(frames, k)) = k - 1
          /\ \A m \in 1..(k - 1) : Merge(frames, k)[m].name = frames[m].name
      BY <1>2, <1>3, <2>3, MergeIs
    <3>2. x \in 1..(k - 1)
      BY <1>11, <2>3, <3>1
    <3>3. x \in DOMAIN frames
      BY <1>2, <1>3, <2>3, <3>2
    <3> QED BY <2>1, <2>3, <3>1, <3>2, <3>3 DEF Sound
  <2> QED BY <1>1, <1>10, <1>11, <2>2, <2>3
<1>12. ASSUME o \notin aborted', HasBegun' PROVE Aligned'
  <2>1. Aligned /\ ~TopIsOff
    BY <1>1, <1>8, <1>9, <1>12 DEF Owned, Sound, TopIsOff
  <2>2. Len(frames) = Len(stack) /\ Depth = Len(stack) /\ Named(frames, n) # {} /\ k = Len(frames)
    BY <1>2, <1>9, <1>12, <2>1, TopFrame DEF k
  <2>3. k # 1
    BY <1>9, <1>12, <2>2
  <2>4. a = "ok" /\ frames' = Merge(frames, Len(frames))
    BY <1>1, <1>10, <1>12, <2>2, <2>3
  <2> QED BY <1>1, <1>2, <1>7, <1>9, <1>12, <2>1, <2>2, <2>4, ReleaseAligned
<1>13. Rows(frames') \subseteq RowsOf(o)' /\ Rows(frames) \subseteq RowsOf(o)
  BY <1>5, <1>7, <1>8 DEF Owned, Mine
<1>14. Owned(o)'
  BY <1>7, <1>9, <1>11, <1>12, <1>13, AloneOwned
<1>15. ASSUME NEW s \in Scopes \ aborted' PROVE WrittenInv(s)'
  <2>1. CASE name[s] # Begin
    BY <1>7, <1>15, <2>1, InnerWritten
  <2>2. CASE name[s] = Begin
    <3>1. s \in Scopes \ aborted /\ s # dbJobs[i].of
      BY <1>1, <1>15, <2>2 DEF n
    <3>2. RowsOf(s) \cap db' = RowsOf(s) \cap db
      <4>1. CASE s = o
        BY <1>10, <3>1, <4>1
      <4>2. CASE s # o
        <5>1. RowsOf(s) \cap RowsOf(o) = {}
          BY <4>2, RowsApart
        <5> QED BY <1>4, <1>13, <5>1
      <4> QED BY <4>1, <4>2
    <3> QED BY <1>1, <1>4, <3>1, <3>2, ControlWritten
  <2> QED BY <2>1, <2>2
<1> QED BY <1>7, <1>14, <1>15


-----------------------------------------------------------------------------
(* The rows: every step *)

LEMMA RowsInitial == Init => RowsInv
<1> SUFFICES ASSUME Init PROVE RowsInv
  OBVIOUS
<1>1. /\ stack = <<>> /\ dbJobs = <<>> /\ frames = <<>> /\ db = {} /\ phase = [s \in Scopes |-> "unused"]
  BY DEF Init
<1>2. ConnectionInv /\ DOMAIN <<>> = {} /\ ~HasBegun /\ Rows(frames) = {}
  BY <1>1, ConnectionInitial, NoRows DEF HasBegun
<1>3. LandedInv
  BY <1>1, <1>2 DEF LandedInv
<1>4. QueueInv
  BY <1>1, <1>2 DEF QueueInv
<1>5. Owned("nobody") /\ "nobody" \in Owners
  BY <1>1, <1>2 DEF Owned, Mine, Sound, Owners
<1>6. \A s \in Scopes : WrittenInv(s)
  BY <1>1 DEF WrittenInv
<1> QED BY <1>2, <1>3, <1>4, <1>5, <1>6 DEF RowsInv, OrderInv

\* The steps of the handler that issue no statement.
LEMMA HandlerLands ==
  ASSUME RowsInv, UNCHANGED <<frames, db, result>>
  PROVE  LandedInv'
BY DEF RowsInv, LandedInv

LEMMA StutterOrder ==
  ASSUME RowsInv, UNCHANGED <<stack, phase, name, answer, dbJobs, frames, db, result, path, overtaken, aborted>>
  PROVE  OrderInv'
<1>1. UNCHANGED <<stack, phase, name, answer, dbJobs, frames, db, result, path, overtaken, aborted>>
  OBVIOUS
<1>2. ConnectionInv /\ dbJobs \in Seq(JobRecords)
  BY JobTypes DEF RowsInv
<1>3. HasBegun' = HasBegun /\ Depth' = Depth /\ \A s : Released(s)' = Released(s)
  BY <1>1 DEF HasBegun, Depth, TopIsOff, Released, Top
<1>4. SameView /\ SameRows
  BY <1>1, <1>3 DEF SameView, SameRows
<1>5. \A s : Kept(s)' = Kept(s)
  BY <1>1 DEF Kept, RowsOf
<1>6. PICK f : Echo(f)
  BY <1>1, <1>2, SameEcho
<1> SUFFICES ASSUME ~overtaken' PROVE QueueInv' /\ (\E o \in Owners : Owned(o)') /\ \A s \in Scopes \ aborted' : WrittenInv(s)'
  BY DEF OrderInv, Owners
<1>7. QueueInv /\ (\E o \in Owners : Owned(o)) /\ \A s \in Scopes \ aborted : WrittenInv(s)
  BY <1>1 DEF RowsInv, OrderInv
<1>8. PICK o \in Owners : Owned(o)
  BY <1>7
<1>9. HasBegun' => \A k \in DOMAIN dbJobs' : dbJobs'[k].kind # "statement" => dbJobs'[k].live
  BY <1>1, <1>3, <1>7 DEF QueueInv
<1>10. QueueInv' /\ Owned(o)'
  BY <1>1, <1>2, <1>4, <1>5, <1>6, <1>7, <1>8, <1>9, EchoOwned
<1>11. ASSUME NEW s \in Scopes \ aborted' PROVE WrittenInv(s)'
  BY <1>1, <1>5, <1>6, <1>7, <1>11, EchoWritten
<1> QED BY <1>10, <1>11

LEMMA RowsInductive == RowsInv /\ [Next]_vars => RowsInv'
<1> SUFFICES ASSUME RowsInv, [Next]_vars PROVE RowsInv'
  OBVIOUS
<1>1. ConnectionInv'
  BY ConnectionInductive DEF RowsInv
<1> SUFFICES OrderInv' /\ LandedInv'
  BY <1>1 DEF RowsInv
<1>2. CASE RunJob
  BY <1>1, <1>2, RunStatementOrder, RunBeginOrder, RunCommitOrder, RunReleaseOrder, RunRollbackOrder,
     RunRollbackToOrder DEF RunJob
<1>3. CASE \E b \in Batches : OuterStatements(b) \/ InnerStatements(b)
  BY <1>3, StatementsOrder
<1>4. CASE Deliver \/ Cut \/ HangUp
  <2>1. UNCHANGED <<frames, db, result>>
    BY <1>4 DEF Deliver, Cut, HangUp, Abandon, sqliteVars
  <2> QED BY <1>4, <2>1, DeliverOrder, CutOrder, HandlerLands
<1>5. CASE (\E s \in Scopes : Transaction(s)) \/ (\E tx, s \in Scopes : Savepoint(tx, s))
  <2>1. UNCHANGED <<frames, db, result>>
    BY <1>5 DEF Transaction, Savepoint, Enter, sqliteVars
  <2> QED BY <1>5, <2>1, ScopeOrder, HandlerLands
<1>6. CASE Begun \/ NotBegun \/ Committed \/ RolledBack
  <2>1. UNCHANGED <<frames, db, result>>
    BY <1>6 DEF Begun, NotBegun, Committed, RolledBack, sqliteVars
  <2> QED BY <1>1, <1>6, <2>1, BegunOrder, EndsOrder, HandlerLands
<1>7. CASE BodyReturns \/ BodyRaises \/ CommitFails
  <2>1. UNCHANGED <<frames, db, result>>
    BY <1>7 DEF BodyReturns, BodyRaises, CommitFails, Control, sqliteVars
  <2> QED BY <1>7, <2>1, GoesOnOrder, HandlerLands
<1>8. CASE Collect \/ UNCHANGED vars
  <2>1. UNCHANGED <<stack, phase, name, answer, dbJobs, frames, db, result, path, overtaken, aborted>>
    BY <1>8 DEF vars, Collect, sqliteVars, historyVars
  <2> QED BY <2>1, StutterOrder, HandlerLands
<1> QED BY <1>2, <1>3, <1>4, <1>5, <1>6, <1>7, <1>8 DEF Next

LEMMA RowsInvHolds == Spec => []RowsInv
BY RowsInitial, RowsInductive, PTL DEF Spec

\* A statement of the outer handle that succeeded is committed and stays so, whatever was
\* left open before it (run_blocking).  A transaction that committed has exactly the rows
\* of its scopes that were not rolled back, one that reported an error has none, and one
\* that was cut has all or none, for any nesting and any batches: unless SQLite ended it,
\* and as long as no job overtakes one that nobody awaits (run_transaction).
THEOREM TransactionsAreAllOrNothing == Spec => []RowsAreRight
<1>1. RowsInv => RowsAreRight
  <2> SUFFICES ASSUME RowsInv PROVE RowsAreRight
    OBVIOUS
  <2>1. OuterStandsAlone
    BY DEF RowsInv, ConnectionInv
  <2>2. ASSUME ~overtaken, NEW s \in Scopes \ aborted
        PROVE  /\ phase[s] = "committed" => RowsOf(s) \cap db = Kept(s)
               /\ phase[s] \in {"rolledback", "failed"} => RowsOf(s) \cap db = {}
               /\ phase[s] = "cut" => RowsOf(s) \cap db \in {{}, Kept(s)}
    <3>1. WrittenInv(s)
      BY <2>2 DEF RowsInv, OrderInv
    <3> QED BY <3>1 DEF WrittenInv
  <2>3. AllOrNothing
    BY <2>2 DEF AllOrNothing
  <2> QED BY <2>1, <2>3 DEF RowsAreRight
<1> QED BY <1>1, RowsInvHolds, PTL

=============================================================================
