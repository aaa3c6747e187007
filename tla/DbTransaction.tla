--------------------------- MODULE DbTransaction ----------------------------
(***************************************************************************)
(* The `nitr.db` builtin of crates/nitr-std/src/db/mod.rs: statements and  *)
(* transactions over the one SQLite connection a Lua state owns.           *)
(*                                                                         *)
(* Every statement is a job on the blocking pool that locks the            *)
(* connection, runs and answers the future that spawned it.  Dropping that *)
(* future (the handler's timeout, or a failed `await_all`) does not drop   *)
(* the job: it runs later, and nobody hears its answer.  Jobs are kept in  *)
(* the order they were spawned; threads and the lock decide the order they *)
(* run in.  A timeout closes the handler's coroutine and collects, so that *)
(* its guards are dropped there; a client that hangs up leaves them on the *)
(* suspended coroutine until Lua collects it.                              *)
(*                                                                         *)
(* A statement is a write of its own row, so that the rows tell what was   *)
(* committed; reads change nothing.  A scope is one call of                *)
(* db:transaction(fn) or tx:transaction(fn).  The handlers that use the    *)
(* state run one after the other; the next one starts when nothing is on   *)
(* the stack and nothing is awaited.  A handler uses the handles of its    *)
(* own scopes: one that a script kept from a handler that hung up is left  *)
(* out.  SQLite itself is external: a stack of frames, the first of them a *)
(* transaction (or a savepoint that started one), the others savepoints;   *)
(* it rolls back what is open without fail.                                *)
(***************************************************************************)
EXTENDS Integers, Sequences, FiniteSets, SequencesExt

CONSTANTS
  Scopes,      \* the calls of `transaction`
  Writes,      \* the statements, each writing one row
  MaxDepth,    \* bound: how deep scopes nest
  MaxBatch,    \* bound: how many queries one await_all runs
  Aborts       \* SQLite may end a transaction on its own (full disk, I/O error,
               \* INSERT OR ROLLBACK)

ASSUME DepthIsPositive == MaxDepth \in Nat \ {0}
ASSUME BatchIsPositive == MaxBatch \in Nat \ {0}
ASSUME AbortsIsBoolean == Aborts \in BOOLEAN

VARIABLES
  flag,        \* in_transaction: a db:transaction call is under way
  alive,       \* scopes whose `tx` handle works
  uncollected, \* scopes of a handler that hung up, whose guards no collection dropped yet
  stack,       \* the scopes the handler is inside of, outermost first
  phase,       \* where each scope is, or how it ended
  savepoints,  \* each scope's counter of the savepoints opened through it
  name,        \* the number in each scope's savepoint name
  awaited,     \* the statements the handler awaits, in order
  answer,      \* the answer of the control statement the top scope awaits
  dbJobs,        \* blocking dbJobs that have not run, in the order of their spawning
  frames,      \* the connection: empty in autocommit mode
  db,          \* the rows committed to the database
  result,      \* what each statement answered
  path,        \* history: the stack each statement was issued under
  overtaken,   \* history: some job ran before an older job nobody awaited
  aborted      \* history: scopes whose transaction SQLite ended on its own

vars == <<flag, alive, uncollected, stack, phase, savepoints, name, awaited, answer, dbJobs,
          frames, db, result, path, overtaken, aborted>>

handlerVars == <<flag, alive, uncollected, stack, phase, savepoints, name, awaited>>
sqliteVars == <<frames, db>>
historyVars == <<path, overtaken, aborted>>

-----------------------------------------------------------------------------
(* SQLite, external. *)

\* The name of the frame BEGIN opens; savepoints are numbered from 0.
Begin == -1

Frame(n) == [name |-> n, rows |-> {}]

Rows(fs) == UNION {fs[i].rows : i \in DOMAIN fs}

Named(fs, n) == {i \in DOMAIN fs : fs[i].name = n}

\* A savepoint's name means the innermost one that bears it.
Innermost(fs, n) == CHOOSE i \in Named(fs, n) : \A k \in Named(fs, n) : k <= i

\* RELEASE: the frame and those above it are merged into the one below.
Merge(fs, i) ==
  Append(SubSeq(fs, 1, i - 2),
         [fs[i - 1] EXCEPT !.rows = @ \cup Rows(SubSeq(fs, i, Len(fs)))])

-----------------------------------------------------------------------------
(* Jobs. *)

\* A job as run_blocking() spawns it, awaited by the future that spawned it.
Job(kind, outer, x) == [kind |-> kind, outer |-> outer, of |-> x, live |-> TRUE]

Spawn(kind, outer, x) == dbJobs' = Append(dbJobs, Job(kind, outer, x))

\* The futures are dropped, the dbJobs are not.
Orphaned(js) == [i \in DOMAIN js |-> [js[i] EXCEPT !.live = FALSE]]

\* The job leaves the queue; an older job nobody awaits may be left behind.
Leave(i) ==
  /\ dbJobs' = RemoveAt(dbJobs, i)
  /\ overtaken' = (overtaken \/ \E k \in 1..(i - 1) : ~dbJobs[k].live)

\* Mutant: a statement of the outer handle joins the transaction it finds.
Entry_joins(j) == frames

\* A job of the outer handle finds a transaction left open, and rolls it back.
Entry(j) == IF j.outer THEN <<>> ELSE frames

\* The answer reaches the future, when there is one.
Reply(j, a) == answer' = IF j.live THEN a ELSE answer

\* A statement runs: in autocommit mode its row is committed at once.
RunStatement(i) ==
  LET j == dbJobs[i]
      fs == Entry(j)
      top == Len(fs)
  IN  /\ j.kind = "statement"
      /\ Leave(i)
      /\ \/ /\ result' = [result EXCEPT ![j.of] = "ok"]
            /\ IF fs = <<>>
                 THEN frames' = <<>> /\ db' = db \cup {j.of}
                 ELSE frames' = [fs EXCEPT ![top].rows = @ \cup {j.of}] /\ UNCHANGED db
            /\ UNCHANGED aborted
         \/ /\ result' = [result EXCEPT ![j.of] = "failed"]
            /\ frames' = fs
            /\ UNCHANGED <<db, aborted>>
         \/ /\ Aborts /\ fs # <<>>
            /\ result' = [result EXCEPT ![j.of] = "failed"]
            /\ frames' = <<>>
            /\ aborted' = aborted \cup ToSet(path[j.of])
            /\ UNCHANGED db
      /\ UNCHANGED <<handlerVars, answer, path>>

\* BEGIN, or SAVEPOINT, which opens a transaction when there is none.
RunBegin(i) ==
  LET j == dbJobs[i]
      fs == Entry(j)
  IN  /\ j.kind = "begin"
      /\ Leave(i)
      /\ \/ frames' = Append(fs, Frame(name[j.of])) /\ Reply(j, "ok")
         \/ frames' = fs /\ Reply(j, "failed")
      /\ UNCHANGED <<handlerVars, db, result, path, aborted>>

\* COMMIT: needs a transaction; one that fails (busy) leaves it open.
RunCommit(i) ==
  LET j == dbJobs[i]
  IN  /\ j.kind = "commit" /\ name[j.of] = Begin
      /\ Leave(i)
      /\ \/ /\ frames # <<>>
            /\ db' = db \cup Rows(frames)
            /\ frames' = <<>>
            /\ Reply(j, "ok")
            /\ UNCHANGED aborted
         \/ UNCHANGED <<sqliteVars, aborted>> /\ Reply(j, "failed")
         \/ /\ Aborts /\ frames # <<>>
            /\ frames' = <<>>
            /\ aborted' = aborted \cup {j.of}
            /\ Reply(j, "failed")
            /\ UNCHANGED db
      /\ UNCHANGED <<handlerVars, result, path>>

\* RELEASE: the savepoint that opened the transaction commits it.
RunRelease(i) ==
  LET j == dbJobs[i]
      n == name[j.of]
      k == Innermost(frames, n)
  IN  /\ j.kind = "commit" /\ n # Begin
      /\ Leave(i)
      /\ \/ /\ Named(frames, n) # {} /\ k > 1
            /\ frames' = Merge(frames, k)
            /\ Reply(j, "ok")
            /\ UNCHANGED db
         \/ /\ Named(frames, n) # {} /\ k = 1
            /\ db' = db \cup Rows(frames)
            /\ frames' = <<>>
            /\ Reply(j, "ok")
         \/ /\ Named(frames, n) # {} => k = 1
            /\ UNCHANGED sqliteVars
            /\ Reply(j, "failed")
      /\ UNCHANGED <<handlerVars, result, path, aborted>>

\* rollback_if_open(): nothing to do in autocommit mode.
RunRollback(i) ==
  LET j == dbJobs[i]
  IN  /\ j.kind = "rollback" /\ name[j.of] = Begin
      /\ Leave(i)
      /\ frames' = <<>>
      /\ Reply(j, "ok")
      /\ UNCHANGED <<handlerVars, db, result, path, aborted>>

\* Mutant: the savepoint is released and not rolled back to.
RunRollbackTo_releases(i) ==
  LET j == dbJobs[i]
      n == name[j.of]
      k == Innermost(frames, n)
  IN  /\ j.kind = "rollback" /\ n # Begin
      /\ Leave(i)
      /\ IF Named(frames, n) = {} \/ k = 1
           THEN UNCHANGED frames /\ Reply(j, "failed")
           ELSE frames' = Merge(frames, k) /\ Reply(j, "ok")
      /\ UNCHANGED <<handlerVars, db, result, path, aborted>>

\* ROLLBACK TO and RELEASE: the savepoint and what is above it are gone.
RunRollbackTo(i) ==
  LET j == dbJobs[i]
      n == name[j.of]
  IN  /\ j.kind = "rollback" /\ n # Begin
      /\ Leave(i)
      /\ IF Named(frames, n) = {}
           THEN UNCHANGED frames /\ Reply(j, "failed")
           ELSE frames' = SubSeq(frames, 1, Innermost(frames, n) - 1) /\ Reply(j, "ok")
      /\ UNCHANGED <<handlerVars, db, result, path, aborted>>

RunJob ==
  \E i \in DOMAIN dbJobs :
    \/ RunStatement(i)
    \/ RunBegin(i)
    \/ RunCommit(i)
    \/ RunRelease(i)
    \/ RunRollback(i)
    \/ RunRollbackTo(i)

-----------------------------------------------------------------------------
(* The handler. *)

Top == Last(stack)

\* Lua runs: outside any scope, or in the body of the innermost one.
InLua ==
  /\ awaited = <<>>
  /\ stack # <<>> => phase[Top] = "body"

\* The statements nobody has issued yet, taken in lists without repetition.
Batches ==
  {b \in UNION {[1..n -> {w \in Writes : result[w] = "unissued"}] : n \in 1..MaxBatch} :
     IsInjective(b)}

\* The dbJobs of a list of statements, all of one origin.
Issue(b, outer) ==
  /\ dbJobs' = dbJobs \o [i \in DOMAIN b |-> Job("statement", outer, b[i])]
  /\ awaited' = b
  /\ result' = [w \in Writes |-> IF w \in ToSet(b) THEN "sent" ELSE result[w]]
  /\ path' = [w \in Writes |-> IF w \in ToSet(b) THEN stack ELSE path[w]]
  /\ UNCHANGED <<flag, alive, uncollected, stack, phase, savepoints, name, answer, sqliteVars,
                 overtaken, aborted>>

\* Statements of the `nitr.db` handle, refused while a transaction is open.
OuterStatements(b) == InLua /\ ~flag /\ Issue(b, TRUE)

\* Statements of a `tx` handle whose scope has not ended.
InnerStatements(b) == InLua /\ alive \ uncollected # {} /\ Issue(b, FALSE)

\* An answer arrives, in order; a failure drops the futures of the others.
Deliver ==
  /\ awaited # <<>>
  /\ result[Head(awaited)] \in {"ok", "failed"}
  /\ IF result[Head(awaited)] = "ok"
       THEN awaited' = Tail(awaited) /\ UNCHANGED dbJobs
       ELSE awaited' = <<>> /\ dbJobs' = Orphaned(dbJobs)
  /\ UNCHANGED <<flag, alive, uncollected, stack, phase, savepoints, name, answer, sqliteVars,
                 result, historyVars>>

\* run_transaction() begins: the scope is entered and its first job spawned.
Enter(s, n, outer) ==
  /\ phase[s] = "unused"
  /\ Len(stack) < MaxDepth
  /\ stack' = Append(stack, s)
  /\ phase' = [phase EXCEPT ![s] = "begin"]
  /\ name' = [name EXCEPT ![s] = n]
  /\ Spawn("begin", outer, s)
  /\ UNCHANGED <<alive, uncollected, awaited, answer, sqliteVars, result, historyVars>>

\* db:transaction(fn): the flag is swapped first, and refuses a second call.
Transaction(s) ==
  /\ InLua /\ ~flag
  /\ flag' = TRUE
  /\ Enter(s, Begin, TRUE)
  /\ UNCHANGED savepoints

\* tx:transaction(fn) on a live scope: a savepoint named by the scope's counter.
Savepoint(tx, s) ==
  /\ InLua /\ tx \in alive \ uncollected
  /\ savepoints' = [savepoints EXCEPT ![tx] = @ + 1]
  /\ Enter(s, savepoints[tx], FALSE)
  /\ UNCHANGED flag

\* The scope ends: ScopeEnd and, around the outermost one, TxGuard are dropped.
Exit(how) ==
  /\ phase' = [phase EXCEPT ![Top] = how]
  /\ alive' = alive \ {Top}
  /\ stack' = Front(stack)
  /\ flag' = (flag /\ Len(stack) > 1)
  /\ UNCHANGED uncollected

\* The answer of the awaited control statement is taken.
Taken(p, as) ==
  /\ stack # <<>> /\ phase[Top] = p /\ answer \in as
  /\ answer' = "none"

Begun ==
  /\ Taken("begin", {"ok"})
  /\ phase' = [phase EXCEPT ![Top] = "body"]
  /\ alive' = alive \cup {Top}
  /\ UNCHANGED <<flag, uncollected, stack, savepoints, name, awaited, dbJobs, sqliteVars, result,
                 historyVars>>

NotBegun ==
  /\ Taken("begin", {"failed"})
  /\ Exit("failed")
  /\ UNCHANGED <<savepoints, name, awaited, dbJobs, sqliteVars, result, historyVars>>

\* The top scope goes on with a control statement of its own.
Control(p, kind) ==
  /\ phase' = [phase EXCEPT ![Top] = p]
  /\ Spawn(kind, FALSE, Top)
  /\ UNCHANGED <<flag, alive, uncollected, stack, savepoints, name, awaited, sqliteVars, result,
                 historyVars>>

BodyReturns == stack # <<>> /\ InLua /\ Control("commit", "commit") /\ UNCHANGED answer

BodyRaises == stack # <<>> /\ InLua /\ Control("rollback", "rollback") /\ UNCHANGED answer

Committed ==
  /\ Taken("commit", {"ok"})
  /\ Exit("committed")
  /\ UNCHANGED <<savepoints, name, awaited, dbJobs, sqliteVars, result, historyVars>>

\* Mutant: a failed COMMIT is reported and its transaction left open.
CommitFails_noRollback ==
  /\ Taken("commit", {"failed"})
  /\ Exit("failed")
  /\ UNCHANGED <<savepoints, name, awaited, dbJobs, sqliteVars, result, historyVars>>

\* A failed COMMIT is rolled back before its error is raised.
CommitFails == Taken("commit", {"failed"}) /\ Control("undo", "rollback")

\* The rollback's own failure is logged, and nothing more.
RolledBack ==
  \/ /\ Taken("rollback", {"ok", "failed"})
     /\ Exit("rolledback")
     /\ UNCHANGED <<savepoints, name, awaited, dbJobs, sqliteVars, result, historyVars>>
  \/ /\ Taken("undo", {"ok", "failed"})
     /\ Exit("failed")
     /\ UNCHANGED <<savepoints, name, awaited, dbJobs, sqliteVars, result, historyVars>>

\* The handler ends at an await: nobody hears the jobs it spawned.
Abandon ==
  /\ stack # <<>> \/ awaited # <<>>
  /\ phase' = [s \in Scopes |-> IF s \in ToSet(stack) THEN "cut" ELSE phase[s]]
  /\ stack' = <<>>
  /\ awaited' = <<>>
  /\ answer' = "none"
  /\ dbJobs' = Orphaned(dbJobs)
  /\ UNCHANGED <<savepoints, name, sqliteVars, result, historyVars>>

\* Mutant: the flag is cleared by a store after the body, which a cut never reaches.
Cut_keepsFlag ==
  /\ Abandon
  /\ alive' = alive \ ToSet(stack)
  /\ UNCHANGED <<flag, uncollected>>

\* The handler's timeout: its coroutine is closed and collected, and with it
\* every TxGuard and ScopeEnd.
Cut ==
  /\ Abandon
  /\ flag' = FALSE
  /\ alive' = alive \ ToSet(stack)
  /\ UNCHANGED uncollected

\* The client hangs up: the coroutine stays as it is, and the guards on it.
HangUp ==
  /\ Abandon
  /\ uncollected' = ToSet(stack)
  /\ UNCHANGED <<flag, alive>>

\* Lua gets round to that coroutine and drops what is on it.
Collect ==
  /\ uncollected # {}
  /\ flag' = FALSE
  /\ alive' = alive \ uncollected
  /\ uncollected' = {}
  /\ UNCHANGED <<stack, phase, savepoints, name, awaited, answer, dbJobs, sqliteVars, result, historyVars>>

-----------------------------------------------------------------------------
Init ==
  /\ flag = FALSE
  /\ alive = {}
  /\ uncollected = {}
  /\ stack = <<>>
  /\ phase = [s \in Scopes |-> "unused"]
  /\ savepoints = [s \in Scopes |-> 0]
  /\ name = [s \in Scopes |-> Begin]
  /\ awaited = <<>>
  /\ answer = "none"
  /\ dbJobs = <<>>
  /\ frames = <<>>
  /\ db = {}
  /\ result = [w \in Writes |-> "unissued"]
  /\ path = [w \in Writes |-> <<>>]
  /\ overtaken = FALSE
  /\ aborted = {}

Next ==
  \/ RunJob
  \/ \E b \in Batches : OuterStatements(b) \/ InnerStatements(b)
  \/ Deliver
  \/ \E s \in Scopes : Transaction(s)
  \/ \E tx, s \in Scopes : Savepoint(tx, s)
  \/ Begun
  \/ NotBegun
  \/ BodyReturns
  \/ BodyRaises
  \/ Committed
  \/ CommitFails
  \/ RolledBack
  \/ Cut
  \/ HangUp
  \/ Collect

Spec == Init /\ [][Next]_vars

-----------------------------------------------------------------------------
(* Properties. *)

Phases == {"unused", "begin", "body", "commit", "rollback", "undo",
           "committed", "rolledback", "failed", "cut"}

TypeOK ==
  /\ flag \in BOOLEAN
  /\ alive \subseteq Scopes /\ uncollected \subseteq Scopes
  /\ stack \in Seq(Scopes) /\ Len(stack) <= MaxDepth
  /\ \A i \in DOMAIN stack : name[stack[i]] = Begin <=> i = 1
  /\ phase \in [Scopes -> Phases]
  /\ savepoints \in [Scopes -> Nat]
  /\ name \in [Scopes -> Nat \cup {Begin}]
  /\ awaited \in Seq(Writes) /\ Len(awaited) <= MaxBatch
  /\ answer \in {"none", "ok", "failed"}
  /\ dbJobs \in Seq([kind : {"statement", "begin", "commit", "rollback"},
                   outer : BOOLEAN, of : Writes \cup Scopes, live : BOOLEAN])
  /\ frames \in Seq([name : Nat \cup {Begin}, rows : SUBSET Writes])
  /\ db \subseteq Writes
  /\ result \in [Writes -> {"unissued", "sent", "ok", "failed"}]
  /\ path \in [Writes -> Seq(Scopes)]
  /\ overtaken \in BOOLEAN
  /\ aborted \subseteq Scopes

\* Between handlers the connection can be used again: however the last one ended, its
\* timeout included, no flag refuses the next statement and no stashed `tx` works
\* (TxGuard, ScopeEnd).  After a client hung up that is so once its coroutine was
\* collected; until then it is that handler's flag, and no handles but its own work.
NeverBricked ==
  stack = <<>> =>
    /\ flag => uncollected # {}
    /\ alive \subseteq uncollected

\* A transaction that ends by itself leaves the connection in autocommit mode, the one
\* whose COMMIT failed included and in whatever order jobs ran: only a cut leaves a
\* transaction open for the next handler (run_transaction).
EndsInAutocommit ==
  stack = <<>> /\ frames # <<>> => \E s \in Scopes : phase[s] = "cut"

\* Whatever was cut or failed, the connection serves the next handler, at the latest
\* once Lua has collected what a hang-up left.
ConnectionIsUsable == NeverBricked /\ EndsInAutocommit

\* A statement of the outer handle that succeeded is committed, and stays so: it never
\* joins a transaction an earlier handler left open (run_blocking).
OuterStandsAlone == \A w \in Writes : result[w] = "ok" /\ path[w] = <<>> => w \in db

\* The rows of a transaction.
RowsOf(s) == {w \in Writes : path[w] # <<>> /\ path[w][1] = s}

\* The rows that a transaction keeps: those of no inner scope that was rolled back.
Kept(s) ==
  {w \in RowsOf(s) :
     result[w] = "ok" /\ \A i \in 2..Len(path[w]) : phase[path[w][i]] = "committed"}

\* A transaction that committed has all its rows in the database, one that reported an
\* error has none, and one that was cut has all or none: unless SQLite ended it on its
\* own, and as long as no job overtakes an older one that nobody awaits.
AllOrNothing ==
  ~overtaken =>
    \A s \in Scopes \ aborted :
      /\ phase[s] = "committed" /\ name[s] = Begin => RowsOf(s) \cap db = Kept(s)
      /\ phase[s] \in {"rolledback", "failed"} => RowsOf(s) \cap db = {}
      /\ phase[s] = "cut" => RowsOf(s) \cap db \in {{}, Kept(s)}

\* The rows that stay are those of what succeeded.
RowsAreRight == OuterStandsAlone /\ AllOrNothing

\* "a transaction never interleaves with other statements": while a body runs, the
\* connection is in its transaction and holds no row of another.
NeverInterleaves ==
  \A s \in alive :
    phase[s] = "body" /\ name[s] = Begin =>
      frames # <<>> /\ Rows(frames) \subseteq RowsOf(s)

\* "commits when the function returns, rolls back (and re-raises) when it errors": a
\* transaction that raised left nothing, when dbJobs run in order.
RollsBackWhenItErrors ==
  ~overtaken =>
    \A s \in Scopes : phase[s] \in {"rolledback", "failed"} => RowsOf(s) \cap db = {}

=============================================================================
