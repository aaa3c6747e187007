----------------------------- MODULE TestRunner -----------------------------
(***************************************************************************)
(* `nitr test`: crates/nitr-cli/src/cmd/test/mod.rs runs the files one     *)
(* after another, test_framework.lua plans the tests of a file and calls   *)
(* each with its hooks.  Tests share with the server under test the cache, *)
(* the clock, the doubles and the database; the runner puts these back     *)
(* between them.  A script is what a hook, a body or a file's top level    *)
(* does, step by step; it may raise, run out of its budget, or leave the   *)
(* Lua state unusable.                                                     *)
(***************************************************************************)
EXTENDS Naturals, Sequences, SequencesExt, FiniteSets

CONSTANTS
  TestFiles,       \* the files in their order, each the sequence of its tests
  MaxDeeds         \* bound: what the scripts of one file do

\* A test's groups are named from the outermost in, and a group has one parent.
ASSUME SuitesAreTrees ==
  /\ TestFiles \in Seq(Seq([kind : STRING, broken : BOOLEAN, matches : BOOLEAN, groups : Seq(STRING)]))
  /\ \A f \in DOMAIN TestFiles : \A i, j \in DOMAIN TestFiles[f] :
       LET p == TestFiles[f][i].groups
           q == TestFiles[f][j].groups
       IN  \A k \in DOMAIN p, m \in DOMAIN q : p[k] = q[m] => k = m /\ \A n \in 1..k : p[n] = q[n]
  /\ MaxDeeds \in Nat

VARIABLES
  run,             \* run_file(): where the run is
  world,           \* what the tests share
  groups,          \* the groups of the file: which began, which failed
  verdicts,        \* the report of the file
  history          \* what the scripts of the file did

testVars == <<run, world, groups, verdicts, history>>

Modes == {"all", "bail", "list"}
ScriptSteps == {"top", "before_all", "before", "body", "after", "after_all"}

Tests == IF run.file \in DOMAIN TestFiles THEN TestFiles[run.file] ELSE <<>>
Current == Tests[run.at]

-----------------------------------------------------------------------------
(* What the tests share *)

Pristine == [moved |-> FALSE, touched |-> FALSE, doubles |-> FALSE, cache |-> {},
             db |-> "snapshot", locked |-> FALSE, job |-> FALSE]

\* fresh(): before the file's top level and before every test.
Freshened(w) == [w EXCEPT !.moved = FALSE, !.doubles = FALSE]

\* Mutant: what was cached under a moved clock stays.
Settled_kept(w) == [w EXCEPT !.moved = FALSE, !.touched = FALSE]

\* After a test: clock::reset(), and take_touched() decides over the cache.
Settled(w) == [w EXCEPT !.moved = FALSE, !.touched = FALSE, !.cache = IF w.touched THEN {} ELSE @]

\* finish_file()
FileFinished(w) == [w EXCEPT !.moved = FALSE, !.doubles = FALSE, !.cache = {}]

\* db_fixtures::restore(): a lock held past busy_timeout is an error.
Restorable(w) == ~w.locked
Restored(w) == IF Restorable(w) THEN [w EXCEPT !.db = "snapshot"] ELSE w

\* What a script does to it.  "hold" is a request whose handler ran out of time in
\* a transaction; the next statement of that Lua state, a "write", rolls it back.
Deeds == {"clock", "double", "cache", "write", "hold", "reset"}
Did(w, deed) ==
  CASE deed = "clock" -> [w EXCEPT !.moved = TRUE, !.touched = TRUE]
    [] deed = "double" -> [w EXCEPT !.doubles = TRUE]
    [] deed = "cache" -> [w EXCEPT !.cache = @ \cup {IF w.moved THEN "moved" ELSE "real"}]
    [] deed = "write" -> [w EXCEPT !.db = "changed", !.locked = FALSE]
    [] deed = "hold" -> [w EXCEPT !.locked = TRUE]
    [] deed = "reset" -> Restored(w)

-----------------------------------------------------------------------------
(* The plan of a file: t._plan() *)

\* A test is broken when the body of an enclosing describe raised.
Focused(tests) == \E i \in DOMAIN tests : tests[i].kind = "only"
StatusOf(tests, i) ==
  LET t == tests[i] IN
  IF t.broken THEN "failed"
  ELSE IF ~t.matches THEN "filtered"
  ELSE IF t.kind = "todo" THEN "todo"
  ELSE IF t.kind = "skip" \/ (Focused(tests) /\ t.kind # "only") THEN "skipped"
  ELSE "run"

RunsIn(tests, g) == {i \in DOMAIN tests : g \in ToSet(tests[i].groups) /\ StatusOf(tests, i) = "run"}

\* Mutant: the last test of a group, run or not.
LastOf_written(tests, g) ==
  LET own == {i \in DOMAIN tests : g \in ToSet(tests[i].groups)}
  IN  CHOOSE i \in own : \A j \in own : j <= i

FirstOf(tests, g) == CHOOSE i \in RunsIn(tests, g) : \A j \in RunsIn(tests, g) : i <= j
LastOf(tests, g) == CHOOSE i \in RunsIn(tests, g) : \A j \in RunsIn(tests, g) : j <= i

-----------------------------------------------------------------------------
(* Files *)

NoGroups == [started |-> {}, failed |-> {}]
NoHistory == [deeds |-> 0, began |-> {}, tops |-> {}, opened |-> {}, closed |-> {}, bad |-> {}, ran |-> {},
              cut |-> FALSE, late |-> FALSE]
AtRest(mode, file) == [mode |-> mode, file |-> file, at |-> 0, step |-> "load", group |-> 0, ok |-> TRUE,
                       isolate |-> FALSE, poisoned |-> FALSE, fileErr |-> FALSE, stopped |-> FALSE]

TestsInit ==
  /\ run \in {AtRest(mode, 1) : mode \in Modes}
  /\ world = Pristine
  /\ groups = NoGroups
  /\ verdicts = <<>>
  /\ history = NoHistory

Says(test, status) == [test |-> test, status |-> status]
Report(status) == verdicts' = Append(verdicts, Says(run.at, status))

\* The next file, unless --bail and this one failed.
AfterFile(reports) ==
  IF run.mode = "bail" /\ \E v \in ToSet(reports) : v.status = "failed"
  THEN [AtRest(run.mode, run.file) EXCEPT !.step = "over"]
  ELSE IF run.file = Len(TestFiles) THEN [AtRest(run.mode, run.file) EXCEPT !.step = "over"]
  ELSE AtRest(run.mode, run.file + 1)

\* A fresh Lua state, and the file's chunk.
LoadFile ==
  /\ run.step = "load"
  /\ run' = [run EXCEPT !.step = "top"]
  /\ world' = Freshened(world)
  /\ groups' = NoGroups
  /\ history' = NoHistory
  /\ verdicts' = <<>>

\* A file that does not compile returns before anything is put back.
FileDoesNotCompile ==
  /\ run.step = "load"
  /\ verdicts' = <<Says(0, "failed")>>
  /\ run' = AfterFile(verdicts')
  /\ groups' = NoGroups
  /\ history' = NoHistory
  /\ UNCHANGED world

EndFile(reports, w) ==
  /\ verdicts' = reports
  /\ world' = FileFinished(w)
  /\ run' = AfterFile(reports)
  /\ groups' = NoGroups
  /\ history' = NoHistory

\* The top level has run: the plan, a bare script's verdict, or --list.
EndTop(outcome) ==
  /\ run.step = "top"
  /\ LET w == [world EXCEPT !.job = @ \/ outcome = "cut"] IN
     IF outcome = "poison" THEN EndFile(<<Says(0, "failed")>>, w)
     ELSE IF Tests = <<>> THEN EndFile(<<Says(0, IF outcome = "ok" THEN "passed" ELSE "failed")>>, w)
     ELSE IF run.mode = "list" THEN EndFile([i \in DOMAIN Tests |-> Says(i, "filtered")], w)
     ELSE /\ run' = [run EXCEPT !.step = "next", !.fileErr = outcome # "ok"]
          /\ world' = w
          /\ history' = [history EXCEPT !.tops = world.cache]
          /\ UNCHANGED <<groups, verdicts>>

\* A failure outside any test is one of its own.
AllTestsDone ==
  /\ run.step = "next" /\ run.at = Len(Tests)
  /\ EndFile(IF run.fileErr THEN Append(verdicts, Says(0, "failed")) ELSE verdicts, world)

-----------------------------------------------------------------------------
(* Tests: the loop of run_file() and t._run() *)

\* A test that is not run is reported as the plan says; after --bail the rest of
\* the file is counted only.
PassOver ==
  /\ run.step = "next" /\ run.at < Len(Tests)
  /\ LET i == run.at + 1
         status == StatusOf(Tests, i)
         told == IF status # "run" THEN status ELSE IF run.stopped THEN "not run" ELSE "failed"
     IN  /\ status # "run" \/ run.stopped \/ run.poisoned
         /\ verdicts' = Append(verdicts, Says(i, told))
         /\ run' = [run EXCEPT !.at = i, !.stopped = @ \/ (run.mode = "bail" /\ told = "failed")]
         /\ history' = [history EXCEPT !.bad = IF told = "failed" THEN @ \cup {i} ELSE @]
  /\ UNCHANGED <<world, groups>>

BeginTest ==
  /\ run.step = "next" /\ run.at < Len(Tests)
  /\ StatusOf(Tests, run.at + 1) = "run" /\ ~run.stopped /\ ~run.poisoned
  /\ run' = [run EXCEPT !.at = run.at + 1, !.step = "open", !.group = 1, !.ok = TRUE]
  /\ world' = Freshened(world)
  /\ history' = [history EXCEPT !.began = world.cache]
  /\ UNCHANGED <<groups, verdicts>>

\* Mutant: the group is marked when its before_all has failed, not before it runs.
Marked_late(g) == [groups EXCEPT !.started = @ \cup {g}]

\* before_all is marked failed before it is called: out of budget it never returns.
Marked(g) == [groups EXCEPT !.started = @ \cup {g}, !.failed = @ \cup {g}]

OpenGroup ==
  /\ run.step = "open" /\ run.group <= Len(Current.groups)
  /\ LET g == Current.groups[run.group] IN
     IF FirstOf(Tests, g) = run.at /\ g \notin groups.started
     THEN /\ groups' = Marked(g)
          /\ run' = [run EXCEPT !.step = "before_all"]
          /\ history' = [history EXCEPT !.opened = @ \cup {g}]
     ELSE /\ run' = [run EXCEPT !.group = @ + 1, !.ok = @ /\ g \notin groups.failed]
          /\ UNCHANGED <<groups, history>>
  /\ UNCHANGED <<world, verdicts>>

GroupsOpen ==
  /\ run.step = "open" /\ run.group > Len(Current.groups)
  /\ run' = [run EXCEPT !.step = IF run.ok THEN "before" ELSE "after"]
  /\ UNCHANGED <<world, groups, verdicts, history>>

\* One thing a script does: the doubles and fixtures of nitr.test, a request.
ScriptActs(deed) ==
  /\ run.step \in ScriptSteps /\ history.deeds < MaxDeeds
  /\ world' = Did(world, deed)
  /\ history' = [history EXCEPT !.deeds = @ + 1]
  /\ UNCHANGED <<run, groups, verdicts>>

\* t.db.isolate()
Isolate ==
  /\ run.step \in ScriptSteps /\ history.deeds < MaxDeeds
  /\ run' = [run EXCEPT !.isolate = TRUE]
  /\ history' = [history EXCEPT !.deeds = @ + 1]
  /\ UNCHANGED <<world, groups, verdicts>>

\* A script returns or raises, and the framework goes on.
Culprit(outcome) == IF outcome = "ok" THEN history.bad ELSE history.bad \cup {run.at}
EndScript(outcome) ==
  /\ run.step \in ScriptSteps \ {"top"}
  /\ outcome \in {"ok", "error"}
  /\ LET fine == outcome = "ok" IN
     CASE run.step = "before_all" ->
            /\ groups' = IF fine THEN [groups EXCEPT !.failed = @ \ {Current.groups[run.group]}]
                         ELSE [groups EXCEPT !.failed = @ \cup {Current.groups[run.group]}]
            /\ run' = [run EXCEPT !.step = "open"]
       [] run.step = "before" ->
            /\ run' = [run EXCEPT !.ok = fine, !.step = IF fine THEN "body" ELSE "after"]
            /\ UNCHANGED groups
       [] run.step = "body" ->
            /\ run' = [run EXCEPT !.ok = fine, !.step = "after"]
            /\ UNCHANGED groups
       [] run.step = "after" ->
            /\ run' = [run EXCEPT !.ok = @ /\ fine, !.step = "close", !.group = Len(Current.groups)]
            /\ UNCHANGED groups
       [] run.step = "after_all" ->
            /\ run' = [run EXCEPT !.ok = @ /\ fine, !.step = "close", !.group = @ - 1]
            /\ UNCHANGED groups
  /\ history' = [history EXCEPT !.bad = Culprit(outcome), !.ran = IF run.step = "body" THEN @ \cup {run.at} ELSE @]
  /\ UNCHANGED <<world, verdicts>>

CloseGroup ==
  /\ run.step = "close" /\ run.group >= 1
  /\ LET g == Current.groups[run.group] IN
     IF LastOf(Tests, g) = run.at
     THEN run' = [run EXCEPT !.step = "after_all"] /\ history' = [history EXCEPT !.closed = @ \cup {g}]
     ELSE run' = [run EXCEPT !.group = @ - 1] /\ UNCHANGED history
  /\ UNCHANGED <<world, groups, verdicts>>

\* Mutant: a restore that failed is not the test's failure.
Failed_quietly(passed, w) == ~passed

\* A test fails when its scripts did, or when its database could not be put back.
Failed(passed, w) == ~passed \/ (run.isolate /\ ~Restorable(w))

\* The call is over: the verdict, the database, the clock and the cache.
EndTest(passed, w) ==
  /\ Report(IF Failed(passed, w) THEN "failed" ELSE "passed")
  /\ world' = Settled(IF run.isolate THEN Restored(w) ELSE w)
  /\ UNCHANGED groups

StopsRun(passed, w) == run.stopped \/ (run.mode = "bail" /\ Failed(passed, w))

TestReturns ==
  /\ run.step = "close" /\ run.group = 0
  /\ EndTest(run.ok, world)
  /\ run' = [run EXCEPT !.step = "next", !.stopped = StopsRun(run.ok, world)]
  /\ history' = [history EXCEPT !.late = @ /\ ~run.isolate]

\* The budget runs out, or the script leaves the state unusable: the call ends at once,
\* its remaining hooks unrun.  A fixture's job that is with the blocking pool goes on.
TestIsCut(how) ==
  /\ run.step \in ScriptSteps \ {"top"}
  /\ LET w == [world EXCEPT !.job = @ \/ how = "cut"]
     IN  /\ EndTest(FALSE, w)
         /\ run' = [run EXCEPT !.step = "next", !.stopped = StopsRun(FALSE, w), !.poisoned = @ \/ how = "poison"]
  /\ history' = [history EXCEPT !.bad = @ \cup {run.at}, !.cut = TRUE]

LateJob ==
  /\ world.job /\ run.step # "over"
  /\ world' = [world EXCEPT !.job = FALSE, !.db = "changed"]
  /\ history' = [history EXCEPT !.late = TRUE]
  /\ UNCHANGED <<run, groups, verdicts>>

TestsNext ==
  \/ LoadFile \/ FileDoesNotCompile \/ AllTestsDone \/ PassOver \/ BeginTest
  \/ OpenGroup \/ GroupsOpen \/ CloseGroup \/ TestReturns \/ Isolate \/ LateJob
  \/ \E o \in {"ok", "error", "cut", "poison"} : EndTop(o)
  \/ \E o \in {"ok", "error"} : EndScript(o)
  \/ \E o \in {"cut", "poison"} : TestIsCut(o)
  \/ \E d \in Deeds : ScriptActs(d)

TestsSpec == TestsInit /\ [][TestsNext]_testVars

-----------------------------------------------------------------------------
(* Properties *)

InTest == run.step \in {"open", "close"} \cup (ScriptSteps \ {"top"})

\* A test starts without what others left: no double, no moved clock, nothing cached
\* under one, unless the file's own top level did; no cache entry of another file.  One
\* that passed in an isolated file leaves the database as the snapshot has it, for as long
\* as no job of a test that was cut is still to run.  (fresh, finish_file, take_touched)
NothingIsInherited ==
  /\ InTest /\ "moved" \in history.began => "moved" \in history.tops
  /\ run.step = "top" /\ history.deeds = 0 => world.cache = {} /\ ~world.moved /\ ~world.doubles
  /\ (run.step = "next" /\ run.isolate /\ ~history.late /\ verdicts # <<>>
      /\ Last(verdicts).status = "passed") => world.db = "snapshot"

\* No test runs against a setup that did not happen; before_all and after_all surround the
\* tests of their group that run; and unless a call was cut or the run stopped, every
\* group that was opened is closed.  (t._plan, t._run)
HooksSurround ==
  /\ run.step \in {"before", "body"} => ToSet(Current.groups) \subseteq groups.started \ groups.failed
  /\ \A g \in history.closed : \A i \in RunsIn(Tests, g) : i <= run.at
  /\ \A i \in history.ran : ToSet(Tests[i].groups) \subseteq history.opened
  /\ (run.step = "next" /\ run.at = Len(Tests) /\ ~run.stopped /\ ~history.cut) => history.opened = history.closed

\* Every test is reported once, in order, and passes only if its body ran and neither it
\* nor a hook it depends on failed.
VerdictsAreTrue ==
  /\ run.step = "next" => Len(verdicts) = run.at
  /\ run.step \notin {"load", "over"} => \A v \in ToSet(verdicts) : v.test > 0 =>
       /\ v.status = "passed" => v.test \in history.ran \ history.bad
       /\ v.test \in history.bad => v.status = "failed"

\* A suite says what its tests found, whatever order, filter, failure or cut they meet.
TestsStandAlone == NothingIsInherited /\ HooksSurround /\ VerdictsAreTrue
=============================================================================
