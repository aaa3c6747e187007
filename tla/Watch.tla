------------------------------- MODULE Watch -------------------------------
(***************************************************************************)
(* Rerunning on a save: the watcher thread of crates/nitr-http/src/        *)
(* watch.rs, which also drives reloads in dev mode, and the session of     *)
(* `nitr test --watch` in crates/nitr-cli/src/cmd/test/mod.rs, which waits *)
(* at the other end of its channel of one.  A path is the sequence of its  *)
(* names.  The operating system's notifications are external: an event for *)
(* every change under a registered root, none for earlier ones.            *)
(***************************************************************************)
EXTENDS Naturals, Sequences, FiniteSets, SequencesExt

CONSTANTS
  Setups,          \* what a session may find: scripts, templates, report file
  Existing,        \* the directories there are
  Savable,         \* files that are saved
  MaxSaves,        \* bound: saves
  MaxReruns        \* bound: runs after the first

NoPath == <<>>
Paths == Seq(STRING)

\* A directory is in directories; a file is not one that is watched.
ASSUME SetupsAreRecords ==
  Setups \subseteq [handler : Paths, config : Paths, templates : Paths, tests : Paths, database : Paths, output : Paths]
ASSUME ExistingIsATree ==
  /\ Existing \subseteq Paths \ {NoPath}
  /\ \A d \in Existing : \A n \in 1..Len(d) : SubSeq(d, 1, n) \in Existing
ASSUME FilesAreNoDirectories ==
  /\ Savable \subseteq Paths \ {NoPath}
  /\ \A s \in Setups : (Savable \cup {s.output}) \cap ({s.handler, s.config, s.templates, s.tests} \ {NoPath}) = {}

VARIABLES
  setup,           \* the configuration and --output
  thread,          \* the watcher thread
  events,          \* relevant events it has not received
  wanted,          \* the channel of one: a run is asked for
  session,         \* watch_loop()
  saves,           \* files saved so far; inputs of a run among them
  covered,         \* the input saves the last run began after
  heard,           \* the last input save the watcher was told of
  runs             \* runs so far

watchVars == <<setup, thread, events, wanted, session, saves, covered, heard, runs>>

IsUnder(path, dir) == IsPrefix(dir, path)

-----------------------------------------------------------------------------
(* What is watched, and what matters of it *)

\* watch_roots(): existing directories, none of them within an earlier one.
Pushed(roots, dir) ==
  IF dir \in Existing /\ \A i \in DOMAIN roots : ~IsUnder(dir, roots[i]) THEN Append(roots, dir) ELSE roots
WatchRoots(s) == Pushed(Pushed(Pushed(Pushed(<<>>, s.handler), s.config), s.templates), s.tests)

IsLua(path) == Last(path) \in {"app.lua", "conf.lua", "a_test.lua", "report.lua"}
InTemplates(s, path) == s.templates # NoPath /\ IsUnder(path, s.templates)

\* Mutant: every change counts.
Relevant_any(s, path) == TRUE

\* is_input(): a Lua source, or anything in the templates tree.
Relevant(s, path) == IsLua(path) \/ InTemplates(s, path)

\* The watcher's callback, once the roots are registered.
Told(s, path) ==
  /\ thread \in {"idle", "burst"}
  /\ \E r \in ToSet(WatchRoots(s)) : IsUnder(path, r)
  /\ Relevant(s, path)

\* refuse_watched_output(): both directories are resolved, so both must be there.
Refused(s) ==
  /\ s.output # NoPath
  /\ \/ IsLua(s.output)
     \/ {s.templates, Front(s.output)} \subseteq Existing /\ IsUnder(Front(s.output), s.templates)

-----------------------------------------------------------------------------

WatchInit ==
  /\ setup \in Setups
  /\ thread = "registering" /\ events = 0 /\ wanted = 0
  /\ session = IF Refused(setup) \/ WatchRoots(setup) = <<>> THEN "over" ELSE "running"
  /\ saves = [all |-> 0, inputs |-> 0] /\ covered = 0 /\ heard = 0 /\ runs = 1

\* What a run reads.
Reads(s, path) ==
  /\ IsLua(path) \/ InTemplates(s, path)
  /\ \E d \in {s.handler, s.config, s.templates, s.tests} \ {NoPath} : IsUnder(path, d)

Save(path) ==
  /\ saves.all < MaxSaves
  /\ Front(path) \in Existing
  /\ events' = IF Told(setup, path) THEN events + 1 ELSE events
  /\ saves' = [all |-> saves.all + 1, inputs |-> saves.inputs + (IF Reads(setup, path) THEN 1 ELSE 0)]
  /\ heard' = IF Reads(setup, path) /\ thread \in {"idle", "burst"} THEN saves'.inputs ELSE heard
  /\ UNCHANGED <<setup, thread, wanted, session, covered, runs>>

\* Creating the watcher may fail; then the thread ends and with it the channel.
Registered(next) ==
  /\ thread = "registering"
  /\ thread' = next
  /\ UNCHANGED <<setup, events, wanted, session, saves, covered, heard, runs>>

\* The first event of a burst, and the rest of it.
Receive ==
  /\ thread \in {"idle", "burst"} /\ events > 0
  /\ thread' = "burst" /\ events' = events - 1
  /\ UNCHANGED <<setup, wanted, session, saves, covered, heard, runs>>

\* Mutant: a run under way is taken for the one that is asked for.
TrySend_merged == IF session = "running" THEN wanted ELSE 1

\* try_send(): a full channel means a run is already asked for.
TrySend == 1

Quiet ==
  /\ thread = "burst" /\ events = 0
  /\ wanted' = TrySend
  /\ thread' = IF session = "over" THEN "ended" ELSE "idle"
  /\ UNCHANGED <<setup, events, session, saves, covered, heard, runs>>

\* The guard is gone: noticed at the next poll.
StopPoll ==
  /\ thread = "idle" /\ events = 0 /\ session = "over"
  /\ thread' = "ended"
  /\ UNCHANGED <<setup, events, wanted, session, saves, covered, heard, runs>>

\* A run ends with its report, and has written the database (a named one may be anywhere).
RunEnds ==
  /\ session = "running"
  /\ session' = "waiting"
  /\ events' = events + Cardinality({p \in {setup.database, setup.output} \ {NoPath} : Told(setup, p)})
  /\ UNCHANGED <<setup, thread, wanted, saves, covered, heard, runs>>

RunAgain ==
  /\ session = "waiting" /\ wanted = 1 /\ runs <= MaxReruns
  /\ session' = "running" /\ wanted' = 0 /\ covered' = saves.inputs /\ runs' = runs + 1
  /\ UNCHANGED <<setup, thread, events, saves, heard>>

\* Ctrl-C is heard while a run goes on too; a closed channel is an error.
SessionEnds ==
  /\ \/ session \in {"running", "waiting"} /\ session' = "over"
     \/ session = "waiting" /\ wanted = 0 /\ thread = "ended" /\ session' = "failed"
  /\ UNCHANGED <<setup, thread, events, wanted, saves, covered, heard, runs>>

WatchNext ==
  \/ \E p \in Savable : Save(p)
  \/ \E n \in {"idle", "ended"} : Registered(n)
  \/ Receive \/ Quiet \/ StopPoll \/ RunEnds \/ RunAgain \/ SessionEnds

WatchSpec == WatchInit /\ [][WatchNext]_watchVars

-----------------------------------------------------------------------------
(* Properties *)

\* The one report file that is accepted and causes runs: its directory, inside the
\* templates, was not there when it was looked at; validate() makes it afterwards.
ReportInNewFolder ==
  setup.output # NoPath /\ InTemplates(setup, setup.output) /\ Front(setup.output) \notin Existing

\* A named database may be anywhere, and tests write it: nothing refuses one that is
\* among the templates.
DatabaseIsInput == setup.database # NoPath /\ (IsLua(setup.database) \/ InTemplates(setup, setup.database))

\* A save the watcher was told of is followed by a run that began after it: nothing is
\* lost between a burst, a full channel and a run under way.  And a run does not cause the
\* next: there are no more of them than saves of what they read.  (spawn, watch_loop,
\* is_input, refuse_watched_output)
SavesAreRun ==
  /\ (session = "waiting" /\ thread = "idle" /\ events = 0 /\ wanted = 0) => covered >= heard
  /\ ReportInNewFolder \/ DatabaseIsInput \/ runs <= 1 + saves.inputs
=============================================================================
