------------------------------- MODULE Bundle -------------------------------
(***************************************************************************)
(* A `nitr build` executable starting: crates/nitr-cli/src/bundle.rs.  The *)
(* archive behind the binary is extracted once per build, into a staging   *)
(* directory that is renamed when it is complete; later starts reuse what  *)
(* they find.  Several starts share the cache, and any of them may crash.  *)
(***************************************************************************)
EXTENDS Naturals, Sequences, SequencesExt, FiniteSetsExt

CONSTANTS
  Starts,          \* processes
  Builds,          \* the executables, by their hash
  ArchiveOf,       \* the entries of each build's archive
  MaxLaunches      \* bound: how often the executables are started

\* `nitr build` archives the manifest at least.
ASSUME ArchivesAreLists == \A b \in Builds : ArchiveOf[b] \in Seq(STRING) /\ ArchiveOf[b] # <<>>

VARIABLES
  disk,            \* the directories there are and what each holds
  starts           \* where each process is

bundleVars == <<disk, starts>>

Marker == ".nitr-extracted"
Manifest == "nitr.toml"
Outside == "../outside"

Root(b) == [kind |-> "root", build |-> b, by |-> "all", n |-> 0]
\* fresh_private_dir(): named after the process and the time, under the cache
\* or, without one, under the temporary directory.
FreshDir(p) ==
  [kind |-> IF starts[p].cached THEN "staging" ELSE "private",
   build |-> starts[p].build, by |-> p, n |-> starts[p].launches]

NotRunning(launches) ==
  [step |-> "off", build |-> "none", cached |-> TRUE, dir |-> "none",
   entry |-> 0, victims |-> {}, launches |-> launches]

Finished(b) == Root(b) \in DOMAIN disk /\ Marker \in disk[Root(b)]
Mkdir(d) == [x \in DOMAIN disk \cup {d} |-> IF x = d THEN {} ELSE disk[x]]
Rmdir(d) == [x \in DOMAIN disk \ {d} |-> disk[x]]
Holding(d, names) == [x \in DOMAIN disk \cup {d} |-> IF x = d THEN names ELSE disk[x]]

Goes(p, step) == starts' = [starts EXCEPT ![p].step = step]
Fails(p) == Goes(p, "failed") /\ UNCHANGED disk

-----------------------------------------------------------------------------
(* load() *)

Launch(p, b, cached) ==
  /\ starts[p].step \in {"off", "failed"} /\ MapThenSumSet(LAMBDA q : starts[q].launches, Starts) < MaxLaunches
  /\ starts' = [starts EXCEPT ![p] =
       [NotRunning(starts[p].launches + 1) EXCEPT !.build = b, !.cached = cached, !.dir = Root(b),
          !.step = IF cached /\ Finished(b) THEN "open" ELSE "mkdir"]]
  /\ UNCHANGED disk

MakeDir(p) ==
  /\ starts[p].step = "mkdir"
  /\ disk' = Mkdir(FreshDir(p))
  /\ starts' = [starts EXCEPT ![p].step = "unpack", ![p].entry = 1, ![p].dir = FreshDir(p)]

\* extract(): an entry that would land outside, or is no plain file, ends the
\* start.  The archive library makes a directory that has gone anew, or fails.
Allowed(e) == e # Outside
Unpack(p) ==
  LET me == starts[p]
      e == ArchiveOf[me.build][me.entry]
      last == me.entry = Len(ArchiveOf[me.build])
  IN  /\ me.step = "unpack"
      /\ \/ /\ Allowed(e)
            /\ disk' = Holding(me.dir, {e} \cup IF me.dir \in DOMAIN disk THEN disk[me.dir] ELSE {})
            /\ starts' = [starts EXCEPT ![p].entry = @ + 1,
                                        ![p].step = IF ~last THEN "unpack" ELSE IF me.cached THEN "mark" ELSE "open"]
         \/ (~Allowed(e) \/ me.dir \notin DOMAIN disk) /\ Fails(p)

Mark(p) ==
  LET dir == starts[p].dir IN
  /\ starts[p].step = "mark"
  /\ IF dir \in DOMAIN disk
     THEN disk' = Holding(dir, disk[dir] \cup {Marker}) /\ Goes(p, "rename")
     ELSE Fails(p)

\* rename() replaces nothing but an empty directory.  When it cannot, and the
\* finished directory is there, another start has won.
Renames(p) ==
  starts[p].dir \in DOMAIN disk /\ (Root(starts[p].build) \in DOMAIN disk => disk[Root(starts[p].build)] = {})

Publish(p) ==
  LET me == starts[p]
      root == Root(me.build)
  IN  /\ me.step = "rename"
      /\ \/ /\ Renames(p)
            /\ disk' = [x \in (DOMAIN disk \cup {root}) \ {me.dir} |-> IF x = root THEN disk[me.dir] ELSE disk[x]]
            /\ starts' = [starts EXCEPT ![p].step = "list", ![p].dir = root]
         \/ /\ ~Renames(p) /\ Finished(me.build)
            /\ starts' = [starts EXCEPT ![p].step = "remove", ![p].victims = {me.dir}, ![p].dir = root]
            /\ UNCHANGED disk
         \/ ~Renames(p) /\ ~Finished(me.build) /\ Fails(p)

-----------------------------------------------------------------------------
(* sweep_stale_staging(), and remove_dir_all(): best effort, file by file *)

\* By name: the finished directory's and a dot.  Mutant: without the dot.
Swept_noDot(b) == {d \in DOMAIN disk : d.build = b /\ d.kind \in {"root", "staging"}}
Swept(b) == {d \in DOMAIN disk : d.build = b /\ d.kind = "staging"}

ListStale(p) ==
  /\ starts[p].step = "list"
  /\ starts' = [starts EXCEPT ![p].step = "remove", ![p].victims = Swept(starts[p].build)]
  /\ UNCHANGED disk

RemoveFile(p) ==
  /\ starts[p].step = "remove"
  /\ \E d \in starts[p].victims \cap DOMAIN disk : \E name \in disk[d] : disk' = Holding(d, disk[d] \ {name})
  /\ UNCHANGED starts

\* A directory written to meanwhile stays.
RemoveDir(p) ==
  /\ starts[p].step = "remove"
  /\ \E d \in starts[p].victims :
       /\ starts' = [starts EXCEPT ![p].victims = @ \ {d}]
       /\ IF d \in DOMAIN disk /\ disk[d] = {} THEN disk' = Rmdir(d) ELSE UNCHANGED disk

Removed(p) == starts[p].step = "remove" /\ starts[p].victims = {} /\ Goes(p, "open") /\ UNCHANGED disk

\* Config::from_file() of the manifest in the directory, and the server's run.
Open(p) ==
  LET me == starts[p] IN
  /\ me.step = "open"
  /\ IF me.dir \in DOMAIN disk /\ Manifest \in disk[me.dir] THEN Goes(p, "running") /\ UNCHANGED disk ELSE Fails(p)

Crash(p) ==
  /\ starts[p].step \notin {"off", "failed"}
  /\ starts' = [starts EXCEPT ![p] = NotRunning(starts[p].launches)]
  /\ UNCHANGED disk

BundleInit == disk = [d \in {} |-> {}] /\ starts = [p \in Starts |-> NotRunning(0)]

BundleNext ==
  \E p \in Starts :
    \/ \E b \in Builds, cached \in BOOLEAN : Launch(p, b, cached)
    \/ MakeDir(p) \/ Unpack(p) \/ Mark(p) \/ Publish(p)
    \/ ListStale(p) \/ RemoveFile(p) \/ RemoveDir(p) \/ Removed(p) \/ Open(p) \/ Crash(p)

BundleSpec == BundleInit /\ [][BundleNext]_bundleVars

-----------------------------------------------------------------------------
(* Properties *)

\* What later starts trust is complete: the finished directory of a build holds
\* its whole archive, and so does the directory a running server reads its
\* application from, for as long as it runs, whichever starts raced, were swept
\* or crashed on the way.  An archive with an entry that is refused never runs.
BundlesAreWhole ==
  /\ \A d \in DOMAIN disk : d.kind = "root" => disk[d] = ToSet(ArchiveOf[d.build]) \cup {Marker}
  /\ \A p \in Starts : starts[p].step = "running" =>
       /\ starts[p].dir \in DOMAIN disk
       /\ ToSet(ArchiveOf[starts[p].build]) \subseteq disk[starts[p].dir]
       /\ Outside \notin disk[starts[p].dir]
=============================================================================
