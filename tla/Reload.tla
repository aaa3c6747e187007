------------------------------- MODULE Reload -------------------------------
(***************************************************************************)
(* Zero-downtime reload (crates/nitr-http/src/server/mod.rs and pool.rs).  *)
(*                                                                         *)
(* A SIGHUP or a save in dev mode puts a request into a channel of one     *)
(* slot.  The accept loop takes it and calls reload(): it re-reads the TLS *)
(* files, then either starts a rebuild task or marks the running one       *)
(* pending.  The task loads the scripts into every new Lua state, swaps    *)
(* the pool and the OpenAPI document, and looks at the mark when it has    *)
(* finished.  reload() and the task meet in one atomic byte, `reloading',  *)
(* and every access to it is a step of its own here.                       *)
(*                                                                         *)
(* Scripts and certificates are versions of what is on disk; a Lua state   *)
(* carries the version it loaded.                                          *)
(***************************************************************************)
EXTENDS Naturals, Sequences

CONSTANTS
  Workers,    \* states in a pool (cfg.workers.max(1))
  Readers,    \* requests that look at the pool and at the document
  MaxSaves,   \* bound: how often the files on disk change
  MaxHangups  \* bound: how many reload signals are sent

ASSUME WorkersPositive == Workers \in Nat \ {0}
ASSUME BoundsNat == MaxSaves \in Nat /\ MaxHangups \in Nat

\* Every started task answers a signal of its own.
Tasks == 1..MaxHangups
Versions == 0..MaxSaves

\* Program points of the rebuild task, in order.
Building == {"load", "docs", "swap", "swapDocs"}
Looping == Building \cup {"cas", "again"}
TaskPoints == {"none", "reset", "done"} \cup Looping
LoopPoints == {"select", "tls", "cas", "store"}

VARIABLES
  disk,       \* the version of the scripts and certificates on disk
  hangups,    \* reload signals sent so far
  signalled,  \* a signal (or a watcher event) is on its way to the channel
  channel,    \* the reload channel holds a request
  loop,       \* where the accept loop is in reload()
  reloading,  \* the atomic: "idle", "running" or "pending"
  pc,         \* pc[t]: where rebuild task t is
  built,      \* built[t]: versions of the states t has built so far, bootstrap first
  live,       \* the pool in use: [build, routing]
  docs,       \* the document in use: [build, routes]
  lock,       \* the task that holds the pool's write lock, or 0
  builds,     \* how many pools have been swapped in
  tls,        \* the version of the TLS acceptor in its slot
  seen        \* seen[q]: the builds of the pool and the document q looked at

vars == <<disk, hangups, signalled, channel, loop, reloading, pc,
          built, live, docs, lock, builds, tls, seen>>
diskVars == <<disk, hangups, signalled>>
liveVars == <<live, docs, lock, builds>>

\* ServerBuilder::build(): a pool, its document and the TLS acceptor are live
\* before the first signal can arrive.
Init ==
  /\ disk = 0 /\ hangups = 0
  /\ signalled = FALSE /\ channel = FALSE
  /\ loop = "select"
  /\ reloading = "idle"
  /\ pc = [t \in Tasks |-> "none"]
  /\ built = [t \in Tasks |-> <<>>]
  /\ live = [build |-> 0, routing |-> 0]
  /\ docs = [build |-> 0, routes |-> 0]
  /\ lock = 0
  /\ builds = 0
  /\ tls = 0
  /\ seen = [q \in Readers |-> [pool |-> 0, docs |-> 0, stage |-> "new"]]

-----------------------------------------------------------------------------
(* The outside: files and signals *)

Save ==
  /\ disk < MaxSaves
  /\ disk' = disk + 1
  /\ UNCHANGED <<hangups, signalled, channel, loop, reloading, pc,
                 built, liveVars, tls, seen>>

Hangup ==
  /\ hangups < MaxHangups
  /\ hangups' = hangups + 1
  /\ signalled' = TRUE
  /\ UNCHANGED <<disk, channel, loop, reloading, pc, built, liveVars,
                 tls, seen>>

\* The forwarding task: try_send() into the channel of one.  A full channel
\* means that a reload that has not started yet is queued already.
Forward ==
  /\ signalled
  /\ signalled' = FALSE
  /\ channel' = TRUE
  /\ UNCHANGED <<disk, hangups, loop, reloading, pc, built, liveVars,
                 tls, seen>>

-----------------------------------------------------------------------------
(* The accept loop: Server::reload() *)

LoopReceive ==
  /\ loop = "select"
  /\ channel
  /\ channel' = FALSE
  /\ loop' = "tls"
  /\ UNCHANGED <<diskVars, reloading, pc, built, liveVars, tls, seen>>

\* reload_tls(): validate first, swap only on success.
ReloadTls ==
  /\ loop = "tls"
  /\ tls' \in {tls, disk}
  /\ loop' = "cas"
  /\ UNCHANGED <<diskVars, channel, reloading, pc, built, liveVars, seen>>

\* compare_exchange(IDLE, RUNNING) succeeds: a new task is spawned.
ReloadStart(t) ==
  /\ loop = "cas"
  /\ reloading = "idle"
  /\ pc[t] = "none" /\ \A u \in Tasks : u < t => pc[u] # "none"
  /\ reloading' = "running"
  /\ pc' = [pc EXCEPT ![t] = "load"]
  /\ loop' = "select"
  /\ UNCHANGED <<diskVars, channel, built, liveVars, tls, seen>>

\* compare_exchange(IDLE, RUNNING) fails: some rebuild is in progress.
ReloadBusy ==
  /\ loop = "cas"
  /\ reloading # "idle"
  /\ loop' = "store"
  /\ UNCHANGED <<diskVars, channel, reloading, pc, built, liveVars, tls, seen>>

\* store(PENDING): the rebuild in progress is to run once more.
ReloadPending ==
  /\ loop = "store"
  /\ reloading' = "pending"
  /\ loop' = "select"
  /\ UNCHANGED <<diskVars, channel, pc, built, liveVars, tls, seen>>

-----------------------------------------------------------------------------
(* The rebuild task: rebuild_pool() inside reload()'s loop *)

Goto(t, p) == pc' = [pc EXCEPT ![t] = p]

\* build_runtimes(): the bootstrap state and then the others, one by one, each
\* reading the script from disk.
LoadState(t) ==
  /\ pc[t] = "load"
  /\ built' = [built EXCEPT ![t] = Append(@, disk)]
  /\ Goto(t, IF Len(built[t]) + 1 < Workers THEN "load" ELSE "docs")
  /\ UNCHANGED <<diskVars, channel, loop, reloading, liveVars, tls, seen>>

\* build_docs(), from the bootstrap state.
BuildDocs(t) ==
  /\ pc[t] = "docs"
  /\ Goto(t, "swap")
  /\ UNCHANGED <<diskVars, channel, loop, reloading, built, liveVars, tls, seen>>

\* Either of them fails or panics: what was built is dropped, the old pool and
\* document stay.
RebuildFails(t) ==
  /\ pc[t] \in {"load", "docs"}
  /\ built' = [built EXCEPT ![t] = <<>>]
  /\ Goto(t, "cas")
  /\ UNCHANGED <<diskVars, channel, loop, reloading, liveVars, tls, seen>>

\* Mutant: the pool's write lock is dropped before the document is swapped.
SwapPool_unlocked(t) ==
  /\ pc[t] = "swap"
  /\ lock = 0
  /\ builds' = builds + 1
  /\ live' = [build |-> builds + 1, routing |-> built[t][1]]
  /\ Goto(t, "swapDocs")
  /\ UNCHANGED <<diskVars, channel, loop, reloading, built, docs, lock, tls, seen>>

\* new_pool() and *pool = fresh, under the pool's write lock.
SwapPool(t) ==
  /\ pc[t] = "swap"
  /\ lock = 0
  /\ lock' = t
  /\ builds' = builds + 1
  /\ live' = [build |-> builds + 1, routing |-> built[t][1]]
  /\ Goto(t, "swapDocs")
  /\ UNCHANGED <<diskVars, channel, loop, reloading, built, docs, tls, seen>>

\* *slot = Some(fresh_docs), with the pool's lock still held; then it drops.
SwapDocs(t) ==
  /\ pc[t] = "swapDocs"
  /\ docs' = [build |-> live.build, routes |-> built[t][1]]
  /\ built' = [built EXCEPT ![t] = <<>>]
  /\ lock' = 0
  /\ Goto(t, "cas")
  /\ UNCHANGED <<diskVars, channel, loop, reloading, live, builds, tls, seen>>

\* Mutant: the task stores idle without looking at what was stored meanwhile.
TaskCas_blind(t) ==
  /\ pc[t] = "cas"
  /\ reloading' = "idle"
  /\ Goto(t, "reset")
  /\ UNCHANGED <<diskVars, channel, loop, built, liveVars, tls, seen>>

\* compare_exchange(RUNNING, IDLE): done, unless something else is stored.
TaskCas(t) ==
  /\ pc[t] = "cas"
  /\ IF reloading = "running"
       THEN reloading' = "idle" /\ Goto(t, "reset")
       ELSE UNCHANGED reloading /\ Goto(t, "again")
  /\ UNCHANGED <<diskVars, channel, loop, built, liveVars, tls, seen>>

\* Mutant: the task goes around without taking the pending mark off.
TaskAgain_keepsMark(t) ==
  /\ pc[t] = "again"
  /\ Goto(t, "load")
  /\ UNCHANGED <<diskVars, channel, loop, reloading, built, liveVars, tls, seen>>

\* store(RUNNING) and around the loop again.
TaskAgain(t) ==
  /\ pc[t] = "again"
  /\ reloading' = "running"
  /\ Goto(t, "load")
  /\ UNCHANGED <<diskVars, channel, loop, built, liveVars, tls, seen>>

\* ReloadReset::drop() as the task ends.
TaskReset(t) ==
  /\ pc[t] = "reset"
  /\ reloading' = "idle"
  /\ Goto(t, "done")
  /\ UNCHANGED <<diskVars, channel, loop, built, liveVars, tls, seen>>

-----------------------------------------------------------------------------
(* A request: current_pool() on arrival, Protection::docs() later *)

\* Mutant: the pool handle is cloned without taking the read lock.
ReadPool_unlocked(q) ==
  /\ seen[q].stage = "new"
  /\ seen' = [seen EXCEPT ![q].pool = live.build, ![q].stage = "pool"]
  /\ UNCHANGED <<diskVars, channel, loop, reloading, pc, built, liveVars, tls>>

ReadPool(q) ==
  /\ seen[q].stage = "new"
  /\ lock = 0
  /\ seen' = [seen EXCEPT ![q].pool = live.build, ![q].stage = "pool"]
  /\ UNCHANGED <<diskVars, channel, loop, reloading, pc, built, liveVars, tls>>

ReadDocs(q) ==
  /\ seen[q].stage = "pool"
  /\ seen' = [seen EXCEPT ![q].docs = docs.build, ![q].stage = "both"]
  /\ UNCHANGED <<diskVars, channel, loop, reloading, pc, built, liveVars, tls>>

-----------------------------------------------------------------------------
LoopStep ==
  \/ LoopReceive
  \/ ReloadTls
  \/ \E t \in Tasks : ReloadStart(t)
  \/ ReloadBusy
  \/ ReloadPending

TaskStep(t) ==
  \/ LoadState(t)
  \/ BuildDocs(t)
  \/ RebuildFails(t)
  \/ SwapPool(t)
  \/ SwapDocs(t)
  \/ TaskCas(t)
  \/ TaskAgain(t)
  \/ TaskReset(t)

Outside == Save \/ Hangup

Next ==
  \/ Outside
  \/ Forward
  \/ LoopStep
  \/ \E t \in Tasks : TaskStep(t)
  \/ \E q \in Readers : ReadPool(q) \/ ReadDocs(q)

Spec == Init /\ [][Next]_vars

(***************************************************************************)
(* Fairness: the executor polls the forwarding task, the accept loop and   *)
(* the rebuild tasks.  Files, signals and requests come when they come.    *)
(***************************************************************************)
Fairness ==
  /\ WF_vars(Forward)
  /\ WF_vars(LoopStep)
  /\ \A t \in Tasks : WF_vars(TaskStep(t))

FairSpec == Spec /\ Fairness

-----------------------------------------------------------------------------
(* Properties *)

\* Type correctness of the reload state.
TypeOK ==
  /\ disk \in Versions
  /\ hangups \in 0..MaxHangups
  /\ signalled \in BOOLEAN /\ channel \in BOOLEAN
  /\ loop \in LoopPoints
  /\ reloading \in {"idle", "running", "pending"}
  /\ pc \in [Tasks -> TaskPoints]
  /\ built \in [Tasks -> Seq(Versions)]
  /\ live \in [build : Nat, routing : Versions]
  /\ docs \in [build : Nat, routes : Versions]
  /\ lock \in Tasks \cup {0}
  /\ builds \in Nat
  /\ tls \in Versions
  /\ seen \in [Readers -> [pool : Nat, docs : Nat,
                           stage : {"new", "pool", "both"}]]

\* The pool and the document are always of one build, and the document
\* describes the routes of the shared routing table ("so the two never
\* disagree"), however many rebuild tasks there are; only the holder of the
\* pool's lock can be between the two assignments.
PoolAndDocsAgree ==
  lock = 0 => docs.build = live.build /\ docs.routes = live.routing

\* "No request can see the new pool with the old document": the document a
\* request reads after its pool is of the same build or of a later one.
NoNewPoolWithOldDocs ==
  \A q \in Readers : seen[q].stage = "both" => seen[q].docs >= seen[q].pool

\* A reload marked pending while a rebuild is under way, with no other task
\* near its end, is followed by another rebuild that starts from scratch.
PendingIsHonoured ==
  \A t \in Tasks :
    (/\ reloading = "pending" /\ loop = "select" /\ pc[t] \in Building \cup {"cas"}
     /\ \A u \in Tasks \ {t} : pc[u] \in {"none", "done"})
    ~> (pc[t] = "load" /\ built[t] = <<>>)

\* Every rebuild task ends, failed or not, whatever the others store.
TasksEnd == \A t \in Tasks : (pc[t] # "none") ~> (pc[t] = "done")

\* The atomic names a rebuild only while there is a task to finish it ("the
\* state must return to idle, or no reload would ever run again").
NeverWedged ==
  reloading # "idle" /\ loop = "select" =>
    \E t \in Tasks : pc[t] \in Looping \cup {"reset"}
=============================================================================
