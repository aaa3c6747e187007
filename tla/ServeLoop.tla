----------------------------- MODULE ServeLoop ------------------------------
(***************************************************************************)
(* The accept loop and the graceful shutdown of                            *)
(* crates/nitr-http/src/server/serve.rs, with the connection tasks it      *)
(* spawns and the probe listener of health.rs.                             *)
(*                                                                         *)
(* One select loop accepts connections while it has a connection slot,     *)
(* takes reload requests and hears the shutdown signal.  It then clears    *)
(* readiness, serves on for the readiness delay, drops the listener and    *)
(* waits for the connections to end or for a deadline.  A connection's     *)
(* task shakes hands (TLS) and serves requests; a streaming response is    *)
(* fed by a producer task of its own, which holds a Lua state and a stream *)
(* permit and does not end with the connection.                            *)
(***************************************************************************)
EXTENDS Naturals, FiniteSets

CONSTANTS
  Conns,           \* the clients, one connection at a time each
  MaxConnections,  \* connection slots ([limits] max_connections)
  MaxStreams,      \* stream permits
  Tls,             \* connections start with a TLS handshake
  Delay,           \* the readiness delay is not zero
  Probe            \* the health endpoints have a listener of their own

ASSUME ConnsFinite == IsFiniteSet(Conns)
ASSUME LimitsPositive == MaxConnections \in Nat \ {0} /\ MaxStreams \in Nat \ {0}
ASSUME FlagsAreBoolean == Tls \in BOOLEAN /\ Delay \in BOOLEAN /\ Probe \in BOOLEAN

VARIABLES
  loop,       \* "accept", "backoff", "drain", "probes" or "stopped"
  slots,      \* free connection slots (conn_slots.available_permits())
  accepting,  \* the accept future of this round holds a slot
  conn,       \* conn[c]: the state of c's connection
  producers,  \* connections whose streaming producer runs
  asked,      \* the shutdown future has resolved
  draining,   \* the readiness delay is running
  ready,      \* the readiness flag
  listening,  \* the listener exists
  deadline,   \* the drain deadline: "off", "grace", "extended" or "expired"
  result,     \* what the drain came to: "none", "ok" or "timeout"
  severed,    \* connections still alive when the deadline ended the drain
  probe       \* the probe listener: "none", "up", "stopping" or "down"

vars == <<loop, slots, accepting, conn, producers, asked, draining, ready,
          listening, deadline, result, severed, probe>>
loopVars == <<loop, accepting, asked, draining, ready, listening, deadline, result,
              severed, probe>>

\* A connection the server has a task for, from accept to the task's end.
Alive == {"handshake", "open", "busy", "body"}
LiveConns == {c \in Conns : conn[c] \in Alive}

Init ==
  /\ loop = "accept"
  /\ slots = MaxConnections
  /\ accepting = FALSE
  /\ conn = [c \in Conns |-> "away"]
  /\ producers = {}
  /\ asked = FALSE /\ draining = FALSE
  /\ ready = TRUE /\ listening = TRUE
  /\ deadline = "off"
  /\ result = "none"
  /\ severed = {}
  /\ probe = IF Probe THEN "up" ELSE "none"

-----------------------------------------------------------------------------
(* The accept loop *)

\* conn_slots.acquire_owned(), before accept(): at the cap nothing is accepted.
AcquireSlot ==
  /\ loop = "accept" /\ ~accepting
  /\ slots > 0
  /\ slots' = slots - 1
  /\ accepting' = TRUE
  /\ UNCHANGED <<loop, conn, producers, asked, draining, ready, listening, deadline,
                 result, severed, probe>>

\* accept() returns: the slot moves into the connection's task.
Accept(c) ==
  /\ loop = "accept" /\ accepting
  /\ conn[c] = "queued"
  /\ conn' = [conn EXCEPT ![c] = IF Tls THEN "handshake" ELSE "open"]
  /\ accepting' = FALSE
  /\ UNCHANGED <<loop, slots, producers, asked, draining, ready, listening, deadline,
                 result, severed, probe>>

\* accept() fails because the client gave up: retry at once.
AcceptAborted(c) ==
  /\ loop = "accept" /\ accepting
  /\ conn[c] = "queued"
  /\ conn' = [conn EXCEPT ![c] = "away"]
  /\ accepting' = FALSE
  /\ slots' = slots + 1
  /\ UNCHANGED <<loop, producers, asked, draining, ready, listening, deadline, result,
                 severed, probe>>

\* accept() fails for want of a resource: the loop pauses, its slot in hand.
AcceptFails ==
  /\ loop = "accept" /\ accepting
  /\ loop' = "backoff"
  /\ UNCHANGED <<slots, accepting, conn, producers, asked, draining, ready, listening,
                 deadline, result, severed, probe>>

\* The pause is over and its slot free again.
BackoffEnds ==
  /\ loop = "backoff"
  /\ loop' = "accept"
  /\ accepting' = FALSE
  /\ slots' = slots + 1
  /\ UNCHANGED <<conn, producers, asked, draining, ready, listening, deadline, result,
                 severed, probe>>

\* Another arm of the select wins: the accept future is dropped, and the slot
\* it may have acquired with it.
DropAccept ==
  /\ accepting' = FALSE
  /\ slots' = IF accepting THEN slots + 1 ELSE slots

\* The reload arm: Server::reload(), which is module Reload.
ReloadArm ==
  /\ loop = "accept"
  /\ accepting
  /\ DropAccept
  /\ UNCHANGED <<loop, conn, producers, asked, draining, ready, listening, deadline,
                 result, severed, probe>>

\* The loop is left: the listener is dropped, clients in its backlog with it,
\* the connections are told to close and the drain deadline starts.
BreakLoop ==
  /\ loop' = "drain"
  /\ listening' = FALSE
  /\ deadline' = "grace"
  /\ conn' = [c \in Conns |-> IF conn[c] = "queued" THEN "away" ELSE conn[c]]

\* Mutant: readiness is left to be cleared once the delay is over.
ShutdownArm_readyDuringDelay ==
  /\ loop = "accept"
  /\ asked /\ ~draining
  /\ DropAccept
  /\ ready' = Delay
  /\ IF Delay
       THEN draining' = TRUE /\ UNCHANGED <<loop, listening, deadline, conn>>
       ELSE BreakLoop /\ UNCHANGED draining
  /\ UNCHANGED <<producers, asked, result, severed, probe>>

\* The shutdown arm: readiness is cleared first; without a delay the loop ends.
ShutdownArm ==
  /\ loop = "accept"
  /\ asked /\ ~draining
  /\ DropAccept
  /\ ready' = FALSE
  /\ IF Delay
       THEN draining' = TRUE /\ UNCHANGED <<loop, listening, deadline, conn>>
       ELSE BreakLoop /\ UNCHANGED draining
  /\ UNCHANGED <<producers, asked, result, severed, probe>>

\* The arm of the readiness delay.
DelayEnds ==
  /\ loop = "accept"
  /\ draining
  /\ DropAccept
  /\ BreakLoop
  /\ UNCHANGED <<ready, producers, asked, draining, result, severed, probe>>

-----------------------------------------------------------------------------
(* The drain *)

\* Mutant: the extension is granted again and again while streams live.
GraceEnds_repeats ==
  /\ loop = "drain"
  /\ deadline = "grace"
  /\ deadline' = IF producers # {} THEN "grace" ELSE "expired"
  /\ UNCHANGED <<loop, slots, accepting, conn, producers, asked, draining, ready,
                 listening, result, severed, probe>>

\* drain_deadline(): the grace period is over; live streams get the rest of the
\* total budget.
GraceEnds ==
  /\ loop = "drain"
  /\ deadline = "grace"
  /\ deadline' = IF producers # {} THEN "extended" ELSE "expired"
  /\ UNCHANGED <<loop, slots, accepting, conn, producers, asked, draining, ready,
                 listening, result, severed, probe>>

ExtensionEnds ==
  /\ loop = "drain"
  /\ deadline = "extended"
  /\ deadline' = "expired"
  /\ UNCHANGED <<loop, slots, accepting, conn, producers, asked, draining, ready,
                 listening, result, severed, probe>>

\* The drain is over; a probe listener of its own is stopped after it.
AfterDrain == IF probe = "up" THEN "probes" ELSE "stopped"

\* Mutant: connections that still shake hands are not waited for.
DrainDone_ignoresHandshakes ==
  /\ loop = "drain"
  /\ \A c \in LiveConns : conn[c] = "handshake"
  /\ result' = "ok"
  /\ loop' = AfterDrain
  /\ UNCHANGED <<slots, accepting, conn, producers, asked, draining, ready, listening,
                 deadline, severed, probe>>

\* graceful.shutdown() resolves: every watched connection has ended.
DrainDone ==
  /\ loop = "drain"
  /\ LiveConns = {}
  /\ result' = "ok"
  /\ loop' = AfterDrain
  /\ UNCHANGED <<slots, accepting, conn, producers, asked, draining, ready, listening,
                 deadline, severed, probe>>

\* The deadline resolves: Error::ShutdownTimeout, connections are cut.
DrainExpires ==
  /\ loop = "drain"
  /\ deadline = "expired"
  /\ result' = "timeout"
  /\ severed' = LiveConns
  /\ loop' = AfterDrain
  /\ UNCHANGED <<slots, accepting, conn, producers, asked, draining, ready, listening,
                 deadline, probe>>

\* stop.send(()): serve_probes() leaves its accept loop and finishes the probe
\* answers in flight.
StopProbes ==
  /\ loop = "probes"
  /\ probe = "up"
  /\ probe' = "stopping"
  /\ UNCHANGED <<loop, slots, accepting, conn, producers, asked, draining, ready,
                 listening, deadline, result, severed>>

\* The probe task ends, or is aborted after a second.
ProbesEnd ==
  /\ loop = "probes"
  /\ probe = "stopping"
  /\ probe' = "down"
  /\ loop' = "stopped"
  /\ UNCHANGED <<slots, accepting, conn, producers, asked, draining, ready, listening,
                 deadline, result, severed>>

-----------------------------------------------------------------------------
(* A connection's task *)

\* The connection ends and the task's slot is released.
End(c) ==
  /\ conn' = [conn EXCEPT ![c] = "away"]
  /\ slots' = slots + 1

\* A response is complete: the connection is kept alive, unless the server is
\* draining ("Connection: close").
KeepAlive(c) ==
  IF listening THEN conn' = [conn EXCEPT ![c] = "open"] /\ UNCHANGED slots
               ELSE End(c)

\* Mutant: the slot is held until the connection is served, so a failed
\* handshake keeps it.
HandshakeFails_leaks(c) ==
  /\ conn[c] = "handshake"
  /\ conn' = [conn EXCEPT ![c] = "away"]
  /\ UNCHANGED <<slots, loopVars, producers>>

\* tls_handshake(): an error, or the handshake deadline.
HandshakeFails(c) ==
  /\ conn[c] = "handshake"
  /\ End(c)
  /\ UNCHANGED <<loopVars, producers>>

HandshakeOk(c) ==
  /\ conn[c] = "handshake"
  /\ conn' = [conn EXCEPT ![c] = "open"]
  /\ UNCHANGED <<slots, loopVars, producers>>

\* Mutant: the watcher is taken after the handshake, so a connection that was
\* shaking hands when the drain began never hears of it.
CloseIdle_lateWatcher(c) ==
  /\ ~listening
  /\ conn[c] = "open" /\ ~Tls
  /\ End(c)
  /\ UNCHANGED <<loopVars, producers>>

\* A connection without a request is closed by the drain, one whose handshake
\* finishes only then included: the watcher was taken at accept time.
CloseIdle(c) ==
  /\ ~listening
  /\ conn[c] = "open"
  /\ End(c)
  /\ UNCHANGED <<loopVars, producers>>

\* A request arrives on a connection that was not told to close.
Request(c) ==
  /\ listening
  /\ conn[c] = "open"
  /\ conn' = [conn EXCEPT ![c] = "busy"]
  /\ UNCHANGED <<slots, loopVars, producers>>

Respond(c) ==
  /\ conn[c] = "busy"
  /\ KeepAlive(c)
  /\ UNCHANGED <<loopVars, producers>>

\* The response streams: its producer is spawned with a stream permit.
RespondStream(c) ==
  /\ conn[c] = "busy"
  /\ c \notin producers
  /\ Cardinality(producers) < MaxStreams
  /\ producers' = producers \cup {c}
  /\ conn' = [conn EXCEPT ![c] = "body"]
  /\ UNCHANGED <<slots, loopVars>>

\* The producer closes the chunk channel and drops its permit and its state.
ProducerEnds(c) ==
  /\ c \in producers
  /\ producers' = producers \ {c}
  /\ UNCHANGED <<slots, loopVars, conn>>

\* The last chunks have been written to the client.
BodySent(c) ==
  /\ conn[c] = "body"
  /\ c \notin producers
  /\ KeepAlive(c)
  /\ UNCHANGED <<loopVars, producers>>

\* The client hangs up; a producer notices when it writes next.
HangUp(c) ==
  /\ conn[c] \in Alive
  /\ End(c)
  /\ UNCHANGED <<loopVars, producers>>

\* A client connects; it waits in the listener's backlog.
Connect(c) ==
  /\ listening
  /\ conn[c] = "away"
  /\ conn' = [conn EXCEPT ![c] = "queued"]
  /\ UNCHANGED <<slots, loopVars, producers>>

\* SIGTERM or SIGINT.
Signal ==
  /\ ~asked
  /\ asked' = TRUE
  /\ UNCHANGED <<loop, slots, accepting, conn, producers, draining, ready, listening,
                 deadline, result, severed, probe>>

-----------------------------------------------------------------------------
LoopStep ==
  \/ AcquireSlot
  \/ \E c \in Conns : Accept(c) \/ AcceptAborted(c)
  \/ AcceptFails
  \/ BackoffEnds
  \/ ReloadArm
  \/ ShutdownArm
  \/ DelayEnds

DrainStep ==
  GraceEnds \/ ExtensionEnds \/ DrainDone \/ DrainExpires \/ StopProbes \/ ProbesEnd

\* What the server does for a connection.
ServeConn(c) ==
  \/ HandshakeOk(c)
  \/ HandshakeFails(c)
  \/ CloseIdle(c)
  \/ Respond(c)
  \/ RespondStream(c)
  \/ BodySent(c)

Next ==
  \/ Signal
  \/ LoopStep
  \/ DrainStep
  \/ \E c \in Conns : ServeConn(c) \/ ProducerEnds(c)
  \/ \E c \in Conns : Request(c) \/ HangUp(c) \/ Connect(c)

Spec == Init /\ [][Next]_vars

(***************************************************************************)
(* Fairness of the loop.  The select macro polls its arms in random order, *)
(* so an arm that is ready again and again is taken: strong fairness, for  *)
(* an accept error's pause keeps the arms from being polled.  The timers   *)
(* of the pause and of the readiness delay fire.                           *)
(***************************************************************************)
LoopFairness == WF_vars(BackoffEnds) /\ SF_vars(ShutdownArm) /\ SF_vars(DelayEnds)

FairSpec == Spec /\ LoopFairness

\* After the loop: the drain's timers fire and its select is polled, with
\* nothing assumed of clients, handlers or streams.
TimersFire == WF_vars(DrainStep)

\* Everybody cooperates: connection tasks and producers run to their end (a
\* handler has its budget, a handshake its deadline) and the drain is polled.
TasksRun ==
  /\ WF_vars(DrainDone)
  /\ \A c \in Conns : WF_vars(ServeConn(c)) /\ WF_vars(ProducerEnds(c))

-----------------------------------------------------------------------------
(* Properties *)

\* Type correctness of the accept loop's state.
TypeOK ==
  /\ loop \in {"accept", "backoff", "drain", "probes", "stopped"}
  /\ slots \in Nat
  /\ accepting \in BOOLEAN
  /\ conn \in [Conns -> Alive \cup {"away", "queued"}]
  /\ producers \subseteq Conns
  /\ asked \in BOOLEAN /\ draining \in BOOLEAN
  /\ ready \in BOOLEAN /\ listening \in BOOLEAN
  /\ deadline \in {"off", "grace", "extended", "expired"}
  /\ result \in {"none", "ok", "timeout"}
  /\ severed \subseteq Conns
  /\ probe \in {"none", "up", "stopping", "down"}

\* Connection slots are conserved: each one is free, in the accept future's
\* hand (through an accept error's pause too) or held by one live connection,
\* whichever way that connection ends.  A leaked slot would lower
\* max_connections for the life of the process.
SlotsConserved ==
  slots + (IF accepting THEN 1 ELSE 0) + Cardinality(LiveConns) = MaxConnections

\* Readiness is withdrawn before anything is refused: while it says ready, the
\* listener accepts and no connection is told to close ("flipping to `false`
\* the instant a graceful drain starts, before any request can fail").
ReadyMeansServing == ready => listening /\ loop \in {"accept", "backoff"} /\ ~draining

\* A clean exit is clean: serve() returns Ok only with no connection left, one
\* whose handshake was under way when the drain began included, and none comes
\* up afterwards.
CleanExitIsClean == result = "ok" => LiveConns = {} /\ severed = {}

\* What the server says of itself is so: while it is ready, and when it ends.
StatusIsHonest == ReadyMeansServing /\ CleanExitIsClean

\* A shutdown ends: whatever clients, handlers, streams, accept errors and
\* probe connections do, serve() returns.
ShutdownEnds == TimersFire => (asked ~> (loop = "stopped"))

\* Unless a deadline cuts it short, a drain ends cleanly once handlers and
\* streams end: no connection misses the news that it is to close.
DrainsCleanly ==
  TasksRun /\ [](deadline # "expired") => ((loop = "drain") ~> (result = "ok"))
=============================================================================
