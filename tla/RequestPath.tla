---------------------------- MODULE RequestPath -----------------------------
(***************************************************************************)
(* The path of a request through crates/nitr-http/src/handler/mod.rs and   *)
(* stream.rs, composed with the runtime pool: protection, routing from the *)
(* pool's shared table, checkout, routing again by a state that compiled   *)
(* another application, the handler call, its error paths, and a streaming *)
(* body that keeps the state and a stream permit after the response.       *)
(*                                                                         *)
(* The pool's actions are those of RuntimePool; every action here is one   *)
(* of them joined with what the handler does, or leaves the pool alone.    *)
(* The client may hang up at every await, which drops the request's future *)
(* where it stands.                                                        *)
(***************************************************************************)
EXTENDS RuntimePool

CONSTANT
  MaxStreams   \* streaming slots (effective_max_streams)

ASSUME StreamsPositive == MaxStreams \in Nat \ {0}

\* The application the pool was built with, and the one on disk after an edit.
Apps == {"built", "edited"}

\* Stages of a request: before it has a state, with a state, and after.
Stateless == {"new", "checkout", "wait", "done", "gone"}
Stateful == {"target", "call", "failed", "errfn", "stream", "unwind"}
Stages == Stateless \cup Stateful

VARIABLES
  shared,    \* the pool carries shared routing (RuntimePool::companion)
  stage,     \* stage[r]: where request r is
  routed,    \* requests routed by the shared table ("routed_in_rust")
  chain,     \* chain[r]: the application whose handler chain r runs
  spent,     \* spent[r][a]: how often r was counted by a's route limit
  spool,     \* requests whose upload directory exists
  streams,   \* requests that hold a stream permit
  leftover,  \* slots whose state has a cut-off call's coroutine suspended in it
  app,       \* app[s]: the application compiled in slot s
  script     \* the application on disk

pathVars == <<stage, routed, chain, spent, spool, streams, leftover, app,
              script>>
moving == <<vars, pathVars>>  \* all but the companion, which never changes
allVars == <<moving, shared>>

Unspent == [a \in Apps |-> 0]

\* app::routing() of the first state may fail: the pool is built without it.
PathInit ==
  /\ Init
  /\ shared \in BOOLEAN
  /\ stage = [r \in Requests |-> "new"]
  /\ routed = {}
  /\ chain = [r \in Requests |-> "built"]
  /\ spent = [r \in Requests |-> Unspent]
  /\ spool = {}
  /\ streams = {}
  /\ leftover = {}
  /\ app = [s \in Slots |-> "built"]
  /\ script = "built"

Goto(r, p) == stage' = [stage EXCEPT ![r] = p]

\* limit.check(&req) of a route of application a.
Spend(r, a) == spent' = [spent EXCEPT ![r][a] = @ + 1]

\* The state r holds compiled the route set the shared table was built from.
FingerprintMatches(r) == app[held[r]] = "built"

-----------------------------------------------------------------------------
(* Before a state is checked out *)

\* Answered without a state: protection, preflight, document, static file,
\* OPTIONS, 404 or 405 from the shared table.
AnswerEarly(r) ==
  /\ stage[r] = "new"
  /\ Goto(r, "done")
  /\ UNCHANGED <<vars, routed, chain, spent, spool, streams, leftover, app, script>>

\* The shared table has the route: its limit is checked here, and refuses the
\* request or lets it on.
RouteShared(r) ==
  /\ shared
  /\ stage[r] = "new"
  /\ Spend(r, "built")
  /\ Goto(r, "checkout") \/ Goto(r, "done")
  /\ routed' = routed \cup {r}
  /\ UNCHANGED <<vars, chain, spool, streams, leftover, app, script>>

\* A pool without shared routing routes in the state.
RouteLater(r) ==
  /\ ~shared
  /\ stage[r] = "new"
  /\ Goto(r, "checkout")
  /\ UNCHANGED <<vars, routed, chain, spent, spool, streams, leftover, app,
                 script>>

TakeState(r) ==
  /\ stage[r] = "checkout"
  /\ CheckoutHit(r)
  /\ Goto(r, "target")
  /\ UNCHANGED <<routed, chain, spent, spool, streams, leftover, app, script>>

Queue(r) ==
  /\ stage[r] = "checkout"
  /\ CheckoutWait(r)
  /\ Goto(r, "wait")
  /\ UNCHANGED <<routed, chain, spent, spool, streams, leftover, app, script>>

\* A woken waiter gets a state, or finds none and goes on waiting.
Woken(r) ==
  /\ \/ WakeHit(r) /\ Goto(r, "target")
     \/ WakeMiss(r) /\ UNCHANGED stage
  /\ UNCHANGED <<routed, chain, spent, spool, streams, leftover, app, script>>

\* Mutant: get() instead of get_timeout(), a wait that is cut short only by the
\* state it waits for.
TimeUp_unbounded(r) ==
  /\ Expire(r)
  /\ held'[r] # None
  /\ Goto(r, "target")
  /\ UNCHANGED <<routed, chain, spent, spool, streams, leftover, app, script>>

\* The pool wait runs out: the request is shed with a 503, unless a state came
\* back at the last moment.
TimeUp(r) ==
  /\ Expire(r)
  /\ Goto(r, IF held'[r] = None THEN "done" ELSE "target")
  /\ UNCHANGED <<routed, chain, spent, spool, streams, leftover, app, script>>

HangUpWaiting(r) ==
  /\ Cancel(r)
  /\ Goto(r, "gone")
  /\ UNCHANGED <<routed, chain, spent, spool, streams, leftover, app, script>>

-----------------------------------------------------------------------------
(* With a state *)

\* The guard is dropped: a recycled state takes whatever lives in it along, a
\* returned one keeps the suspended coroutines.
DropState(r, coroutines) ==
  \/ DropReturn(r) /\ leftover' = coroutines
  \/ DropRecycle(r) /\ leftover' = coroutines \ {held[r]}

\* Mutant: the limit is checked again although the shared table did so.
TargetChain_spendsAgain(r) ==
  /\ stage[r] = "target"
  /\ chain' = [chain EXCEPT ![r] = app[held[r]]]
  /\ Spend(r, app[held[r]])
  /\ Goto(r, "call")
  /\ spool' \in {spool, spool \cup {r}}
  /\ UNCHANGED <<vars, routed, streams, leftover, app, script>>

\* routed_chain() or, without shared routing or with another fingerprint,
\* resolve() finds the chain.  Its limit is checked unless the request was
\* routed by the shared table; then the request moves into the state and an
\* upload directory is made when the route needs one.
TargetChain(r) ==
  /\ stage[r] = "target"
  /\ chain' = [chain EXCEPT ![r] = app[held[r]]]
  /\ IF r \in routed THEN UNCHANGED spent ELSE Spend(r, app[held[r]])
  /\ Goto(r, "call")
  /\ spool' \in {spool, spool \cup {r}}
  /\ UNCHANGED <<vars, routed, streams, leftover, app, script>>

\* The state answers without a handler: a routing error, its own static files,
\* 404, 405, OPTIONS, a refused limit, an unsupported media type.
TargetAnswered(r) ==
  /\ stage[r] = "target"
  /\ \/ UNCHANGED spent
     \/ r \notin routed /\ Spend(r, app[held[r]])
  /\ DropState(r, leftover)
  /\ Goto(r, "done")
  /\ UNCHANGED <<routed, chain, spool, streams, app, script>>

\* The client hangs up while resolve() looks for a static file.
HangUpResolving(r) ==
  /\ stage[r] = "target"
  /\ ~(r \in routed /\ FingerprintMatches(r))
  /\ DropState(r, leftover)
  /\ Goto(r, "gone")
  /\ UNCHANGED <<routed, chain, spent, spool, streams, app, script>>

\* The handler returned a response that is no stream, valid or not, or a stream
\* that is refused: no permit is free (503) or its head is invalid.
CallPlain(r) ==
  /\ stage[r] = "call"
  /\ DropState(r, leftover)
  /\ Goto(r, "done")
  /\ spool' = spool \ {r}
  /\ UNCHANGED <<routed, chain, spent, streams, app, script>>

\* Mutant: the cap on streams is not enforced.
CallStream_uncapped(r) ==
  /\ stage[r] = "call"
  /\ streams' = streams \cup {r}
  /\ Goto(r, "stream")
  /\ spool' = spool \ {r}
  /\ UNCHANGED <<vars, routed, chain, spent, leftover, app, script>>

\* The handler returned a body function and a permit is free: guard and permit
\* move into the producer task, and the upload directory goes.
CallStream(r) ==
  /\ stage[r] = "call"
  /\ Cardinality(streams) < MaxStreams
  /\ streams' = streams \cup {r}
  /\ Goto(r, "stream")
  /\ spool' = spool \ {r}
  /\ UNCHANGED <<vars, routed, chain, spent, leftover, app, script>>

\* The call ended in an error, which may be one that poisons the state.
CallFails(r) ==
  /\ stage[r] = "call"
  /\ Poison(r) \/ UNCHANGED vars
  /\ Goto(r, "failed")
  /\ UNCHANGED <<routed, chain, spent, spool, streams, leftover, app, script>>

\* The call ran out of its budget: the coroutine is reset and the state
\* collected, whatever an earlier call left in it included.
CallTimesOut(r) ==
  /\ stage[r] = "call"
  /\ leftover' = leftover \ {held[r]}
  /\ Goto(r, "failed")
  /\ UNCHANGED <<vars, routed, chain, spent, spool, streams, app, script>>

\* A body or upload limit (413, 408), an error page, an error value that cannot
\* be made, or, from "errfn", the error handler's answer.
FailAnswered(r) ==
  /\ stage[r] \in {"failed", "errfn"}
  /\ DropState(r, leftover)
  /\ Goto(r, "done")
  /\ spool' = spool \ {r}
  /\ UNCHANGED <<routed, chain, spent, streams, app, script>>

\* The application's error handler is called on the same state, poisoned or
\* not; it can fail the same way.
FailToErrorFn(r) ==
  /\ stage[r] = "failed"
  /\ Goto(r, "errfn")
  /\ UNCHANGED <<vars, routed, chain, spent, spool, streams, leftover, app,
                 script>>

ErrorFnPoisons(r) ==
  /\ stage[r] = "errfn"
  /\ Poison(r)
  /\ UNCHANGED pathVars

\* The client hangs up: the call's future is dropped, the coroutine stays in
\* the state, suspended, until a collection, and the guard is dropped.
HangUpCalling(r) ==
  /\ stage[r] \in {"call", "errfn"}
  /\ DropState(r, leftover \cup {held[r]})
  /\ Goto(r, "gone")
  /\ spool' = spool \ {r}
  /\ UNCHANGED <<routed, chain, spent, streams, app, script>>

\* A collection cycle runs in a state that is running Lua (the one forced when
\* the error handler runs out of its budget included).
Collect(r) ==
  /\ stage[r] \in {"call", "errfn", "stream"}
  /\ leftover' = leftover \ {held[r]}
  /\ UNCHANGED <<vars, stage, routed, chain, spent, spool, streams, app, script>>

-----------------------------------------------------------------------------
(* The streaming producer, and panics *)

\* Mutant: the producer task ends without dropping its guard.
StreamEnds_forgets(r) ==
  /\ stage[r] = "stream"
  /\ held' = [held EXCEPT ![r] = None]
  /\ streams' = streams \ {r}
  /\ Goto(r, "done")
  /\ UNCHANGED <<idle, waiting, woken, poisoned, unwinding, rebuilding, lost,
                 refused, damaged, routed, chain, spent, spool, leftover,
                 app, script>>

\* Mutant: the permit is not tied to the producer's lifetime.
StreamEnds_keepsPermit(r) ==
  /\ stage[r] = "stream"
  /\ DropState(r, leftover)
  /\ Goto(r, "done")
  /\ UNCHANGED <<streams, routed, chain, spent, spool, app, script>>

\* The body function is done, failed, or its client is gone: the channel is
\* closed, permit and guard are dropped.
StreamEnds(r) ==
  /\ stage[r] = "stream"
  /\ DropState(r, leftover)
  /\ streams' = streams \ {r}
  /\ Goto(r, "done")
  /\ UNCHANGED <<routed, chain, spent, spool, app, script>>

StreamPoisons(r) ==
  /\ stage[r] = "stream"
  /\ Poison(r)
  /\ UNCHANGED pathVars

\* A bug panics, in the request's future or in the producer task.
Panics(r) ==
  /\ stage[r] \in Stateful \ {"unwind"}
  /\ Panic(r)
  /\ Goto(r, "unwind")
  /\ UNCHANGED <<routed, chain, spent, spool, streams, leftover, app, script>>

\* The unwind drops what the request held; handle() answers 500.
Unwound(r) ==
  /\ stage[r] = "unwind"
  /\ DropState(r, leftover)
  /\ Goto(r, "done")
  /\ spool' = spool \ {r}
  /\ streams' = streams \ {r}
  /\ UNCHANGED <<routed, chain, spent, app, script>>

-----------------------------------------------------------------------------
(* The outside and the rebuild job *)

\* Svc::call(): a client sends its next request.
NextRequest(r) ==
  /\ stage[r] \in {"done", "gone"}
  /\ Goto(r, "new")
  /\ routed' = routed \ {r}
  /\ chain' = [chain EXCEPT ![r] = "built"]
  /\ spent' = [spent EXCEPT ![r] = Unspent]
  /\ UNCHANGED <<vars, spool, streams, leftover, app, script>>

\* The handler script is edited on disk.
Edit ==
  /\ script = "built"
  /\ script' = "edited"
  /\ UNCHANGED <<vars, stage, routed, chain, spent, spool, streams, leftover,
                 app>>

\* The rebuild job compiles the script that is on disk now.
Rebuild(s) ==
  /\ \/ RebuildOk(s) /\ app' = [app EXCEPT ![s] = script]
     \/ RebuildFail(s) /\ UNCHANGED app
  /\ UNCHANGED <<stage, routed, chain, spent, spool, streams, leftover, script>>

-----------------------------------------------------------------------------
\* What the server does for request r.
ServeStep(r) ==
  \/ AnswerEarly(r)
  \/ RouteShared(r)
  \/ RouteLater(r)
  \/ TakeState(r)
  \/ Queue(r)
  \/ TargetChain(r)
  \/ TargetAnswered(r)
  \/ CallPlain(r)
  \/ CallStream(r)
  \/ CallFails(r)
  \/ CallTimesOut(r)
  \/ FailAnswered(r)
  \/ FailToErrorFn(r)
  \/ Unwound(r)

\* What may happen to it at any time.
MayStep(r) ==
  \/ HangUpWaiting(r)
  \/ HangUpResolving(r)
  \/ HangUpCalling(r)
  \/ Collect(r)
  \/ ErrorFnPoisons(r)
  \/ StreamEnds(r)
  \/ StreamPoisons(r)
  \/ Panics(r)
  \/ NextRequest(r)

PathNext ==
  /\ \/ \E r \in Requests : ServeStep(r) \/ MayStep(r) \/ Woken(r) \/ TimeUp(r)
     \/ \E s \in Slots : Rebuild(s)
     \/ Edit
  /\ UNCHANGED shared

PathSpec == PathInit /\ [][PathNext]_allVars

(***************************************************************************)
(* Fairness: the executor polls a request that can go on, wakeups and the  *)
(* wait's timer included; a handler ends because of its execution budget;  *)
(* the blocking worker runs the rebuild.  A stream may last for ever and   *)
(* nobody is obliged to send, to hang up, to edit, to panic or to collect. *)
(***************************************************************************)
PathFairness ==
  /\ \A r \in Requests :
       WF_moving(ServeStep(r)) /\ WF_moving(Woken(r)) /\ WF_moving(TimeUp(r))
  /\ \A s \in Slots : WF_moving(Rebuild(s))

PathFairSpec == PathSpec /\ PathFairness

-----------------------------------------------------------------------------
(* Properties *)

\* Type correctness of the request path's own state.
PathTypeOK ==
  /\ shared \in BOOLEAN
  /\ stage \in [Requests -> Stages]
  /\ routed \subseteq Requests
  /\ chain \in [Requests -> Apps]
  /\ spent \in [Requests -> [Apps -> 0..2]]
  /\ spool \subseteq Requests
  /\ streams \subseteq Requests
  /\ leftover \subseteq Slots
  /\ app \in [Slots -> Apps]
  /\ script \in Apps

\* However a request ends (answered, shed, hung up on, panicked), it keeps no
\* state, no place in the pool's queue, no stream permit and no upload
\* directory; and one that has a state holds exactly one.
EndedHoldsNothing ==
  \A r \in Requests :
    /\ (held[r] # None) <=> stage[r] \in Stateful
    /\ (r \in waiting) <=> stage[r] = "wait"
    /\ r \in streams => stage[r] \in {"stream", "unwind"}
    /\ r \in spool => stage[r] \in {"call", "failed", "errfn", "unwind"}

\* At most max_streams states serve streams at a time: a producer has its
\* permit for as long as it has its state.
StreamsWithinCap ==
  /\ \A r \in Requests : stage[r] = "stream" => r \in streams
  /\ Cardinality({r \in Requests : stage[r] = "stream"}) <= MaxStreams

\* Whatever a request takes it gives back, and streams never take all.
NothingIsKept == EndedHoldsNothing /\ StreamsWithinCap

\* A request is counted by one route limit at most once, although both the
\* shared table and the state that serves it know the route.
LimitSpentOnce ==
  \A r \in Requests :
    /\ \A a \in Apps : spent[r][a] <= 1
    /\ \E a \in Apps : spent[r][a] = 0

\* Every request is answered, begins to stream or is gone, whatever streams
\* and failed rebuilds hold: the wait for a state is the only queue.
EveryRequestAnswered ==
  \A r \in Requests : (stage[r] = "new") ~> (stage[r] \in {"stream", "done", "gone"})

\* The handler uses the pool as the pool allows: every step is a step of the
\* pool's specification or leaves the pool alone.
UsesThePool == Spec

\* A handler runs only after its route's limit was checked ("The routed path
\* spent the route's limit before checkout").
LimitSpentBeforeCall ==
  \A r \in Requests : stage[r] = "call" => spent[r][chain[r]] > 0

\* No call starts in a state "with the previous one's work still in flight".
CallStartsClean ==
  [][\A r \in Requests :
       stage[r] = "target" /\ stage'[r] = "call" => held[r] \notin leftover]_allVars
=============================================================================
