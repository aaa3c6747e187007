------------------------- MODULE RequestPath_proofs -------------------------
(***************************************************************************)
(* Proofs about RequestPath.  The request path implements the pool's       *)
(* specification, so what RuntimePool_proofs shows of the pool holds of    *)
(* the composition; on top of the pool's types, the path's own invariants  *)
(* are inductive.                                                          *)
(***************************************************************************)
EXTENDS RequestPath, RuntimePool_proofs

\* A dropped guard is one of the pool's two drops.
LEMMA DropIsPoolStep ==
  ASSUME NEW r \in Requests, NEW c, DropState(r, c)
  PROVE  Next
<1> QED BY DEF DropState, Next, UseStep

LEMMA ServeIsPoolStep ==
  ASSUME NEW r \in Requests, ServeStep(r) PROVE [Next]_vars
<1>1. CASE TakeState(r) \/ Queue(r)
  BY <1>1 DEF TakeState, Queue, Next, CheckoutStep
<1>2. CASE TargetAnswered(r) \/ CallPlain(r)
           \/ FailAnswered(r) \/ Unwound(r)
  BY <1>2, DropIsPoolStep
  DEF TargetAnswered, CallPlain, FailAnswered, Unwound
<1>3. CASE CallFails(r)
  BY <1>3 DEF CallFails, Next, UseStep
<1>4. CASE AnswerEarly(r) \/ RouteShared(r) \/ RouteLater(r) \/ TargetChain(r)
           \/ CallStream(r) \/ CallTimesOut(r) \/ FailToErrorFn(r)
  BY <1>4 DEF AnswerEarly, RouteShared, RouteLater, TargetChain, CallStream,
              CallTimesOut, FailToErrorFn
<1> QED BY <1>1, <1>2, <1>3, <1>4 DEF ServeStep

LEMMA MayIsPoolStep ==
  ASSUME NEW r \in Requests, MayStep(r) PROVE [Next]_vars
<1>1. CASE HangUpWaiting(r)
  BY <1>1 DEF HangUpWaiting, Next, CheckoutStep
<1>2. CASE HangUpResolving(r) \/ HangUpCalling(r) \/ StreamEnds(r)
  BY <1>2, DropIsPoolStep DEF HangUpResolving, HangUpCalling, StreamEnds
<1>3. CASE ErrorFnPoisons(r) \/ StreamPoisons(r) \/ Panics(r)
  BY <1>3 DEF ErrorFnPoisons, StreamPoisons, Panics, Next, UseStep
<1>4. CASE Collect(r) \/ NextRequest(r)
  BY <1>4 DEF Collect, NextRequest
<1> QED BY <1>1, <1>2, <1>3, <1>4 DEF MayStep

LEMMA PathIsPoolStep == [PathNext]_allVars => [Next]_vars
<1> SUFFICES ASSUME [PathNext]_allVars PROVE [Next]_vars
  OBVIOUS
<1>1. ASSUME NEW r \in Requests, Woken(r) \/ TimeUp(r) PROVE [Next]_vars
  BY <1>1 DEF Woken, TimeUp, Next, CheckoutStep
<1>2. ASSUME NEW s \in Slots, Rebuild(s) PROVE [Next]_vars
  BY <1>2 DEF Rebuild, Next, RebuildStep
<1>3. CASE Edit
  BY <1>3 DEF Edit
<1>4. CASE UNCHANGED allVars
  BY <1>4 DEF allVars, moving
<1> QED BY <1>1, <1>2, <1>3, <1>4, ServeIsPoolStep, MayIsPoolStep DEF PathNext

\* Every behaviour of the request path is a behaviour of the runtime pool: the
\* handler checks states out and gives them back only as the pool provides.
THEOREM PathUsesThePool == PathSpec => UsesThePool
<1>1. PathInit => Init
  BY DEF PathInit
<1> QED BY <1>1, PathIsPoolStep, PTL DEF PathSpec, UsesThePool, Spec

\* No two requests and streams ever run in one Lua state.
THEOREM PathExclusiveUse == PathSpec => []Exclusive
<1> QED BY PathUsesThePool, ExclusiveUse, PTL DEF UsesThePool

\* No way to end a request leaks a state.
THEOREM PathCapacityConserved == PathSpec => []Conserved
<1> QED BY PathUsesThePool, CapacityConserved, PTL DEF UsesThePool

\* The pool's safety in the composed system: no Lua state is shared, lost or
\* handed on damaged, whatever becomes of requests.
THEOREM PathPoolSafety == PathSpec => []PoolIsSafe
<1> QED BY PathUsesThePool, PoolSafety, PTL DEF UsesThePool

-----------------------------------------------------------------------------
(* The path's own invariants *)

\* What a request may have been counted for before its handler is called: it
\* is counted before checkout exactly if the shared table routed it.
CountedByStage ==
  \A r \in Requests :
    /\ stage[r] = "new" => r \notin routed
    /\ r \notin routed /\ stage[r] \in {"new", "checkout", "wait", "target"} =>
         spent[r] = Unspent

\* Permits are counted, and a producer has one.
PermitsCounted ==
  /\ IsFiniteSet(streams)
  /\ Cardinality(streams) <= MaxStreams
  /\ \A r \in Requests : stage[r] = "stream" => r \in streams

PInv ==
  PathTypeOK /\ EndedHoldsNothing /\ CountedByStage /\ LimitSpentOnce /\ PermitsCounted

LEMMA PathInitInv == PathInit => PInv
<1> SUFFICES ASSUME PathInit PROVE PInv
  OBVIOUS
<1>1. IsFiniteSet({}) /\ Cardinality({}) = 0
  BY FS_EmptySet
<1>2. PathTypeOK
  BY DEF PathInit, PathTypeOK, Stages, Stateless, Apps, Unspent
<1>3. EndedHoldsNothing
  BY DEF PathInit, Init, EndedHoldsNothing, Stateful
<1>4. CountedByStage /\ LimitSpentOnce
  BY DEF PathInit, CountedByStage, LimitSpentOnce, Unspent, Apps
<1>5. PermitsCounted
  BY <1>1, StreamsPositive DEF PathInit, PermitsCounted
<1> QED BY <1>2, <1>3, <1>4, <1>5 DEF PInv

\* Taking a state from the channel puts a slot into r's guard and no other.
LEMMA ReceiveEffect ==
  ASSUME TypeOK, NEW r \in Requests, Receive(r)
  PROVE  /\ held'[r] # None
         /\ \A q \in Requests : q # r => held'[q] = held[q]
<1>1. Head(idle) \in Slots
  BY HeadTailProperties DEF Receive, TypeOK
<1> QED BY <1>1, NoneIsNoSlot DEF Receive, TypeOK

\* Dropping a guard empties it and touches no other.
LEMMA DropEffect ==
  ASSUME TypeOK, NEW r \in Requests, NEW c, DropState(r, c)
  PROVE  /\ held' = [held EXCEPT ![r] = None]
         /\ held[r] # None
         /\ waiting' = waiting
         /\ leftover' \in {c, c \ {held[r]}}
<1> QED BY DEF DropState, DropReturn, DropRecycle

LEMMA ServeEnded ==
  ASSUME TypeOK, PathTypeOK, EndedHoldsNothing, NEW r \in Requests, ServeStep(r)
  PROVE  EndedHoldsNothing'
<1>1. CASE TakeState(r) \/ Queue(r)
  <2>1. CASE TakeState(r)
    <3>1. Receive(r)
      BY <2>1 DEF TakeState, CheckoutHit
    <3> QED BY <2>1, <3>1, ReceiveEffect
        DEF TakeState, CheckoutHit, Goto, EndedHoldsNothing, Stateful, PathTypeOK
  <2>2. CASE Queue(r)
    BY <2>2 DEF Queue, CheckoutWait, Goto, EndedHoldsNothing, Stateful, PathTypeOK
  <2> QED BY <1>1, <2>1, <2>2
<1>2. CASE TargetAnswered(r) \/ CallPlain(r)
           \/ FailAnswered(r) \/ Unwound(r)
  <2>1. /\ stage[r] \in Stateful \ {"stream"}
        /\ stage' = [stage EXCEPT ![r] = "done"]
        /\ streams' \in {streams, streams \ {r}}
        /\ stage[r] = "unwind" => streams' = streams \ {r}
        /\ spool' \in {spool, spool \ {r}}
        /\ stage[r] # "target" => spool' = spool \ {r}
    BY <1>2 DEF TargetAnswered, CallPlain, FailAnswered,
       Unwound, Goto, Stateful
  <2>2. held' = [held EXCEPT ![r] = None] /\ waiting' = waiting
    BY <1>2, DropEffect DEF TargetAnswered, CallPlain, FailAnswered, Unwound
  <2> QED BY <2>1, <2>2 DEF EndedHoldsNothing, Stateful, TypeOK, PathTypeOK
<1>3. CASE AnswerEarly(r) \/ RouteShared(r) \/ RouteLater(r) \/ TargetChain(r)
           \/ CallStream(r) \/ CallTimesOut(r) \/ FailToErrorFn(r) \/ CallFails(r)
  <2>1. held' = held /\ waiting' = waiting
    BY <1>3 DEF AnswerEarly, RouteShared, RouteLater, TargetChain, CallStream,
       CallTimesOut, FailToErrorFn, CallFails, Poison, vars
  <2>2. \/ /\ stage[r] = "new" /\ streams' = streams /\ spool' = spool
           /\ \E p \in {"checkout", "done"} : stage' = [stage EXCEPT ![r] = p]
        \/ /\ stage[r] = "target" /\ streams' = streams
           /\ spool' \in {spool, spool \cup {r}}
           /\ stage' = [stage EXCEPT ![r] = "call"]
        \/ /\ stage[r] = "call" /\ streams' = streams \cup {r}
           /\ spool' = spool \ {r}
           /\ stage' = [stage EXCEPT ![r] = "stream"]
        \/ /\ stage[r] \in {"call", "failed"} /\ streams' = streams /\ spool' = spool
           /\ \E p \in {"failed", "errfn"} : stage' = [stage EXCEPT ![r] = p]
    BY <1>3 DEF AnswerEarly, RouteShared, RouteLater, TargetChain, CallStream,
       CallTimesOut, FailToErrorFn, CallFails, Goto
  <2> QED BY <2>1, <2>2 DEF EndedHoldsNothing, Stateful, PathTypeOK
<1> QED BY <1>1, <1>2, <1>3 DEF ServeStep

LEMMA MayEnded ==
  ASSUME TypeOK, PathTypeOK, EndedHoldsNothing, NEW r \in Requests, MayStep(r)
  PROVE  EndedHoldsNothing'
<1>1. CASE HangUpWaiting(r)
  BY <1>1 DEF HangUpWaiting, Cancel, Leave, Goto, EndedHoldsNothing, Stateful,
     PathTypeOK
<1>2. CASE HangUpResolving(r) \/ HangUpCalling(r) \/ StreamEnds(r)
  <2>1. /\ stage[r] \in {"target", "call", "errfn", "stream"}
        /\ \E p \in {"gone", "done"} : stage' = [stage EXCEPT ![r] = p]
        /\ streams' \in {streams, streams \ {r}}
        /\ stage[r] = "stream" => streams' = streams \ {r}
        /\ spool' \in {spool, spool \ {r}}
        /\ stage[r] \in {"call", "errfn"} => spool' = spool \ {r}
    BY <1>2 DEF HangUpResolving, HangUpCalling, StreamEnds, Goto
  <2>2. held' = [held EXCEPT ![r] = None] /\ waiting' = waiting
    BY <1>2, DropEffect DEF HangUpResolving, HangUpCalling, StreamEnds
  <2> QED BY <2>1, <2>2 DEF EndedHoldsNothing, Stateful, TypeOK, PathTypeOK
<1>3. CASE Collect(r) \/ ErrorFnPoisons(r) \/ StreamPoisons(r)
  BY <1>3 DEF Collect, ErrorFnPoisons, StreamPoisons, Poison, vars, pathVars,
     EndedHoldsNothing
<1>4. CASE Panics(r) \/ NextRequest(r)
  <2>1. held' = held /\ waiting' = waiting
    BY <1>4 DEF Panics, NextRequest, Panic, vars
  <2> QED BY <1>4, <2>1 DEF Panics, NextRequest, Goto, EndedHoldsNothing, Stateful,
          PathTypeOK
<1> QED BY <1>1, <1>2, <1>3, <1>4 DEF MayStep

LEMMA WaitEnded ==
  ASSUME TypeOK, PathTypeOK, EndedHoldsNothing, NEW r \in Requests,
         Woken(r) \/ TimeUp(r)
  PROVE  EndedHoldsNothing'
<1>1. r \in waiting /\ stage[r] = "wait" /\ held[r] = None
  BY DEF Woken, TimeUp, WakeHit, WakeMiss, Expire, TypeOK, EndedHoldsNothing, Stateful
<1>2. streams' = streams /\ spool' = spool
  BY DEF Woken, TimeUp
<1>3. CASE Receive(r) /\ Leave(r) /\ Goto(r, "target")
  BY <1>1, <1>2, <1>3, ReceiveEffect DEF Leave, Goto, EndedHoldsNothing, Stateful,
     PathTypeOK
<1>4. CASE UNCHANGED <<held, waiting, stage>>
  BY <1>2, <1>4 DEF EndedHoldsNothing
<1>5. CASE held' = held /\ Leave(r) /\ Goto(r, "done")
  BY <1>1, <1>2, <1>5 DEF Leave, Goto, EndedHoldsNothing, Stateful, PathTypeOK
<1>6. CASE Woken(r)
  BY <1>3, <1>4, <1>6 DEF Woken, WakeHit, WakeMiss
<1>7. CASE TimeUp(r)
  <2>1. CASE Receive(r)
    BY <1>3, <1>7, <2>1, ReceiveEffect DEF TimeUp, Expire
  <2>2. CASE UNCHANGED <<idle, held>>
    BY <1>1, <1>5, <1>7, <2>2 DEF TimeUp, Expire
  <2> QED BY <1>7, <2>1, <2>2 DEF TimeUp, Expire
<1> QED BY <1>6, <1>7

\* Stepping r's program counter keeps the counters of the other requests.
LEMMA ServeCounted ==
  ASSUME TypeOK, PInv, NEW r \in Requests, ServeStep(r)
  PROVE  /\ CountedByStage' /\ LimitSpentOnce'
         /\ spent' \in [Requests -> [Apps -> 0..2]]
<1> USE DEF PInv
<1>1. CASE RouteShared(r)
  <2>1. /\ stage[r] = "new" /\ spent[r] = Unspent
        /\ spent' = [spent EXCEPT ![r]["built"] = spent[r]["built"] + 1]
        /\ routed' = routed \cup {r}
        /\ \E p \in {"checkout", "done"} : stage' = [stage EXCEPT ![r] = p]
    BY <1>1 DEF RouteShared, Spend, Goto, CountedByStage
  <2>2. /\ spent'[r]["built"] = 1 /\ spent'[r]["edited"] = 0
        /\ \A q \in Requests : q # r => spent'[q] = spent[q]
        /\ spent' \in [Requests -> [Apps -> 0..2]]
    BY <2>1 DEF Unspent, Apps, PathTypeOK
  <2>3. LimitSpentOnce'
    BY <2>2 DEF LimitSpentOnce, Apps
  <2>4. CountedByStage'
    BY <2>1, <2>2 DEF CountedByStage, PathTypeOK
  <2> QED BY <2>2, <2>3, <2>4
<1>2. CASE /\ TargetChain(r) \/ TargetAnswered(r)
           /\ spent' # spent
  <2>1. /\ stage[r] = "target" /\ r \notin routed /\ Spend(r, app[held[r]])
        /\ routed' = routed
        /\ \E p \in {"call", "done"} : stage' = [stage EXCEPT ![r] = p]
    BY <1>2 DEF TargetChain, TargetAnswered, Goto
  <2>2. held[r] \in Slots
    BY <2>1 DEF EndedHoldsNothing, Stateful, TypeOK
  <2>3. PICK a \in Apps : app[held[r]] = a
    BY <2>2 DEF PathTypeOK
  <2>4. /\ spent[r] = Unspent
        /\ spent' = [spent EXCEPT ![r][a] = spent[r][a] + 1]
    BY <2>1, <2>3 DEF Spend, CountedByStage
  <2>5. /\ spent'[r][a] = 1 /\ \A b \in Apps : b # a => spent'[r][b] = 0
        /\ \A q \in Requests : q # r => spent'[q] = spent[q]
        /\ spent' \in [Requests -> [Apps -> 0..2]]
    BY <2>4 DEF Unspent, PathTypeOK
  <2>6. LimitSpentOnce'
    BY <2>5 DEF LimitSpentOnce, Apps
  <2>7. CountedByStage'
    BY <2>1, <2>5 DEF CountedByStage, PathTypeOK
  <2> QED BY <2>5, <2>6, <2>7
<1>3. CASE spent' = spent /\ ~RouteShared(r)
  <2>1. /\ routed' = routed
        /\ \E p \in Stages \ {"new"} : stage' = [stage EXCEPT ![r] = p]
        /\ stage'[r] \in {"checkout", "wait", "target"} =>
             stage[r] \in {"new", "checkout"}
    BY <1>3 DEF ServeStep, AnswerEarly, RouteLater, TakeState, Queue, TargetChain,
       TargetAnswered, CallPlain, CallStream, CallFails,
       CallTimesOut, FailAnswered, FailToErrorFn, Unwound, Goto,
       Stages, Stateless, Stateful, PathTypeOK
  <2>2. CountedByStage'
    BY <1>3, <2>1 DEF CountedByStage, PathTypeOK
  <2> QED BY <1>3, <2>2 DEF LimitSpentOnce, PathTypeOK
<1>4. spent' = spent \/ RouteShared(r) \/ TargetChain(r) \/ TargetAnswered(r)
  BY DEF ServeStep, AnswerEarly, RouteLater, TakeState, Queue, CallPlain, CallStream,
     CallFails, CallTimesOut, FailAnswered,
     FailToErrorFn, Unwound
<1> QED BY <1>1, <1>2, <1>3, <1>4

LEMMA OtherCounted ==
  ASSUME TypeOK, PInv, NEW r \in Requests, MayStep(r) \/ Woken(r) \/ TimeUp(r)
  PROVE  /\ CountedByStage' /\ LimitSpentOnce'
         /\ spent' \in [Requests -> [Apps -> 0..2]]
<1> USE DEF PInv
<1>1. CASE NextRequest(r)
  <2>1. /\ spent' = [spent EXCEPT ![r] = Unspent] /\ routed' = routed \ {r}
        /\ stage' = [stage EXCEPT ![r] = "new"]
    BY <1>1 DEF NextRequest, Goto
  <2>2. spent' \in [Requests -> [Apps -> 0..2]]
    BY <2>1 DEF Unspent, PathTypeOK
  <2>3. LimitSpentOnce'
    BY <2>1 DEF LimitSpentOnce, Unspent, Apps, PathTypeOK
  <2>4. CountedByStage'
    BY <2>1 DEF CountedByStage, PathTypeOK
  <2> QED BY <2>2, <2>3, <2>4
<1>2. CASE ~NextRequest(r)
  <2>1. spent' = spent /\ routed' = routed
    BY <1>2 DEF MayStep, HangUpWaiting, HangUpResolving, HangUpCalling, Collect,
       ErrorFnPoisons, StreamEnds, StreamPoisons, Panics, Woken, TimeUp, pathVars
  <2>2. Woken(r) \/ TimeUp(r) => stage[r] = "wait"
    BY DEF Woken, TimeUp, WakeHit, WakeMiss, Expire, TypeOK, EndedHoldsNothing
  <2>3. \/ stage' = stage
        \/ \E p \in {"gone", "done", "unwind"} : stage' = [stage EXCEPT ![r] = p]
        \/ stage[r] = "wait" /\ stage' = [stage EXCEPT ![r] = "target"]
    BY <1>2, <2>2 DEF MayStep, HangUpWaiting, HangUpResolving, HangUpCalling, Collect,
       ErrorFnPoisons, StreamEnds, StreamPoisons, Panics, Woken, TimeUp, pathVars, Goto
  <2>4. CountedByStage'
    BY <2>1, <2>3 DEF CountedByStage, PathTypeOK
  <2> QED BY <2>1, <2>4 DEF LimitSpentOnce, PathTypeOK
<1> QED BY <1>1, <1>2

\* Permits come from the semaphore and go back with the producer.
LEMMA PermitStep ==
  ASSUME TypeOK, PInv, NEW r \in Requests,
         ServeStep(r) \/ MayStep(r) \/ Woken(r) \/ TimeUp(r)
  PROVE  PermitsCounted' /\ streams' \subseteq Requests
<1> USE DEF PInv
<1>1. CASE CallStream(r)
  <2>1. /\ streams' = streams \cup {r} /\ Cardinality(streams) < MaxStreams
        /\ stage' = [stage EXCEPT ![r] = "stream"]
    BY <1>1 DEF CallStream, Goto
  <2>2. r \notin streams
    BY <1>1 DEF CallStream, EndedHoldsNothing
  <2>3. /\ IsFiniteSet(streams') /\ Cardinality(streams') = Cardinality(streams) + 1
        /\ Cardinality(streams) \in Nat
    BY <2>1, <2>2, FS_AddElement, FS_CardinalityType DEF PermitsCounted
  <2> QED BY <2>1, <2>3, StreamsPositive DEF PermitsCounted, PathTypeOK
<1>2. CASE ~CallStream(r)
  <2>1. /\ streams' \in {streams, streams \ {r}}
        /\ \A q \in Requests : stage'[q] = "stream" => stage[q] = "stream"
        /\ streams' # streams => stage'[r] # "stream"
    BY <1>2 DEF ServeStep, AnswerEarly, RouteShared, RouteLater, TakeState, Queue,
       TargetChain, TargetAnswered, CallPlain, CallFails,
       CallTimesOut, FailAnswered, FailToErrorFn, Unwound, Goto,
       MayStep, HangUpWaiting, HangUpResolving, HangUpCalling, Collect,
       ErrorFnPoisons, StreamEnds, StreamPoisons, Panics, NextRequest, Woken, TimeUp,
       pathVars, PathTypeOK
  <2>2. /\ IsFiniteSet(streams') /\ Cardinality(streams') <= Cardinality(streams)
        /\ Cardinality(streams) \in Nat /\ Cardinality(streams') \in Nat
    BY <2>1, FS_Subset, FS_CardinalityType DEF PermitsCounted
  <2> QED BY <2>1, <2>2, StreamsPositive DEF PermitsCounted, PathTypeOK
<1> QED BY <1>1, <1>2

\* The remaining variables keep their types.
LEMMA StepTypes ==
  ASSUME TypeOK, TypeOK', PInv, NEW r \in Requests,
         ServeStep(r) \/ MayStep(r) \/ Woken(r) \/ TimeUp(r)
  PROVE  /\ stage' \in [Requests -> Stages] /\ routed' \subseteq Requests
         /\ chain' \in [Requests -> Apps] /\ spool' \subseteq Requests
         /\ leftover' \subseteq Slots /\ app' = app /\ script' = script
<1> USE DEF PInv
<1>1. \E p \in Stages : stage' = [stage EXCEPT ![r] = p] \/ stage' = stage
  BY DEF ServeStep, AnswerEarly, RouteShared, RouteLater, TakeState, Queue,
     TargetChain, TargetAnswered, CallPlain, CallStream, CallFails, CallTimesOut,
     FailAnswered, FailToErrorFn, Unwound, Goto,
     MayStep, HangUpWaiting, HangUpResolving, HangUpCalling, Collect,
     ErrorFnPoisons, StreamEnds, StreamPoisons, Panics, NextRequest, Woken, TimeUp,
     pathVars, Stages, Stateless, Stateful
<1>2. /\ routed' \in {routed, routed \cup {r}, routed \ {r}}
      /\ spool' \in {spool, spool \cup {r}, spool \ {r}}
      /\ app' = app /\ script' = script
  BY DEF ServeStep, AnswerEarly, RouteShared, RouteLater, TakeState, Queue,
     TargetChain, TargetAnswered, CallPlain, CallStream, CallFails, CallTimesOut,
     FailAnswered, FailToErrorFn, Unwound,
     MayStep, HangUpWaiting, HangUpResolving, HangUpCalling, Collect,
     ErrorFnPoisons, StreamEnds, StreamPoisons, Panics, NextRequest, Woken, TimeUp,
     pathVars
<1>3. stage[r] = "target" => held[r] \in Slots
  BY DEF EndedHoldsNothing, Stateful, TypeOK
<1>4. chain' \in [Requests -> Apps]
  BY <1>3 DEF ServeStep, AnswerEarly, RouteShared, RouteLater, TakeState, Queue,
     TargetChain, TargetAnswered, CallPlain, CallStream, CallFails, CallTimesOut,
     FailAnswered, FailToErrorFn, Unwound,
     MayStep, HangUpWaiting, HangUpResolving, HangUpCalling, Collect,
     ErrorFnPoisons, StreamEnds, StreamPoisons, Panics, NextRequest, Woken, TimeUp,
     pathVars, PathTypeOK, Apps
<1>5. ASSUME NEW c \in SUBSET Slots, DropState(r, c) PROVE leftover' \subseteq Slots
  <2>1. leftover' \in {c, c \ {held[r]}}
    BY <1>5, DropEffect
  <2> QED BY <2>1
<1>6. CASE TargetAnswered(r) \/ CallPlain(r) \/ FailAnswered(r) \/ Unwound(r)
           \/ HangUpResolving(r) \/ HangUpCalling(r) \/ StreamEnds(r)
  <2>1. /\ leftover \in SUBSET Slots
        /\ stage[r] \in Stateful => leftover \cup {held[r]} \in SUBSET Slots
    BY DEF PathTypeOK, EndedHoldsNothing, TypeOK
  <2>2. \/ DropState(r, leftover)
        \/ stage[r] \in Stateful /\ DropState(r, leftover \cup {held[r]})
    BY <1>6 DEF TargetAnswered, CallPlain, FailAnswered,
       Unwound, HangUpResolving, HangUpCalling, StreamEnds, Stateful
  <2>3. leftover' \subseteq Slots
    BY <2>1, <2>2, <1>5
  <2> QED BY <1>1, <1>2, <1>4, <2>3 DEF PathTypeOK
<1>7. CASE ~(TargetAnswered(r) \/ CallPlain(r) \/ FailAnswered(r) \/ Unwound(r)
             \/ HangUpResolving(r) \/ HangUpCalling(r) \/ StreamEnds(r))
  <2>1. leftover' \in {leftover, leftover \ {held[r]}}
    BY <1>7 DEF ServeStep, AnswerEarly, RouteShared, RouteLater, TakeState, Queue,
       TargetChain, CallStream, CallFails, CallTimesOut, FailToErrorFn, MayStep,
       HangUpWaiting, Collect, ErrorFnPoisons, StreamPoisons, Panics, NextRequest,
       Woken, TimeUp, pathVars
  <2> QED BY <1>1, <1>2, <1>4, <2>1 DEF PathTypeOK
<1> QED BY <1>6, <1>7

LEMMA PathNextInv == TypeOK /\ TypeOK' /\ PInv /\ [PathNext]_allVars => PInv'
<1> SUFFICES ASSUME TypeOK, TypeOK', PInv, [PathNext]_allVars PROVE PInv'
  OBVIOUS
<1>0. shared' \in BOOLEAN
  <2>1. shared' = shared /\ shared \in BOOLEAN
    BY DEF PathNext, allVars, PInv, PathTypeOK
  <2> QED BY <2>1, Zenon
<1>1. ASSUME NEW r \in Requests, ServeStep(r) \/ MayStep(r) \/ Woken(r) \/ TimeUp(r)
      PROVE  PInv'
  <2>1. EndedHoldsNothing'
    BY <1>1, ServeEnded, MayEnded, WaitEnded DEF PInv
  <2>2. /\ CountedByStage' /\ LimitSpentOnce'
        /\ spent' \in [Requests -> [Apps -> 0..2]]
    BY <1>1, ServeCounted, OtherCounted
  <2>3. PermitsCounted' /\ streams' \subseteq Requests
    BY <1>1, PermitStep
  <2>4. PathTypeOK'
    BY <1>0, <1>1, <2>2, <2>3, StepTypes DEF PInv, PathTypeOK
  <2> QED BY <2>1, <2>2, <2>3, <2>4 DEF PInv
<1>2. ASSUME NEW s \in Slots, Rebuild(s) PROVE PInv'
  <2>1. /\ UNCHANGED <<stage, routed, chain, spent, spool, streams, leftover,
                       script, held, waiting>>
        /\ app' \in [Slots -> Apps]
    BY <1>2 DEF Rebuild, RebuildOk, RebuildFail, PInv, PathTypeOK
  <2> QED BY <1>0, <2>1 DEF PInv, PathTypeOK, EndedHoldsNothing, CountedByStage,
          LimitSpentOnce, PermitsCounted
<1>3. CASE Edit
  BY <1>0, <1>3 DEF Edit, PInv, PathTypeOK, EndedHoldsNothing, CountedByStage,
     LimitSpentOnce, PermitsCounted, vars, Apps
<1>4. CASE UNCHANGED allVars
  BY <1>4 DEF allVars, moving, vars, pathVars, PInv, PathTypeOK, EndedHoldsNothing,
     CountedByStage, LimitSpentOnce, PermitsCounted
<1> QED BY <1>1, <1>2, <1>3, <1>4 DEF PathNext

LEMMA PathInvariance == PathSpec => []PInv
<1>1. PathSpec => []TypeOK
  BY PathUsesThePool, TypeCorrect, PTL DEF UsesThePool
<1> QED BY <1>1, PathInitInv, PathNextInv, PTL DEF PathSpec

\* The request path's state keeps its types.
THEOREM PathTypeCorrect == PathSpec => []PathTypeOK
<1>1. PInv => PathTypeOK
  BY DEF PInv
<1> QED BY <1>1, PathInvariance, PTL

\* However a request ends, it holds no state, queue place, permit or upload
\* directory any more.
THEOREM NothingOutlivesARequest == PathSpec => []EndedHoldsNothing
<1>1. PInv => EndedHoldsNothing
  BY DEF PInv
<1> QED BY <1>1, PathInvariance, PTL

\* A request is counted by at most one route limit, once.
THEOREM LimitsAreSpentOnce == PathSpec => []LimitSpentOnce
<1>1. PInv => LimitSpentOnce
  BY DEF PInv
<1> QED BY <1>1, PathInvariance, PTL

\* No more than max_streams states serve streams at a time.
THEOREM StreamsAreCapped == PathSpec => []StreamsWithinCap
<1>1. ASSUME PInv PROVE StreamsWithinCap
  <2>1. /\ {r \in Requests : stage[r] = "stream"} \subseteq streams
        /\ IsFiniteSet(streams) /\ Cardinality(streams) <= MaxStreams
    BY <1>1 DEF PInv, PermitsCounted
  <2> DEFINE S == {r \in Requests : stage[r] = "stream"}
  <2>2. /\ Cardinality(S) <= Cardinality(streams) /\ Cardinality(S) \in Nat
        /\ Cardinality(streams) \in Nat
    BY <2>1, FS_Subset, FS_CardinalityType
  <2> QED BY <1>1, <2>1, <2>2, StreamsPositive DEF StreamsWithinCap, PInv, PermitsCounted
<1> QED BY <1>1, PathInvariance, PTL

\* Both bounds on what requests hold, together.
THEOREM RequestsGiveBack == PathSpec => []NothingIsKept
<1>1. EndedHoldsNothing /\ StreamsWithinCap => NothingIsKept
  BY DEF NothingIsKept
<1> QED BY <1>1, NothingOutlivesARequest, StreamsAreCapped, PTL

=============================================================================
