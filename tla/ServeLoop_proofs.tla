-------------------------- MODULE ServeLoop_proofs --------------------------
(***************************************************************************)
(* Proofs about ServeLoop, for any number of clients and any limits: slots *)
(* are conserved, readiness is withdrawn before service is, and a clean    *)
(* exit leaves no connection.                                              *)
(***************************************************************************)
EXTENDS ServeLoop, FiniteSetTheorems, TLAPS

\* The listener exists exactly while the loop runs.
ListensInLoop == listening <=> loop \in {"accept", "backoff"}

\* The accept future holds a slot only while the loop runs, and has one through
\* the pause after an accept error.
AcceptsInLoop ==
  /\ accepting => loop \in {"accept", "backoff"}
  /\ loop = "backoff" => accepting

\* The drain has a result only when it is over, and cuts nobody off before.
ResultAfterDrain ==
  /\ result # "none" => loop \in {"probes", "stopped"}
  /\ severed # {} => result = "timeout"

LInv ==
  /\ TypeOK /\ SlotsConserved
  /\ ListensInLoop /\ AcceptsInLoop /\ ResultAfterDrain
  /\ ReadyMeansServing /\ CleanExitIsClean

LEMMA LiveFinite == IsFiniteSet(LiveConns) /\ Cardinality(LiveConns) \in Nat
<1>1. LiveConns \subseteq Conns
  BY DEF LiveConns
<1> QED BY <1>1, ConnsFinite, FS_Subset, FS_CardinalityType

LEMMA InitInv == Init => LInv
<1> SUFFICES ASSUME Init PROVE LInv
  OBVIOUS
<1>1. LiveConns = {}
  BY DEF Init, LiveConns, Alive
<1>2. Cardinality(LiveConns) = 0
  BY <1>1, FS_EmptySet
<1>3. SlotsConserved
  BY <1>2, LimitsPositive DEF Init, SlotsConserved
<1>4. TypeOK
  BY LimitsPositive DEF Init, TypeOK
<1> QED BY <1>1, <1>3, <1>4 DEF Init, LInv, ListensInLoop, AcceptsInLoop,
        ResultAfterDrain, ReadyMeansServing, CleanExitIsClean

\* A connection comes alive, ends, or stays as alive as it was.
LEMMA Comes ==
  ASSUME TypeOK, NEW c \in Conns, conn[c] \notin Alive,
         NEW x \in Alive, conn' = [conn EXCEPT ![c] = x]
  PROVE  Cardinality(LiveConns') = Cardinality(LiveConns) + 1
<1>1. LiveConns' = LiveConns \cup {c} /\ c \notin LiveConns
  BY DEF LiveConns, TypeOK
<1> QED BY <1>1, LiveFinite, FS_AddElement

LEMMA Ends ==
  ASSUME TypeOK, NEW c \in Conns, conn[c] \in Alive, conn' = [conn EXCEPT ![c] = "away"]
  PROVE  /\ Cardinality(LiveConns') = Cardinality(LiveConns) - 1
         /\ LiveConns' \subseteq LiveConns
<1>1. LiveConns' = LiveConns \ {c} /\ c \in LiveConns
  BY DEF LiveConns, TypeOK, Alive
<1> QED BY <1>1, LiveFinite, FS_RemoveElement

LEMMA Stays ==
  ASSUME \A c \in Conns : conn'[c] \in Alive <=> conn[c] \in Alive
  PROVE  LiveConns' = LiveConns
<1> QED BY DEF LiveConns

\* The accept loop's steps before it is left.
LEMMA AcceptStep ==
  ASSUME LInv,
         \/ AcquireSlot \/ (\E c \in Conns : Accept(c) \/ AcceptAborted(c))
         \/ AcceptFails \/ BackoffEnds \/ ReloadArm
  PROVE  LInv'
<1> USE DEF LInv
<1>1. CASE AcquireSlot
  <2>1. LiveConns' = LiveConns
    BY <1>1, Stays DEF AcquireSlot
  <2>2. TypeOK'
    BY <1>1 DEF AcquireSlot, TypeOK
  <2>3. SlotsConserved'
    BY <1>1, <2>1, LiveFinite DEF AcquireSlot, SlotsConserved, TypeOK
  <2> QED BY <1>1, <2>1, <2>2, <2>3 DEF AcquireSlot, ListensInLoop, AcceptsInLoop,
          ResultAfterDrain, ReadyMeansServing, CleanExitIsClean
<1>2. ASSUME NEW c \in Conns, Accept(c) PROVE LInv'
  <2>1. PICK x \in Alive : conn' = [conn EXCEPT ![c] = x]
    BY <1>2 DEF Accept, Alive
  <2>2. Cardinality(LiveConns') = Cardinality(LiveConns) + 1
    BY <1>2, <2>1, Comes DEF Accept, Alive
  <2>3. TypeOK'
    BY <1>2, <2>1 DEF Accept, TypeOK
  <2>4. SlotsConserved'
    BY <1>2, <2>2, LiveFinite DEF Accept, SlotsConserved, TypeOK
  <2>5. result = "none"
    BY <1>2 DEF Accept, ResultAfterDrain
  <2> QED BY <1>2, <2>3, <2>4, <2>5 DEF Accept, ListensInLoop, AcceptsInLoop,
          ResultAfterDrain, ReadyMeansServing, CleanExitIsClean
<1>3. ASSUME NEW c \in Conns, AcceptAborted(c) PROVE LInv'
  <2>1. LiveConns' = LiveConns
    BY <1>3, Stays DEF AcceptAborted, Alive, TypeOK
  <2>2. TypeOK'
    <3>1. slots' \in Nat /\ conn' \in [Conns -> Alive \cup {"away", "queued"}]
      BY <1>3 DEF AcceptAborted, TypeOK
    <3>2. accepting' \in BOOLEAN
      BY <1>3, Zenon DEF AcceptAborted
    <3> QED BY <1>3, <3>1, <3>2 DEF AcceptAborted, TypeOK
  <2>3. SlotsConserved'
    <3>1. slots + 1 + Cardinality(LiveConns) = MaxConnections
      BY <1>3 DEF AcceptAborted, SlotsConserved
    <3>2. slots' = slots + 1 /\ ~accepting' /\ slots \in Nat
      BY <1>3 DEF AcceptAborted, TypeOK
    <3>3. slots' + 0 + Cardinality(LiveConns') = MaxConnections
      BY <2>1, <3>1, <3>2, LiveFinite
    <3> QED BY <3>2, <3>3 DEF SlotsConserved
  <2> QED BY <1>3, <2>1, <2>2, <2>3 DEF AcceptAborted, ListensInLoop, AcceptsInLoop,
          ResultAfterDrain, ReadyMeansServing, CleanExitIsClean
<1>4. CASE AcceptFails
  <2>1. LiveConns' = LiveConns
    BY <1>4, Stays DEF AcceptFails
  <2> QED BY <1>4, <2>1 DEF AcceptFails, TypeOK, SlotsConserved, ListensInLoop,
          AcceptsInLoop, ResultAfterDrain, ReadyMeansServing, CleanExitIsClean
<1>5. CASE BackoffEnds \/ ReloadArm
  <2>1. /\ LiveConns' = LiveConns /\ loop' = "accept" /\ accepting' = FALSE
        /\ loop \in {"accept", "backoff"}
        /\ UNCHANGED <<conn, producers, asked, draining, ready, listening, deadline,
                       result, severed, probe>>
    BY <1>5, Stays DEF BackoffEnds, ReloadArm, DropAccept
  <2>2. accepting
    BY <1>5 DEF BackoffEnds, ReloadArm, AcceptsInLoop
  <2>3. slots' = slots + 1
    BY <1>5, <2>2, Zenon DEF BackoffEnds, ReloadArm, DropAccept
  <2>4. TypeOK'
    <3>1. slots' \in Nat
      BY <2>3 DEF TypeOK
    <3>2. accepting' \in BOOLEAN
      BY <2>1, Zenon
    <3> QED BY <2>1, <3>1, <3>2 DEF TypeOK
  <2>5. SlotsConserved'
    <3>1. slots + 1 + Cardinality(LiveConns) = MaxConnections
      BY <2>2 DEF SlotsConserved
    <3>2. slots' + 0 + Cardinality(LiveConns') = MaxConnections
      BY <2>1, <2>3, <3>1, LiveFinite DEF TypeOK
    <3> QED BY <2>1, <3>2 DEF SlotsConserved
  <2> QED BY <2>1, <2>4, <2>5 DEF ListensInLoop, AcceptsInLoop, ResultAfterDrain,
          ReadyMeansServing, CleanExitIsClean
<1> QED BY <1>1, <1>2, <1>3, <1>4, <1>5

\* Dropping the accept future gives its slot back.
LEMMA DropKeepsSlots ==
  ASSUME LInv, DropAccept, LiveConns' = LiveConns
  PROVE  SlotsConserved' /\ slots' \in Nat /\ accepting' \in BOOLEAN /\ ~accepting'
<1> USE DEF LInv
<1>1. accepting' = FALSE
  BY DEF DropAccept
<1>2. CASE accepting
  <2>1. slots' = slots + 1
    BY <1>2, Zenon DEF DropAccept
  <2>2. slots + 1 + Cardinality(LiveConns) = MaxConnections
    BY <1>2 DEF SlotsConserved
  <2>3. slots' + 0 + Cardinality(LiveConns') = MaxConnections /\ slots' \in Nat
    BY <2>1, <2>2, LiveFinite DEF TypeOK
  <2> QED BY <1>1, <2>3, Zenon DEF SlotsConserved
<1>3. CASE ~accepting
  <2>1. slots' = slots /\ slots \in Nat
    BY <1>3, Zenon DEF DropAccept, TypeOK
  <2>2. slots + 0 + Cardinality(LiveConns) = MaxConnections
    BY <1>3 DEF SlotsConserved
  <2>3. slots' + 0 + Cardinality(LiveConns') = MaxConnections
    BY <2>1, <2>2
  <2> QED BY <1>1, <2>1, <2>3, Zenon DEF SlotsConserved
<1> QED BY <1>2, <1>3

LEMMA LeaveStep == ASSUME LInv, ShutdownArm \/ DelayEnds PROVE LInv'
<1> USE DEF LInv
<1>1. /\ loop = "accept" /\ DropAccept
      /\ UNCHANGED <<producers, asked, result, severed, probe>>
  BY DEF ShutdownArm, DelayEnds
<1>2. result = "none"
  BY <1>1 DEF ResultAfterDrain
<1>3. CASE BreakLoop /\ ready' = FALSE /\ draining' = draining
  <2>1. LiveConns' = LiveConns
    BY <1>3, Stays DEF BreakLoop, Alive
  <2>2. SlotsConserved' /\ slots' \in Nat /\ accepting' \in BOOLEAN /\ ~accepting'
    BY <1>1, <2>1, DropKeepsSlots
  <2>3. conn' \in [Conns -> Alive \cup {"away", "queued"}]
    BY <1>3 DEF BreakLoop, TypeOK
  <2>4. ready' \in BOOLEAN /\ listening' \in BOOLEAN
    BY <1>3, Zenon DEF BreakLoop
  <2>5. TypeOK'
    BY <1>1, <1>3, <2>2, <2>3, <2>4 DEF BreakLoop, TypeOK
  <2> QED BY <1>1, <1>2, <1>3, <2>2, <2>5 DEF BreakLoop, ListensInLoop, AcceptsInLoop,
          ResultAfterDrain, ReadyMeansServing, CleanExitIsClean
<1>4. CASE /\ ready' = FALSE /\ draining' = TRUE
           /\ UNCHANGED <<loop, listening, deadline, conn>>
  <2>1. LiveConns' = LiveConns
    BY <1>4, Stays
  <2>2. SlotsConserved' /\ slots' \in Nat /\ accepting' \in BOOLEAN /\ ~accepting'
    BY <1>1, <2>1, DropKeepsSlots
  <2>3. ready' \in BOOLEAN /\ draining' \in BOOLEAN
    BY <1>4, Zenon
  <2>4. TypeOK'
    BY <1>1, <1>4, <2>2, <2>3 DEF TypeOK
  <2> QED BY <1>1, <1>2, <1>4, <2>2, <2>4 DEF ListensInLoop, AcceptsInLoop,
          ResultAfterDrain, ReadyMeansServing, CleanExitIsClean
<1>5. CASE DelayEnds
  <2>1. ready' = FALSE
    BY <1>5 DEF DelayEnds, ReadyMeansServing, TypeOK
  <2> QED BY <1>3, <1>5, <2>1 DEF DelayEnds
<1>6. CASE ShutdownArm
  BY <1>3, <1>4, <1>6 DEF ShutdownArm
<1> QED BY <1>5, <1>6

LEMMA DrainingStep == ASSUME LInv, DrainStep PROVE LInv'
<1> USE DEF LInv
<1>1. /\ UNCHANGED <<slots, accepting, conn, producers, asked, draining, ready, listening>>
      /\ loop \in {"drain", "probes"} /\ loop' \in {"drain", "probes", "stopped"}
      /\ loop' = "drain" => result' = result /\ loop = "drain"
      /\ deadline' \in {deadline, "extended", "expired"}
      /\ severed' \in {severed, LiveConns}
      /\ probe' \in {probe, "stopping", "down"}
      /\ \/ result' = result /\ severed' = severed
         \/ loop = "drain" /\ result' = "ok" /\ LiveConns = {} /\ severed' = severed
         \/ loop = "drain" /\ result' = "timeout"
  BY DEF DrainStep, GraceEnds, ExtensionEnds, DrainDone, DrainExpires, StopProbes,
     ProbesEnd, AfterDrain
<1>2. LiveConns' = LiveConns /\ LiveConns \subseteq Conns
  BY <1>1, Stays DEF LiveConns
<1>3. TypeOK'
  BY <1>1, <1>2 DEF TypeOK
<1>4. SlotsConserved'
  BY <1>1, <1>2 DEF SlotsConserved
<1> QED BY <1>1, <1>2, <1>3, <1>4 DEF ListensInLoop, AcceptsInLoop, ResultAfterDrain,
        ReadyMeansServing, CleanExitIsClean

\* A step of a connection's task, its producer or its client.
LEMMA ConnStep ==
  ASSUME LInv, NEW c \in Conns,
         ServeConn(c) \/ ProducerEnds(c) \/ Request(c) \/ HangUp(c) \/ Connect(c)
  PROVE  LInv'
<1> USE DEF LInv
<1>1. UNCHANGED loopVars /\ producers' \subseteq Conns
  BY DEF ServeConn, HandshakeOk, HandshakeFails, CloseIdle, Respond, RespondStream,
     BodySent, ProducerEnds, Request, HangUp, Connect, TypeOK
<1>2. CASE conn[c] \in Alive /\ End(c)
  <2>1. /\ Cardinality(LiveConns') = Cardinality(LiveConns) - 1
        /\ LiveConns' \subseteq LiveConns /\ slots' = slots + 1
    BY <1>2, Ends DEF End
  <2>2. TypeOK'
    BY <1>1, <1>2, <2>1 DEF TypeOK, End, loopVars
  <2>3. SlotsConserved'
    BY <1>1, <2>1, LiveFinite DEF SlotsConserved, TypeOK, loopVars
  <2> QED BY <1>1, <2>1, <2>2, <2>3 DEF loopVars, ListensInLoop, AcceptsInLoop,
          ResultAfterDrain, ReadyMeansServing, CleanExitIsClean
<1>3. CASE /\ slots' = slots
           /\ \/ conn' = conn
              \/ conn[c] = "away" /\ conn' = [conn EXCEPT ![c] = "queued"]
              \/ /\ conn[c] \in Alive
                 /\ \E x \in Alive : conn' = [conn EXCEPT ![c] = x]
  <2>1. LiveConns' = LiveConns
    BY <1>3, Stays DEF Alive, TypeOK
  <2>2. TypeOK'
    BY <1>1, <1>3 DEF TypeOK, loopVars
  <2> QED BY <1>1, <1>3, <2>1, <2>2 DEF loopVars, SlotsConserved, ListensInLoop,
          AcceptsInLoop, ResultAfterDrain, ReadyMeansServing, CleanExitIsClean
<1>4. \/ conn[c] \in Alive /\ End(c)
      \/ /\ slots' = slots
         /\ \/ conn' = conn
            \/ conn[c] = "away" /\ conn' = [conn EXCEPT ![c] = "queued"]
            \/ /\ conn[c] \in Alive
               /\ \E x \in Alive : conn' = [conn EXCEPT ![c] = x]
  BY DEF ServeConn, HandshakeOk, HandshakeFails, CloseIdle, Respond, RespondStream,
     BodySent, KeepAlive, ProducerEnds, Request, HangUp, Connect, Alive
<1> QED BY <1>2, <1>3, <1>4

LEMMA NextInv == LInv /\ [Next]_vars => LInv'
<1> SUFFICES ASSUME LInv, [Next]_vars PROVE LInv'
  OBVIOUS
<1>1. CASE Signal
  <2>1. LiveConns' = LiveConns
    BY <1>1, Stays DEF Signal
  <2>2. asked' \in BOOLEAN
    BY <1>1, Zenon DEF Signal
  <2> QED BY <1>1, <2>1, <2>2 DEF Signal, LInv, TypeOK, SlotsConserved, ListensInLoop,
          AcceptsInLoop, ResultAfterDrain, ReadyMeansServing, CleanExitIsClean
<1>2. CASE UNCHANGED vars
  <2>1. LiveConns' = LiveConns
    BY <1>2, Stays DEF vars
  <2> QED BY <1>2, <2>1 DEF vars, LInv, TypeOK, SlotsConserved, ListensInLoop,
          AcceptsInLoop, ResultAfterDrain, ReadyMeansServing, CleanExitIsClean
<1>3. CASE LoopStep
  BY <1>3, AcceptStep, LeaveStep DEF LoopStep
<1>4. CASE DrainStep
  BY <1>4, DrainingStep
<1> QED BY <1>1, <1>2, <1>3, <1>4, ConnStep DEF Next

LEMMA Invariance == Spec => []LInv
<1> QED BY InitInv, NextInv, PTL DEF Spec

\* The accept loop's state keeps its types.
THEOREM TypeCorrect == Spec => []TypeOK
<1>1. LInv => TypeOK
  BY DEF LInv
<1> QED BY <1>1, Invariance, PTL

\* No connection slot is lost or doubled, however accepts, handshakes and
\* connections end.
THEOREM SlotsAreConserved == Spec => []SlotsConserved
<1>1. LInv => SlotsConserved
  BY DEF LInv
<1> QED BY <1>1, Invariance, PTL

\* While readiness says ready, the server accepts and closes nobody.
THEOREM ReadinessIsHonest == Spec => []ReadyMeansServing
<1>1. LInv => ReadyMeansServing
  BY DEF LInv
<1> QED BY <1>1, Invariance, PTL

\* serve() returns Ok only when every connection has ended.
THEOREM CleanExit == Spec => []CleanExitIsClean
<1>1. LInv => CleanExitIsClean
  BY DEF LInv
<1> QED BY <1>1, Invariance, PTL

\* Both statements of the server about itself.
THEOREM StatusHolds == Spec => []StatusIsHonest
<1>1. ReadyMeansServing /\ CleanExitIsClean => StatusIsHonest
  BY DEF StatusIsHonest
<1> QED BY <1>1, ReadinessIsHonest, CleanExit, PTL
=============================================================================
