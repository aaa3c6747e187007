---------------------------- MODULE Reload_proofs ----------------------------
(***************************************************************************)
(* Proofs about Reload, for any number of workers, readers, signals and    *)
(* saves: the pool and its document stay a pair although rebuild tasks may *)
(* overlap.                                                                *)
(***************************************************************************)
EXTENDS Reload, SequenceTheorems, TLAPS

\* A task that is past building its states has the bootstrap state.
BootstrapBuilt ==
  \A t \in Tasks : pc[t] \in {"docs", "swap", "swapDocs"} => built[t] # <<>>

\* The pool's write lock is held by the task between the two assignments, and
\* by nobody otherwise.
LockHolder == \A t \in Tasks : pc[t] = "swapDocs" <=> lock = t

\* While it is held, the document lags one build behind and the new pool is
\* that of the holder; when it is free the two are a pair.
PairOrHeld ==
  /\ docs.build <= live.build
  /\ live.build = builds
  /\ lock # 0 => live.routing = built[lock][1]
  /\ PoolAndDocsAgree

\* What a request has read so far is not ahead of the document in use.
ReadersBehind ==
  /\ \A q \in Readers : seen[q].stage = "pool" => seen[q].pool <= docs.build
  /\ NoNewPoolWithOldDocs

IInv == TypeOK /\ BootstrapBuilt /\ LockHolder /\ PairOrHeld /\ ReadersBehind

LEMMA InitInv == Init => IInv
<1> SUFFICES ASSUME Init PROVE IInv
  OBVIOUS
<1>2. 0 \in Versions /\ <<>> \in Seq(Versions)
  BY BoundsNat DEF Versions
<1>3. live \in [build : Nat, routing : Versions]
  BY <1>2 DEF Init
<1>4. seen \in [Readers -> [pool : Nat, docs : Nat, stage : {"new", "pool", "both"}]]
  BY DEF Init
<1>5. disk \in Versions /\ tls \in Versions
  BY <1>2 DEF Init
<1>6. docs \in [build : Nat, routes : Versions]
  BY <1>2 DEF Init
<1>7. pc \in [Tasks -> TaskPoints] /\ built \in [Tasks -> Seq(Versions)]
  BY <1>2 DEF Init, TaskPoints
<1>8. signalled \in BOOLEAN /\ channel \in BOOLEAN
  BY Zenon DEF Init
<1>9. TypeOK
  BY <1>3, <1>4, <1>5, <1>6, <1>7, <1>8, BoundsNat DEF Init, TypeOK, LoopPoints
<1> QED
  BY <1>9 DEF Init, IInv, BootstrapBuilt, LockHolder, PairOrHeld, PoolAndDocsAgree,
              ReadersBehind, NoNewPoolWithOldDocs, Tasks

\* Steps that leave the pool, the document, the lock and the readers alone, and
\* do not move a task into or out of the section the lock protects.
LEMMA QuietStep ==
  ASSUME IInv, TypeOK', BootstrapBuilt', UNCHANGED <<liveVars, seen>>,
         \A t \in Tasks : (pc'[t] = "swapDocs") <=> (pc[t] = "swapDocs"),
         \A t \in Tasks : pc[t] = "swapDocs" => built'[t] = built[t]
  PROVE  IInv'
<1>1. LockHolder'
  BY DEF IInv, LockHolder, liveVars
<1>2. lock # 0 => lock \in Tasks /\ pc[lock] = "swapDocs"
  BY DEF IInv, LockHolder, TypeOK
<1>3. PairOrHeld'
  BY <1>2 DEF IInv, PairOrHeld, PoolAndDocsAgree, liveVars
<1>4. ReadersBehind'
  BY DEF IInv, ReadersBehind, NoNewPoolWithOldDocs, liveVars
<1> QED BY <1>1, <1>3, <1>4 DEF IInv

LEMMA OutsideStep == ASSUME IInv, Outside PROVE IInv'
<1>1. CASE Save \/ Hangup
  <2>1. disk' \in Versions /\ hangups' \in 0..MaxHangups
    BY <1>1, BoundsNat DEF IInv, TypeOK, Save, Hangup, Versions
  <2>2. signalled' \in BOOLEAN
    BY <1>1, Zenon DEF IInv, TypeOK, Save, Hangup
  <2>3. UNCHANGED <<channel, loop, reloading, pc, built, liveVars, tls, seen>>
    BY <1>1 DEF Save, Hangup
  <2>4. TypeOK'
    BY <2>1, <2>3, <2>2 DEF IInv, TypeOK, liveVars
  <2> QED BY <2>4, <2>3, QuietStep DEF IInv, BootstrapBuilt
<1> QED BY <1>1 DEF Outside

LEMMA AcceptLoopStep == ASSUME IInv, Forward \/ LoopStep PROVE IInv'
<1>1. CASE \E t \in Tasks : ReloadStart(t)
  <2>1. PICK t \in Tasks : ReloadStart(t)
    BY <1>1
  <2>2. /\ pc[t] = "none" /\ pc' = [pc EXCEPT ![t] = "load"]
        /\ UNCHANGED <<diskVars, channel, built, liveVars, tls, seen>>
        /\ reloading' = "running" /\ loop' = "select"
    BY <2>1 DEF ReloadStart
  <2>3. TypeOK'
    BY <2>2 DEF IInv, TypeOK, diskVars, liveVars, LoopPoints, TaskPoints, Looping,
       Building
  <2>4. BootstrapBuilt'
    BY <2>2 DEF IInv, BootstrapBuilt, TypeOK
  <2>5. \A u \in Tasks : (pc'[u] = "swapDocs") <=> (pc[u] = "swapDocs")
    BY <2>2 DEF IInv, TypeOK
  <2> QED BY <2>2, <2>3, <2>4, <2>5, QuietStep
<1>2. CASE Forward \/ LoopReceive \/ ReloadTls \/ ReloadBusy \/ ReloadPending
  <2>1. UNCHANGED <<pc, built, liveVars, seen>>
    BY <1>2 DEF Forward, LoopReceive, ReloadTls, ReloadBusy, ReloadPending
  <2>2. TypeOK'
    BY <1>2 DEF IInv, TypeOK, Forward, LoopReceive, ReloadTls, ReloadBusy,
       ReloadPending, diskVars, liveVars, LoopPoints
  <2>3. BootstrapBuilt'
    BY <2>1 DEF IInv, BootstrapBuilt
  <2> QED BY <2>1, <2>2, <2>3, QuietStep
<1> QED BY <1>1, <1>2 DEF LoopStep

LEMMA RebuildTaskStep == ASSUME IInv, NEW t \in Tasks, TaskStep(t) PROVE IInv'
<1>0. TypeOK /\ \A u \in Tasks : pc[u] \in TaskPoints
  BY DEF IInv, TypeOK
<1>1. CASE LoadState(t)
  <2>1. /\ pc[t] = "load"
        /\ built' = [built EXCEPT ![t] = Append(built[t], disk)]
        /\ pc' = [pc EXCEPT ![t] = "load"] \/ pc' = [pc EXCEPT ![t] = "docs"]
        /\ UNCHANGED <<diskVars, channel, loop, reloading, liveVars, tls, seen>>
    BY <1>1 DEF LoadState, Goto
  <2>2. Append(built[t], disk) \in Seq(Versions) /\ Append(built[t], disk) # <<>>
    <3>1. built[t] \in Seq(Versions) /\ disk \in Versions
      BY DEF IInv, TypeOK
    <3>2. Append(built[t], disk) \in Seq(Versions)
      BY <3>1
    <3>3. Len(Append(built[t], disk)) = Len(built[t]) + 1 /\ Len(built[t]) \in Nat
      BY <3>1
    <3>4. Append(built[t], disk) # <<>>
      BY <3>3, EmptySeq
    <3> QED BY <3>2, <3>4
  <2>3. TypeOK'
    BY <2>1, <2>2 DEF IInv, TypeOK, diskVars, liveVars, TaskPoints, Looping, Building
  <2>4. BootstrapBuilt'
    BY <2>1, <2>2 DEF IInv, BootstrapBuilt, TypeOK
  <2>5. /\ \A u \in Tasks : (pc'[u] = "swapDocs") <=> (pc[u] = "swapDocs")
        /\ \A u \in Tasks : pc[u] = "swapDocs" => built'[u] = built[u]
    BY <2>1 DEF IInv, TypeOK
  <2> QED BY <2>1, <2>3, <2>4, <2>5, QuietStep
<1>2. CASE BuildDocs(t) \/ TaskCas(t) \/ TaskReset(t)
  <2>1. /\ pc[t] \in {"docs", "cas", "reset"}
        /\ \/ pc' = [pc EXCEPT ![t] = "swap"] /\ pc[t] = "docs"
           \/ \E p \in {"reset", "again", "done"} : pc' = [pc EXCEPT ![t] = p]
        /\ reloading' \in {reloading, "idle"}
        /\ UNCHANGED <<diskVars, channel, loop, built, liveVars, tls, seen>>
    BY <1>2 DEF BuildDocs, TaskCas, TaskReset, Goto
  <2>2. TypeOK'
    BY <2>1 DEF IInv, TypeOK, diskVars, liveVars, TaskPoints, Looping, Building
  <2>3. BootstrapBuilt'
    BY <2>1 DEF IInv, BootstrapBuilt, TypeOK
  <2>4. \A u \in Tasks : (pc'[u] = "swapDocs") <=> (pc[u] = "swapDocs")
    BY <2>1 DEF IInv, TypeOK
  <2> QED BY <2>1, <2>2, <2>3, <2>4, QuietStep
<1>3. CASE TaskAgain(t) \/ RebuildFails(t)
  <2>1. /\ pc[t] \in {"again", "load", "docs"}
        /\ \E p \in {"load", "cas"} : pc' = [pc EXCEPT ![t] = p]
        /\ built' \in {built, [built EXCEPT ![t] = <<>>]}
        /\ reloading' \in {reloading, "running"}
        /\ UNCHANGED <<diskVars, channel, loop, liveVars, tls, seen>>
    BY <1>3 DEF TaskAgain, RebuildFails, Goto
  <2>2. <<>> \in Seq(Versions)
    OBVIOUS
  <2>3. TypeOK'
    <3>1. built \in [Tasks -> Seq(Versions)] /\ pc \in [Tasks -> TaskPoints]
      BY DEF IInv, TypeOK
    <3>2. built' \in [Tasks -> Seq(Versions)]
      BY <2>1, <2>2, <3>1
    <3>3. pc' \in [Tasks -> TaskPoints]
      BY <2>1, <3>1 DEF TaskPoints, Looping, Building
    <3> QED BY <2>1, <3>2, <3>3 DEF IInv, TypeOK, diskVars, liveVars
  <2>4. BootstrapBuilt'
    BY <2>1 DEF IInv, BootstrapBuilt, TypeOK
  <2>5. /\ \A u \in Tasks : (pc'[u] = "swapDocs") <=> (pc[u] = "swapDocs")
        /\ \A u \in Tasks : pc[u] = "swapDocs" => built'[u] = built[u]
    BY <2>1 DEF IInv, TypeOK
  <2> QED BY <2>1, <2>3, <2>4, <2>5, QuietStep
<1>4. CASE SwapPool(t)
  <2>1. /\ pc[t] = "swap" /\ lock = 0 /\ lock' = t /\ builds' = builds + 1
        /\ live' = [build |-> builds + 1, routing |-> built[t][1]]
        /\ pc' = [pc EXCEPT ![t] = "swapDocs"]
        /\ UNCHANGED <<diskVars, channel, loop, reloading, built, docs, tls, seen>>
    BY <1>4 DEF SwapPool, Goto
  <2>2. built[t] \in Seq(Versions) /\ built[t][1] \in Versions
    BY <2>1 DEF IInv, TypeOK, BootstrapBuilt
  <2>3. TypeOK'
    BY <2>1, <2>2 DEF IInv, TypeOK, diskVars, TaskPoints, Looping, Building
  <2>4. BootstrapBuilt'
    BY <2>1 DEF IInv, BootstrapBuilt, TypeOK
  <2>5. t # 0
    BY DEF Tasks
  <2>6. LockHolder'
    BY <2>1, <2>5 DEF IInv, LockHolder, TypeOK, Tasks
  <2>7. PairOrHeld'
    BY <2>1, <2>5 DEF IInv, PairOrHeld, PoolAndDocsAgree, TypeOK
  <2>8. ReadersBehind'
    BY <2>1 DEF IInv, ReadersBehind, NoNewPoolWithOldDocs
  <2> QED BY <2>3, <2>4, <2>6, <2>7, <2>8 DEF IInv
<1>5. CASE SwapDocs(t)
  <2>1. /\ pc[t] = "swapDocs" /\ lock' = 0
        /\ docs' = [build |-> live.build, routes |-> built[t][1]]
        /\ pc' = [pc EXCEPT ![t] = "cas"] /\ built' = [built EXCEPT ![t] = <<>>]
        /\ UNCHANGED <<diskVars, channel, loop, reloading, live, builds, tls, seen>>
    BY <1>5 DEF SwapDocs, Goto
  <2>2. lock = t /\ t # 0
    BY <2>1 DEF IInv, LockHolder, Tasks
  <2>3. built[t][1] \in Versions
    BY <2>1 DEF IInv, TypeOK, BootstrapBuilt
  <2>4. TypeOK'
    <3>1. <<>> \in Seq(Versions)
      OBVIOUS
    <3> QED BY <2>1, <2>3, <3>1 DEF IInv, TypeOK, diskVars, TaskPoints, Looping, Building
  <2>5. BootstrapBuilt'
    BY <2>1 DEF IInv, BootstrapBuilt, TypeOK
  <2>6. LockHolder'
    BY <2>1, <2>2 DEF IInv, LockHolder, TypeOK, Tasks
  <2>7. PairOrHeld'
    <3>1. docs'.build = live.build /\ docs'.routes = live.routing
      BY <2>1, <2>2 DEF IInv, PairOrHeld
    <3>2. live.build \in Nat /\ live'.build = builds' /\ live' = live
      BY <2>1 DEF IInv, PairOrHeld, TypeOK
    <3> QED BY <2>1, <3>1, <3>2 DEF PairOrHeld, PoolAndDocsAgree
  <2>8. ReadersBehind'
    BY <2>1 DEF IInv, ReadersBehind, NoNewPoolWithOldDocs, PairOrHeld, TypeOK
  <2> QED BY <2>4, <2>5, <2>6, <2>7, <2>8 DEF IInv
<1> QED BY <1>1, <1>2, <1>3, <1>4, <1>5 DEF TaskStep

LEMMA ReaderStep ==
  ASSUME IInv, NEW q \in Readers, ReadPool(q) \/ ReadDocs(q)
  PROVE  IInv'
<1>1. UNCHANGED <<diskVars, channel, loop, reloading, pc, built, liveVars, tls>>
  BY DEF ReadPool, ReadDocs
<1>2. /\ \A r \in Readers : r # q => seen'[r] = seen[r]
      /\ \/ /\ lock = 0 /\ seen'[q].stage = "pool" /\ seen'[q].pool = live.build
         \/ /\ seen[q].stage = "pool" /\ seen'[q].stage = "both"
            /\ seen'[q].pool = seen[q].pool /\ seen'[q].docs = docs.build
  BY DEF ReadPool, ReadDocs, IInv, TypeOK
<1>3. TypeOK'
  <2>1. live.build \in Nat /\ docs.build \in Nat
    BY DEF IInv, TypeOK
  <2>2. seen' \in [Readers -> [pool : Nat, docs : Nat, stage : {"new", "pool", "both"}]]
    <3>1. seen \in [Readers -> [pool : Nat, docs : Nat, stage : {"new", "pool", "both"}]]
      BY DEF IInv, TypeOK
    <3>2. CASE ReadPool(q)
      BY <2>1, <3>1, <3>2 DEF ReadPool
    <3>3. CASE ReadDocs(q)
      BY <2>1, <3>1, <3>3 DEF ReadDocs
    <3> QED BY <3>2, <3>3
  <2> QED BY <1>1, <2>2 DEF IInv, TypeOK, diskVars, liveVars
<1>4. BootstrapBuilt' /\ LockHolder' /\ PairOrHeld'
  BY <1>1 DEF IInv, BootstrapBuilt, LockHolder, PairOrHeld, PoolAndDocsAgree, liveVars
<1>5. ReadersBehind'
  <2>1. docs' = docs /\ docs.build \in Nat /\ (lock = 0 => docs.build = live.build)
    BY <1>1 DEF IInv, PairOrHeld, PoolAndDocsAgree, TypeOK, liveVars
  <2>2. \A r \in Readers : seen'[r].stage = "pool" => seen'[r].pool <= docs.build
    BY <1>2, <2>1 DEF IInv, ReadersBehind
  <2>3. \A r \in Readers : seen'[r].stage = "both" => seen'[r].docs >= seen'[r].pool
    BY <1>2, <2>1 DEF IInv, ReadersBehind, NoNewPoolWithOldDocs, TypeOK
  <2> QED BY <2>1, <2>2, <2>3 DEF ReadersBehind, NoNewPoolWithOldDocs
<1> QED BY <1>3, <1>4, <1>5 DEF IInv

LEMMA NextInv == IInv /\ [Next]_vars => IInv'
<1> SUFFICES ASSUME IInv, [Next]_vars PROVE IInv'
  OBVIOUS
<1>1. CASE UNCHANGED vars
  BY <1>1 DEF vars, IInv, TypeOK, BootstrapBuilt, LockHolder, PairOrHeld,
     PoolAndDocsAgree, ReadersBehind, NoNewPoolWithOldDocs
<1> QED BY <1>1, OutsideStep, AcceptLoopStep, RebuildTaskStep, ReaderStep DEF Next

LEMMA Invariance == Spec => []IInv
<1> QED BY InitInv, NextInv, PTL DEF Spec

\* The reload state keeps its types.
THEOREM TypeCorrect == Spec => []TypeOK
<1>1. IInv => TypeOK
  BY DEF IInv
<1> QED BY <1>1, Invariance, PTL

\* Outside the write lock the pool and the OpenAPI document are of one build.
THEOREM PoolAndDocsArePaired == Spec => []PoolAndDocsAgree
<1>1. IInv => PoolAndDocsAgree
  BY DEF IInv, PairOrHeld
<1> QED BY <1>1, Invariance, PTL

\* No request reads a document older than the pool it was given.
THEOREM DocsNeverOlderThanPool == Spec => []NoNewPoolWithOldDocs
<1>1. IInv => NoNewPoolWithOldDocs
  BY DEF IInv, ReadersBehind
<1> QED BY <1>1, Invariance, PTL
=============================================================================
