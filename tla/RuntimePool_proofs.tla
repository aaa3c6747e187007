------------------------- MODULE RuntimePool_proofs -------------------------
(***************************************************************************)
(* Proofs about RuntimePool, for every number of runtimes and requests.    *)
(***************************************************************************)
EXTENDS RuntimePool, FiniteSetTheorems, SequenceTheorems, TLAPS

-----------------------------------------------------------------------------
(* The channel's queue *)

\* Sending a new element adds it and keeps the queue free of repetitions.
LEMMA AppendFacts ==
  ASSUME NEW S, NEW q \in Seq(S), NEW x \in S, IsInjective(q), x \notin ToSet(q)
  PROVE  /\ Append(q, x) \in Seq(S)
         /\ ToSet(Append(q, x)) = ToSet(q) \cup {x}
         /\ IsInjective(Append(q, x))
         /\ Append(q, x) # <<>>
<1>1. Append(q, x) \in Seq(S) /\ Len(Append(q, x)) = Len(q) + 1
  OBVIOUS
<1>2. DOMAIN q = 1..Len(q) /\ DOMAIN Append(q, x) = 1..(Len(q) + 1) /\ Len(q) \in Nat
  BY <1>1
<1>3. /\ \A i \in 1..Len(q) : Append(q, x)[i] = q[i]
      /\ Append(q, x)[Len(q) + 1] = x
  OBVIOUS
<1>4. ToSet(Append(q, x)) = ToSet(q) \cup {x}
  BY <1>2, <1>3 DEF ToSet
<1>5. IsInjective(Append(q, x))
  BY <1>2, <1>3 DEF IsInjective, ToSet
<1> QED BY <1>1, <1>4, <1>5

\* Receiving takes the head out of a queue without repetitions for good.
LEMMA TailFacts ==
  ASSUME NEW S, NEW q \in Seq(S), IsInjective(q), q # <<>>
  PROVE  /\ Head(q) \in S
         /\ Head(q) \in ToSet(q)
         /\ Tail(q) \in Seq(S)
         /\ ToSet(Tail(q)) = ToSet(q) \ {Head(q)}
         /\ IsInjective(Tail(q))
<1>1. /\ Len(q) \in Nat \ {0} /\ DOMAIN q = 1..Len(q)
      /\ Head(q) = q[1]
      /\ q[1] \in S
  OBVIOUS
<1>2. /\ Tail(q) \in Seq(S)
      /\ Len(Tail(q)) = Len(q) - 1
      /\ DOMAIN Tail(q) = 1..(Len(q) - 1)
      /\ \A i \in 1..(Len(q) - 1) : Tail(q)[i] = q[i + 1]
  BY HeadTailProperties, LenProperties
<1>3. ToSet(Tail(q)) = ToSet(q) \ {Head(q)}
  <2>1. ASSUME NEW i \in 1..(Len(q) - 1)
        PROVE  q[i + 1] \in ToSet(q) \ {q[1]}
    BY <1>1 DEF ToSet, IsInjective
  <2>2. ToSet(Tail(q)) = {q[i + 1] : i \in 1..(Len(q) - 1)}
    BY <1>2 DEF ToSet
  <2>3. ToSet(q) = {q[i] : i \in 1..Len(q)}
    BY <1>1 DEF ToSet
  <2>4. ASSUME NEW y \in ToSet(q) \ {q[1]}
        PROVE  \E i \in 1..(Len(q) - 1) : y = q[i + 1]
    <3>1. PICK j \in 1..Len(q) : y = q[j]
      BY <2>3
    <3>2. j - 1 \in 1..(Len(q) - 1) /\ (j - 1) + 1 = j
      BY <1>1, <2>4, <3>1
    <3> QED BY <3>1, <3>2
  <2> QED BY <1>1, <2>1, <2>2, <2>4
<1>4. IsInjective(Tail(q))
  BY <1>1, <1>2 DEF IsInjective
<1>5. Head(q) \in ToSet(q)
  BY <1>1 DEF ToSet
<1> QED BY <1>1, <1>2, <1>3, <1>4, <1>5

\* A queue of distinct elements of a finite set that misses one of them is
\* shorter than the set is large.
LEMMA RoomForOne ==
  ASSUME NEW S, IsFiniteSet(S), NEW q \in Seq(S), IsInjective(q),
         NEW x \in S, x \notin ToSet(q)
  PROVE  Len(q) < Cardinality(S)
<1>1. Len(q) \in Nat /\ q \in [1..Len(q) -> S] /\ DOMAIN q = 1..Len(q)
  BY LenProperties
<1>2. q \in Injection(1..Len(q), S)
  BY <1>1 DEF Injection, IsInjective
<1>3. q \notin Surjection(1..Len(q), S)
  BY <1>1 DEF Surjection, ToSet
<1>4. Cardinality(1..Len(q)) = Len(q)
  BY <1>1, FS_Interval
<1>5. Cardinality(S) \in Nat
  BY FS_CardinalityType
<1>6. Len(q) <= Cardinality(S) /\ Len(q) # Cardinality(S)
  BY <1>2, <1>3, <1>4, FS_Injection
<1> QED BY <1>1, <1>5, <1>6

-----------------------------------------------------------------------------
(* The inductive invariant *)

\* With a rebuild hook, a damaged runtime is still in the guard of the request
\* that damaged it, and Drop can see why it must not go back.
DamageTracked ==
  Recycling =>
    \A s \in damaged :
      \E r \in Requests : held[r] = s /\ (s \in poisoned \/ r \in unwinding)

\* A request waits only while it has no runtime.
WaitersHoldNothing == \A r \in waiting : held[r] = None

\* Exclusive use and conservation need each other, and the argument that
\* try_send() cannot fail needs both.
IInv ==
  /\ TypeOK
  /\ Exclusive
  /\ Conserved
  /\ DamageTracked
  /\ NoDamagedReuse
  /\ NoLostWakeup
  /\ WaitersHoldNothing

\* Only runtimes of the pool are in the channel.
LEMMA QueuedFacts ==
  ASSUME TypeOK
  PROVE  Queued \subseteq Slots /\ None \notin Queued
BY NoneIsNoSlot, LenProperties DEF TypeOK, Queued, ToSet

\* Notifying one more waiter leaves no waiting set without a woken member.
LEMMA NotifiedFacts ==
  ASSUME NEW ws, NEW wk \in SUBSET ws, NEW w \in Notified(ws, wk)
  PROVE  w \subseteq ws /\ (ws # {} => w # {})
BY DEF Notified

\* A waiter that leaves keeps the wait sets in order and passes a wakeup on.
LEMMA LeaveFacts ==
  ASSUME TypeOK, NEW r \in Requests, Leave(r)
  PROVE  /\ waiting' \subseteq Requests
         /\ woken' \subseteq waiting'
         /\ woken # {} /\ waiting' # {} => woken' # {}
<1>1. CASE r \in woken
  <2>1. woken' \in Notified(waiting \ {r}, woken \ {r}) /\ waiting' = waiting \ {r}
    BY <1>1 DEF Leave
  <2>2. woken \ {r} \in SUBSET (waiting \ {r})
    BY DEF TypeOK
  <2> QED BY <2>1, <2>2, NotifiedFacts DEF TypeOK
<1>2. CASE r \notin woken
  BY <1>2 DEF Leave, TypeOK
<1> QED BY <1>1, <1>2

\* The capacity of the channel is the number of runtimes once there is one.
LEMMA CapacityFact ==
  ASSUME NEW s \in Slots
  PROVE  Capacity = Cardinality(Slots)
BY DEF Capacity

\* try_send() of a slot that is not in the channel finds room, always.
LEMMA TrySendFacts ==
  ASSUME TypeOK, IsInjective(idle), NEW s \in Slots, s \notin Queued, TrySend(s)
  PROVE  /\ idle' \in Seq(Slots)
         /\ idle' # <<>>
         /\ Queued' = Queued \cup {s}
         /\ IsInjective(idle')
         /\ refused' = refused
         /\ woken' \subseteq waiting
         /\ waiting # {} => woken' # {}
<1>1. Len(idle) < Capacity
  BY RoomForOne, CapacityFact, SlotsFinite DEF TypeOK, Queued
<1>2. /\ idle' = Append(idle, s)
      /\ woken' \in Notified(waiting, woken)
      /\ refused' = refused
  BY <1>1 DEF TrySend
<1>3. woken' \subseteq waiting /\ (waiting # {} => woken' # {})
  BY <1>2, NotifiedFacts DEF TypeOK
<1>4. /\ Append(idle, s) \in Seq(Slots)
      /\ ToSet(Append(idle, s)) = ToSet(idle) \cup {s}
      /\ IsInjective(Append(idle, s))
      /\ Append(idle, s) # <<>>
  BY AppendFacts DEF TypeOK, Queued
<1> QED BY <1>2, <1>3, <1>4 DEF Queued

\* What receiving does to the queue and to the guards.
LEMMA ReceiveFacts ==
  ASSUME TypeOK, IsInjective(idle), NEW r \in Requests, Receive(r)
  PROVE  \E s \in Slots :
           /\ s \in Queued
           /\ idle' \in Seq(Slots)
           /\ Queued' = Queued \ {s}
           /\ IsInjective(idle')
           /\ held' = [held EXCEPT ![r] = s]
           /\ held' \in [Requests -> Slots \cup {None}]
<1>1. /\ Head(idle) \in Slots
      /\ Head(idle) \in ToSet(idle)
      /\ Tail(idle) \in Seq(Slots)
      /\ ToSet(Tail(idle)) = ToSet(idle) \ {Head(idle)}
      /\ IsInjective(Tail(idle))
  BY TailFacts DEF TypeOK, Receive
<1>2. idle' = Tail(idle) /\ held' = [held EXCEPT ![r] = Head(idle)]
  BY DEF Receive
<1>3. held' \in [Requests -> Slots \cup {None}]
  BY <1>1, <1>2 DEF TypeOK
<1> QED BY <1>1, <1>2, <1>3 DEF Queued

-----------------------------------------------------------------------------
(* The initial states *)

\* Every build order fills the channel with each runtime exactly once.
LEMMA BuildOrderFacts ==
  ASSUME NEW q \in BuildOrders
  PROVE  q \in Seq(Slots) /\ IsInjective(q) /\ ToSet(q) = Slots
<1>1. Cardinality(Slots) \in Nat
  BY SlotsFinite, FS_CardinalityType
<1>2. q \in [1..Cardinality(Slots) -> Slots] /\ IsInjective(q)
  BY DEF BuildOrders
<1>3. q \in Injection(1..Cardinality(Slots), Slots)
  BY <1>2 DEF Injection
<1>4. Cardinality(1..Cardinality(Slots)) = Cardinality(Slots)
  BY <1>1, FS_Interval
<1>5. q \in Surjection(1..Cardinality(Slots), Slots)
  BY <1>3, <1>4, SlotsFinite, FS_Injection
<1>6. ToSet(q) = Slots
  BY <1>2, <1>5 DEF Surjection, ToSet
<1>7. q \in Seq(Slots)
  BY <1>1, <1>2, SeqDef
<1> QED BY <1>2, <1>6, <1>7

LEMMA InitInv == Init => IInv
<1> SUFFICES ASSUME Init PROVE IInv
  OBVIOUS
<1>1. idle \in Seq(Slots) /\ IsInjective(idle) /\ Queued = Slots
  BY BuildOrderFacts DEF Init, Queued
<1>2. TypeOK
  BY <1>1 DEF Init, TypeOK
<1>3. InUse = {}
  BY NoneIsNoSlot DEF Init, InUse
<1> QED
  BY <1>1, <1>2, <1>3, NoneIsNoSlot, RecyclingIsBoolean
  DEF Init, IInv, Exclusive, Conserved, DamageTracked, NoDamagedReuse,
      NoLostWakeup, WaitersHoldNothing

-----------------------------------------------------------------------------
(* The steps *)

\* Moving a runtime from the channel into an empty guard keeps every slot
\* accounted for and no damaged one in circulation.
LEMMA ReceivePreserves ==
  ASSUME IInv, NEW r \in Requests, held[r] = None, Receive(r),
         UNCHANGED <<poisoned, unwinding, rebuilding, lost, refused, damaged>>
  PROVE  /\ Exclusive' /\ Conserved' /\ DamageTracked' /\ NoDamagedReuse'
         /\ idle' \in Seq(Slots) /\ held' \in [Requests -> Slots \cup {None}]
         /\ \A q \in Requests : q # r => held'[q] = held[q]
<1>1. TypeOK /\ IsInjective(idle)
  BY DEF IInv, Exclusive
<1>2. PICK s \in Slots :
           /\ s \in Queued
           /\ idle' \in Seq(Slots)
           /\ Queued' = Queued \ {s}
           /\ IsInjective(idle')
           /\ held' = [held EXCEPT ![r] = s]
           /\ held' \in [Requests -> Slots \cup {None}]
  BY <1>1, ReceiveFacts
<1>3. /\ held'[r] = s
      /\ \A q \in Requests : q # r => held'[q] = held[q]
  BY <1>1, <1>2 DEF TypeOK
<1>4. Exclusive'
  BY <1>2, <1>3 DEF IInv, Exclusive
<1>5. InUse' = InUse \cup {s}
  BY <1>3, NoneIsNoSlot DEF InUse
<1>6. Conserved'
  BY <1>2, <1>3, <1>5 DEF IInv, Conserved
<1>7. DamageTracked'
  BY <1>3, NoneIsNoSlot, <1>1 DEF IInv, DamageTracked, TypeOK
<1>8. NoDamagedReuse'
  BY <1>2 DEF IInv, NoDamagedReuse
<1> QED BY <1>2, <1>3, <1>4, <1>6, <1>7, <1>8

LEMMA CheckoutPreserves ==
  ASSUME IInv, NEW r \in Requests, CheckoutStep(r)
  PROVE  IInv'
<1>0. TypeOK
  BY DEF IInv
<1>1. CASE CheckoutHit(r)
  <2>1. held[r] = None /\ r \notin waiting
    BY <1>1 DEF CheckoutHit, Away
  <2>2. /\ Exclusive' /\ Conserved' /\ DamageTracked' /\ NoDamagedReuse'
        /\ idle' \in Seq(Slots) /\ held' \in [Requests -> Slots \cup {None}]
        /\ \A q \in Requests : q # r => held'[q] = held[q]
    BY <1>1, <2>1, ReceivePreserves DEF CheckoutHit
  <2>3. TypeOK'
    BY <1>0, <1>1, <2>2 DEF CheckoutHit, TypeOK
  <2>4. NoLostWakeup'
    BY <1>1 DEF CheckoutHit, Receive, IInv, NoLostWakeup
  <2>5. WaitersHoldNothing'
    BY <1>0, <1>1, <2>1, <2>2 DEF CheckoutHit, IInv, WaitersHoldNothing, TypeOK
  <2> QED BY <2>2, <2>3, <2>4, <2>5 DEF IInv
<1>2. CASE CheckoutWait(r)
  <2> USE <1>2 DEF CheckoutWait
  <2>1. TypeOK'
    BY <1>0 DEF TypeOK
  <2>2. Exclusive' /\ Conserved' /\ DamageTracked' /\ NoDamagedReuse'
    BY DEF IInv, Exclusive, Conserved, DamageTracked, NoDamagedReuse, Queued, InUse
  <2>3. NoLostWakeup' /\ WaitersHoldNothing'
    BY DEF IInv, NoLostWakeup, WaitersHoldNothing, Away
  <2> QED BY <2>1, <2>2, <2>3 DEF IInv
<1>3. CASE WakeHit(r) \/ (Expire(r) /\ Receive(r))
  <2>1. r \in waiting /\ held[r] = None /\ Receive(r) /\ Leave(r)
    BY <1>0, <1>3 DEF WakeHit, Expire, IInv, TypeOK, WaitersHoldNothing
  <2>2. /\ Exclusive' /\ Conserved' /\ DamageTracked' /\ NoDamagedReuse'
        /\ idle' \in Seq(Slots) /\ held' \in [Requests -> Slots \cup {None}]
        /\ \A q \in Requests : q # r => held'[q] = held[q]
    BY <1>3, <2>1, ReceivePreserves DEF WakeHit, Expire
  <2>3. /\ waiting' \subseteq Requests
        /\ woken' \subseteq waiting'
        /\ woken # {} /\ waiting' # {} => woken' # {}
    BY <1>0, <2>1, LeaveFacts
  <2>4. TypeOK'
    BY <1>0, <1>3, <2>2, <2>3 DEF WakeHit, Expire, TypeOK
  <2>5. NoLostWakeup'
    BY <2>1, <2>3 DEF Receive, IInv, NoLostWakeup, Leave
  <2>6. WaitersHoldNothing'
    BY <1>0, <2>1, <2>2 DEF IInv, WaitersHoldNothing, TypeOK, Leave
  <2> QED BY <2>2, <2>4, <2>5, <2>6 DEF IInv
<1>4. CASE WakeMiss(r)
  <2> USE <1>4 DEF WakeMiss
  <2>1. TypeOK'
    BY <1>0 DEF TypeOK
  <2>2. Exclusive' /\ Conserved' /\ DamageTracked' /\ NoDamagedReuse'
    BY DEF IInv, Exclusive, Conserved, DamageTracked, NoDamagedReuse, Queued, InUse
  <2>3. NoLostWakeup' /\ WaitersHoldNothing'
    BY DEF IInv, NoLostWakeup, WaitersHoldNothing
  <2> QED BY <2>1, <2>2, <2>3 DEF IInv
<1>5. CASE Cancel(r) \/ (Expire(r) /\ UNCHANGED <<idle, held>>)
  <2>1. Leave(r) /\ UNCHANGED <<idle, held, poisoned, unwinding, rebuilding,
                                lost, refused, damaged>>
    BY <1>5 DEF Cancel, Expire
  <2>2. /\ waiting' \subseteq Requests
        /\ woken' \subseteq waiting'
        /\ woken # {} /\ waiting' # {} => woken' # {}
    BY <1>0, <2>1, LeaveFacts
  <2>3. TypeOK'
    BY <1>0, <2>1, <2>2 DEF TypeOK
  <2>4. Exclusive' /\ Conserved' /\ DamageTracked' /\ NoDamagedReuse'
    BY <2>1 DEF IInv, Exclusive, Conserved, DamageTracked, NoDamagedReuse, Queued,
                InUse
  <2>5. NoLostWakeup' /\ WaitersHoldNothing'
    BY <2>1, <2>2 DEF IInv, NoLostWakeup, WaitersHoldNothing, Leave
  <2> QED BY <2>3, <2>4, <2>5 DEF IInv
<1> QED BY <1>1, <1>2, <1>3, <1>4, <1>5 DEF CheckoutStep, Expire

\* A runtime leaves r's guard and goes back to the channel.
LEMMA DropReturnPreserves ==
  ASSUME IInv, NEW r \in Requests, DropReturn(r)
  PROVE  IInv' /\ Queued' = Queued \cup {held[r]}
<1> DEFINE s == held[r]
<1>0. TypeOK /\ IsInjective(idle) /\ s \in Slots /\ s \notin Queued
  BY DEF IInv, Exclusive, DropReturn, TypeOK
<1>1. /\ idle' \in Seq(Slots)
      /\ idle' # <<>>
      /\ Queued' = Queued \cup {s}
      /\ IsInjective(idle')
      /\ refused' = refused
      /\ woken' \subseteq waiting
      /\ waiting # {} => woken' # {}
  BY <1>0, TrySendFacts DEF DropReturn
<1>2. /\ held' = [held EXCEPT ![r] = None]
      /\ unwinding' = unwinding \ {r}
      /\ UNCHANGED <<waiting, poisoned, rebuilding, lost, damaged>>
  BY DEF DropReturn
<1>3. /\ held' \in [Requests -> Slots \cup {None}]
      /\ held'[r] = None
      /\ \A q \in Requests : q # r => held'[q] = held[q]
  BY <1>0, <1>2 DEF TypeOK
<1>4. TypeOK'
  BY <1>0, <1>1, <1>2, <1>3 DEF TypeOK
<1>5. Exclusive'
  BY <1>0, <1>1, <1>3, QueuedFacts, NoneIsNoSlot DEF IInv, Exclusive
<1>6. InUse' = InUse \ {s}
  BY <1>0, <1>3, NoneIsNoSlot DEF InUse, IInv, Exclusive
<1>7. Conserved'
  BY <1>0, <1>1, <1>2, <1>3, <1>6, NoneIsNoSlot DEF IInv, Conserved, TypeOK
<1>8. Recycling => s \notin damaged
  BY <1>0 DEF DropReturn, GoesBack, IInv, DamageTracked, Exclusive
<1>9. DamageTracked'
  BY <1>0, <1>2, <1>3, <1>8 DEF IInv, DamageTracked
<1>10. NoDamagedReuse'
  BY <1>1, <1>2, <1>8 DEF IInv, NoDamagedReuse
<1>11. NoLostWakeup' /\ WaitersHoldNothing'
  BY <1>0, <1>1, <1>2, <1>3 DEF IInv, NoLostWakeup, WaitersHoldNothing, TypeOK
<1> QED BY <1>1, <1>4, <1>5, <1>7, <1>9, <1>10, <1>11 DEF IInv

\* A runtime leaves r's guard to be rebuilt.
LEMMA DropRecyclePreserves ==
  ASSUME IInv, NEW r \in Requests, DropRecycle(r)
  PROVE  IInv'
<1> DEFINE s == held[r]
<1>0. TypeOK /\ s \in Slots /\ s \notin Queued
  BY DEF IInv, Exclusive, DropRecycle, TypeOK
<1>1. /\ held' = [held EXCEPT ![r] = None]
      /\ rebuilding' = rebuilding \cup {s}
      /\ poisoned' = poisoned \ {s}
      /\ damaged' = damaged \ {s}
      /\ unwinding' = unwinding \ {r}
      /\ UNCHANGED <<idle, waiting, woken, lost, refused>>
      /\ Recycling
  BY DEF DropRecycle
<1>2. /\ held' \in [Requests -> Slots \cup {None}]
      /\ held'[r] = None
      /\ \A q \in Requests : q # r => held'[q] = held[q]
  BY <1>0, <1>1 DEF TypeOK
<1>3. TypeOK'
  BY <1>0, <1>1, <1>2 DEF TypeOK
<1>4. Queued' = Queued
  BY <1>1 DEF Queued
<1>5. Exclusive'
  BY <1>0, <1>1, <1>2, <1>4, QueuedFacts DEF IInv, Exclusive
<1>6. InUse' = InUse \ {s}
  BY <1>0, <1>2, NoneIsNoSlot DEF InUse, IInv, Exclusive
<1>7. Conserved'
  BY <1>0, <1>1, <1>2, <1>4, <1>6, NoneIsNoSlot DEF IInv, Conserved, TypeOK,
     Exclusive
<1>8. DamageTracked'
  BY <1>0, <1>1, <1>2 DEF IInv, DamageTracked
<1>9. NoDamagedReuse'
  BY <1>1, <1>4 DEF IInv, NoDamagedReuse
<1>10. NoLostWakeup' /\ WaitersHoldNothing'
  BY <1>0, <1>1, <1>2 DEF IInv, NoLostWakeup, WaitersHoldNothing, TypeOK
<1> QED BY <1>3, <1>5, <1>7, <1>8, <1>9, <1>10 DEF IInv

LEMMA UsePreserves ==
  ASSUME IInv, NEW r \in Requests, UseStep(r)
  PROVE  IInv'
<1>1. CASE Poison(r) \/ Panic(r)
  <2>1. /\ held[r] \in Slots
        /\ damaged' = damaged \cup {held[r]}
        /\ poisoned \subseteq poisoned' /\ poisoned' \subseteq Slots
        /\ unwinding \subseteq unwinding' /\ unwinding' \subseteq Requests
        /\ held[r] \in poisoned' \/ r \in unwinding'
        /\ UNCHANGED <<idle, held, waiting, woken, rebuilding, lost, refused>>
    BY <1>1 DEF Poison, Panic, IInv, TypeOK
  <2>2. TypeOK'
    BY <2>1 DEF IInv, TypeOK
  <2>3. Exclusive' /\ Conserved' /\ NoLostWakeup' /\ WaitersHoldNothing'
    BY <2>1 DEF IInv, Exclusive, Conserved, NoLostWakeup, WaitersHoldNothing,
                Queued, InUse
  <2>4. DamageTracked'
    BY <2>1 DEF IInv, DamageTracked
  <2>5. NoDamagedReuse'
    BY <2>1 DEF IInv, NoDamagedReuse, Exclusive, Queued
  <2> QED BY <2>2, <2>3, <2>4, <2>5 DEF IInv
<1> QED BY <1>1, DropReturnPreserves, DropRecyclePreserves DEF UseStep

LEMMA RebuildOkPreserves ==
  ASSUME IInv, NEW s \in Slots, RebuildOk(s)
  PROVE  IInv' /\ Queued' = Queued \cup {s}
<1>0. TypeOK /\ IsInjective(idle) /\ s \in rebuilding /\ s \notin Queued
  BY DEF IInv, Exclusive, RebuildOk, Conserved
<1>1. /\ idle' \in Seq(Slots)
      /\ idle' # <<>>
      /\ Queued' = Queued \cup {s}
      /\ IsInjective(idle')
      /\ refused' = refused
      /\ woken' \subseteq waiting
      /\ waiting # {} => woken' # {}
  BY <1>0, TrySendFacts DEF RebuildOk
<1>2. /\ rebuilding' = rebuilding \ {s}
      /\ UNCHANGED <<held, waiting, poisoned, unwinding, lost, damaged>>
  BY DEF RebuildOk
<1>3. TypeOK'
  BY <1>0, <1>1, <1>2 DEF TypeOK
<1>4. \A r \in Requests : held[r] # s
  BY <1>0 DEF IInv, Conserved
<1>5. Exclusive'
  BY <1>1, <1>2, <1>4 DEF IInv, Exclusive
<1>6. Conserved'
  BY <1>0, <1>1, <1>2 DEF IInv, Conserved, InUse
<1>7. DamageTracked'
  BY <1>2 DEF IInv, DamageTracked
<1>8. Recycling => s \notin damaged
  BY <1>4 DEF IInv, DamageTracked
<1>9. NoDamagedReuse'
  BY <1>0, <1>1, <1>2, <1>8 DEF IInv, NoDamagedReuse
<1>10. NoLostWakeup' /\ WaitersHoldNothing'
  BY <1>0, <1>1, <1>2 DEF IInv, NoLostWakeup, WaitersHoldNothing
<1> QED BY <1>1, <1>3, <1>5, <1>6, <1>7, <1>9, <1>10 DEF IInv

LEMMA RebuildFailPreserves ==
  ASSUME IInv, NEW s \in Slots, RebuildFail(s)
  PROVE  IInv'
<1>1. /\ s \in rebuilding
      /\ rebuilding' = rebuilding \ {s}
      /\ lost' = lost \cup {s}
      /\ UNCHANGED <<idle, held, waiting, woken, poisoned, unwinding, refused,
                     damaged>>
  BY DEF RebuildFail
<1>2. TypeOK'
  BY <1>1 DEF IInv, TypeOK
<1>3. Exclusive' /\ DamageTracked' /\ NoLostWakeup' /\ WaitersHoldNothing'
  BY <1>1 DEF IInv, Exclusive, DamageTracked, NoLostWakeup, WaitersHoldNothing,
              Queued
<1>4. Conserved'
  BY <1>1 DEF IInv, Conserved, Queued, InUse
<1>5. NoDamagedReuse'
  BY <1>1 DEF IInv, NoDamagedReuse, Queued
<1> QED BY <1>2, <1>3, <1>4, <1>5 DEF IInv

LEMMA NextInv == IInv /\ [Next]_vars => IInv'
<1> SUFFICES ASSUME IInv, [Next]_vars PROVE IInv'
  OBVIOUS
<1>1. CASE UNCHANGED vars
  BY <1>1 DEF vars, IInv, TypeOK, Exclusive, Conserved, DamageTracked,
     NoDamagedReuse, NoLostWakeup, WaitersHoldNothing, Queued, InUse
<1>2. CASE \E r \in Requests : CheckoutStep(r) \/ UseStep(r)
  BY <1>2, CheckoutPreserves, UsePreserves
<1>3. CASE \E s \in Slots : RebuildStep(s)
  BY <1>3, RebuildOkPreserves, RebuildFailPreserves DEF RebuildStep
<1> QED BY <1>1, <1>2, <1>3 DEF Next

-----------------------------------------------------------------------------
(* The theorems *)

LEMMA Invariance == Spec => []IInv
<1> QED BY InitInv, NextInv, PTL DEF Spec

\* The pool's state keeps its types.
THEOREM TypeCorrect == Spec => []TypeOK
<1>1. IInv => TypeOK
  BY DEF IInv
<1> QED BY <1>1, Invariance, PTL

\* A runtime is in at most one place: one guard, or one position of the channel.
THEOREM ExclusiveUse == Spec => []Exclusive
<1>1. IInv => Exclusive
  BY DEF IInv
<1> QED BY <1>1, Invariance, PTL

\* The pool loses capacity to a failed rebuild and to nothing else; in
\* particular the try_send() whose error Drop ignores always succeeds.
THEOREM CapacityConserved == Spec => []Conserved
<1>1. IInv => Conserved
  BY DEF IInv
<1> QED BY <1>1, Invariance, PTL

\* A pool that recycles never hands a damaged runtime on; one that does not
\* recycle never shrinks.
THEOREM NoDamagedRuntimeReused == Spec => []NoDamagedReuse
<1>1. IInv => NoDamagedReuse
  BY DEF IInv
<1> QED BY <1>1, Invariance, PTL

\* The three together: what the pool's users rely on.
THEOREM PoolSafety == Spec => []PoolIsSafe
<1>1. IInv => PoolIsSafe
  BY DEF IInv, PoolIsSafe
<1> QED BY <1>1, Invariance, PTL

\* An idle runtime and a waiting request imply a woken request.
THEOREM WakeupsAreNotLost == Spec => []NoLostWakeup
<1>1. IInv => NoLostWakeup
  BY DEF IInv
<1> QED BY <1>1, Invariance, PTL

-----------------------------------------------------------------------------
(* Refinement *)

\* Each step moves at most one slot the way an abstract step does.
LEMMA StepRefines == IInv /\ [Next]_vars => [Abstract!Next]_(Abstract!rpVars)
<1> SUFFICES ASSUME IInv, [Next]_vars
             PROVE  Abstract!Next \/ UNCHANGED Abstract!rpVars
  BY DEF Abstract!rpVars
<1> USE DEF Abstract!rpVars
<1>0. TypeOK /\ IsInjective(idle)
  BY DEF IInv, Exclusive
<1>1. CASE UNCHANGED vars
  BY <1>1 DEF vars, Queued
<1>2. ASSUME NEW r \in Requests, CheckoutStep(r)
      PROVE  Abstract!Next \/ UNCHANGED Abstract!rpVars
  <2>1. CASE Receive(r) /\ held[r] = None /\ UNCHANGED <<rebuilding, lost>>
    <3>1. PICK s \in Slots : /\ s \in Queued
                             /\ Queued' = Queued \ {s}
                             /\ held' = [held EXCEPT ![r] = s]
      BY <1>0, <2>1, ReceiveFacts
    <3>2. Abstract!Take(r, s)
      BY <2>1, <3>1 DEF Abstract!Take
    <3> QED BY <3>2 DEF Abstract!Next
  <2>2. CASE UNCHANGED <<idle, held, rebuilding, lost>>
    BY <2>2 DEF Queued
  <2>3. r \in waiting => held[r] = None
    BY DEF IInv, WaitersHoldNothing
  <2> QED
    BY <1>0, <1>2, <2>1, <2>2, <2>3
    DEF CheckoutStep, CheckoutHit, CheckoutWait, WakeHit, WakeMiss, Expire, Cancel,
        Away, TypeOK
<1>3. ASSUME NEW r \in Requests, UseStep(r)
      PROVE  Abstract!Next \/ UNCHANGED Abstract!rpVars
  <2>1. CASE Poison(r) \/ Panic(r)
    BY <2>1 DEF Poison, Panic, Queued
  <2>2. CASE DropReturn(r)
    <3>1. Queued' = Queued \cup {held[r]}
      BY <2>2, DropReturnPreserves
    <3>2. Abstract!GiveBack(r)
      BY <2>2, <3>1 DEF DropReturn, Abstract!GiveBack
    <3> QED BY <3>2 DEF Abstract!Next
  <2>3. CASE DropRecycle(r)
    <3>1. Abstract!Retire(r)
      BY <2>3 DEF DropRecycle, Abstract!Retire, Queued
    <3> QED BY <3>1 DEF Abstract!Next
  <2> QED BY <1>3, <2>1, <2>2, <2>3 DEF UseStep
<1>4. ASSUME NEW s \in Slots, RebuildStep(s)
      PROVE  Abstract!Next \/ UNCHANGED Abstract!rpVars
  <2>1. CASE RebuildOk(s)
    <3>1. Queued' = Queued \cup {s}
      BY <2>1, RebuildOkPreserves
    <3>2. Abstract!Replace(s)
      BY <2>1, <3>1 DEF RebuildOk, Abstract!Replace
    <3> QED BY <3>2 DEF Abstract!Next
  <2>2. CASE RebuildFail(s)
    <3>1. Abstract!GiveUp(s)
      BY <2>2 DEF RebuildFail, Abstract!GiveUp, Queued
    <3> QED BY <3>1 DEF Abstract!Next
  <2> QED BY <1>4, <2>1, <2>2 DEF RebuildStep
<1> QED BY <1>1, <1>2, <1>3, <1>4 DEF Next

\* The channel, its wait queue, the guards and the rebuild jobs together behave
\* like the abstract pool of exclusive resources.
THEOREM PoolRefinement == Spec => ImplementsResourcePool
<1>1. Init => Abstract!Init
  BY BuildOrderFacts DEF Init, Abstract!Init, Queued
<1> QED BY <1>1, StepRefines, Invariance, PTL DEF Spec, Abstract!Spec, ImplementsResourcePool
=============================================================================
