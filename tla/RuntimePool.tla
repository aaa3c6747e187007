---------------------------- MODULE RuntimePool -----------------------------
(***************************************************************************)
(* The pool of Lua runtimes of crates/nitr-core/src/runtime/pool.rs.       *)
(*                                                                         *)
(* Runtimes wait in a bounded MPMC channel.  A request receives one,       *)
(* owns it through a RuntimeGuard, and the guard's Drop puts it back, or,  *)
(* when the request left it damaged, drops it and has a blocking worker    *)
(* build a replacement.  A request that finds the channel empty waits,     *)
(* with or without a bound on the wait.                                    *)
(*                                                                         *)
(* A slot stands for one unit of the pool's capacity: a state and, after a *)
(* rebuild, the state that replaced it.  The channel's queue is modelled   *)
(* as it is; its waiters are external (async-channel over event-listener): *)
(* a send wakes one waiter that was not woken yet, in no particular order, *)
(* a woken waiter tries to receive again and registers anew when the queue *)
(* is empty, and a woken waiter that leaves passes its wakeup on.          *)
(***************************************************************************)
EXTENDS Naturals, Sequences, FiniteSets, SequencesExt

CONSTANTS
  Slots,       \* the runtimes the pool is built with
  Requests,    \* the requests that check runtimes out, again and again
  None,        \* the absence of a slot
  Recycling,   \* the pool was built with a rebuild hook (with_rebuild)
  Bounded      \* the requests whose wait is bounded: get_timeout(), not get()

ASSUME SlotsFinite == IsFiniteSet(Slots)
ASSUME NoneIsNoSlot == None \notin Slots
ASSUME RecyclingIsBoolean == Recycling \in BOOLEAN
ASSUME BoundedAreRequests == Bounded \subseteq Requests

VARIABLES
  idle,        \* the channel's queue of runtimes
  held,        \* held[r]: the slot in r's guard, or None
  waiting,     \* requests whose recv() found the queue empty
  woken,       \* those of them a send has woken since
  poisoned,    \* slots whose runtime carries the poisoned flag
  unwinding,   \* requests whose task is unwinding from a panic
  rebuilding,  \* slots whose replacement is being built
  lost,        \* slots whose replacement could not be built
  refused,     \* slots whose runtime a full channel refused (and dropped)
  damaged      \* history: slots whose runtime was ever damaged in use

vars == <<idle, held, waiting, woken, poisoned, unwinding, rebuilding, lost,
          refused, damaged>>

\* Mutant: the channel is one slot too small for the runtimes.
Capacity_oneShort == IF Cardinality(Slots) <= 1 THEN 1 ELSE Cardinality(Slots) - 1

\* bounded(runtimes.len().max(1))
Capacity == IF Slots = {} THEN 1 ELSE Cardinality(Slots)

\* The slots in the channel.
Queued == ToSet(idle)

\* The slots in guards.
InUse == {s \in Slots : \E r \in Requests : held[r] = s}

\* Some order the runtimes were pushed in: build() sends each one once.
BuildOrders == {q \in [1..Cardinality(Slots) -> Slots] : IsInjective(q)}

Init ==
  /\ idle \in BuildOrders
  /\ held = [r \in Requests |-> None]
  /\ waiting = {}
  /\ woken = {}
  /\ poisoned = {}
  /\ unwinding = {}
  /\ rebuilding = {}
  /\ lost = {}
  /\ refused = {}
  /\ damaged = {}

-----------------------------------------------------------------------------
(* The channel's waiters *)

\* The outcomes of notifying one more waiter among ws when wk are woken.
Notified(ws, wk) ==
  IF ws \subseteq wk THEN {wk} ELSE {wk \cup {q} : q \in ws \ wk}

\* Waiter r stops waiting; a wakeup it had not used goes to another one.
Leave(r) ==
  /\ waiting' = waiting \ {r}
  /\ IF r \in woken
       THEN woken' \in Notified(waiting \ {r}, woken \ {r})
       ELSE woken' = woken

\* Mutant: the runtime is put back without telling the requests that wait.
TrySend_silent(s) ==
  IF Len(idle) < Capacity
    THEN /\ idle' = Append(idle, s)
         /\ UNCHANGED <<woken, refused>>
    ELSE /\ refused' = refused \cup {s}
         /\ UNCHANGED <<idle, woken>>

\* tx.try_send(slot): a full channel drops the runtime it is given.
TrySend(s) ==
  IF Len(idle) < Capacity
    THEN /\ idle' = Append(idle, s)
         /\ woken' \in Notified(waiting, woken)
         /\ UNCHANGED refused
    ELSE /\ refused' = refused \cup {s}
         /\ UNCHANGED <<idle, woken>>

\* Mutant: the runtime handed out also stays in the channel.
Receive_shared(r) ==
  /\ idle # <<>>
  /\ held' = [held EXCEPT ![r] = Head(idle)]
  /\ UNCHANGED idle

\* guard(rt): the received runtime moves into r's guard.
Receive(r) ==
  /\ idle # <<>>
  /\ held' = [held EXCEPT ![r] = Head(idle)]
  /\ idle' = Tail(idle)

-----------------------------------------------------------------------------
(* Checkout: get() and get_timeout() *)

Away(r) == held[r] = None /\ r \notin waiting

\* A runtime is idle: the try_recv() fast path, or recv()'s first attempt.
CheckoutHit(r) ==
  /\ Away(r)
  /\ Receive(r)
  /\ UNCHANGED <<waiting, woken, poisoned, unwinding, rebuilding, lost,
                 refused, damaged>>

\* None is idle: recv() registers the request with the channel.
CheckoutWait(r) ==
  /\ Away(r)
  /\ idle = <<>>
  /\ waiting' = waiting \cup {r}
  /\ UNCHANGED <<idle, held, woken, poisoned, unwinding, rebuilding, lost,
                 refused, damaged>>

\* A woken waiter receives a runtime.
WakeHit(r) ==
  /\ r \in woken
  /\ Receive(r)
  /\ Leave(r)
  /\ UNCHANGED <<poisoned, unwinding, rebuilding, lost, refused, damaged>>

\* A woken waiter finds that a newcomer was quicker and waits again.
WakeMiss(r) ==
  /\ r \in woken
  /\ idle = <<>>
  /\ woken' = woken \ {r}
  /\ UNCHANGED <<idle, held, waiting, poisoned, unwinding, rebuilding, lost,
                 refused, damaged>>

\* Mutant: the timer is armed only for a waiter that was woken once.
Expire_onlyWoken(r) ==
  /\ r \in Bounded
  /\ r \in woken
  /\ \/ Receive(r)
     \/ idle = <<>> /\ UNCHANGED <<idle, held>>
  /\ Leave(r)
  /\ UNCHANGED <<poisoned, unwinding, rebuilding, lost, refused, damaged>>

\* The wait runs out.  The timer polls recv() a last time: a runtime that is
\* idle at that moment is still taken, and only an empty queue sheds.
Expire(r) ==
  /\ r \in Bounded
  /\ r \in waiting
  /\ \/ Receive(r)
     \/ idle = <<>> /\ UNCHANGED <<idle, held>>
  /\ Leave(r)
  /\ UNCHANGED <<poisoned, unwinding, rebuilding, lost, refused, damaged>>

\* The waiting request's future is dropped (its client disconnected).
Cancel(r) ==
  /\ r \in waiting
  /\ Leave(r)
  /\ UNCHANGED <<idle, held, poisoned, unwinding, rebuilding, lost, refused,
                 damaged>>

-----------------------------------------------------------------------------
(* Use and return: Runtime::classify() and RuntimeGuard::drop() *)

\* The call ended in an error the state cannot recover from.
Poison(r) ==
  /\ held[r] # None
  /\ r \notin unwinding
  /\ poisoned' = poisoned \cup {held[r]}
  /\ damaged' = damaged \cup {held[r]}
  /\ UNCHANGED <<idle, held, waiting, woken, unwinding, rebuilding, lost,
                 refused>>

\* The request's task panics with the guard alive: nothing marks the state.
Panic(r) ==
  /\ held[r] # None
  /\ unwinding' = unwinding \cup {r}
  /\ damaged' = damaged \cup {held[r]}
  /\ UNCHANGED <<idle, held, waiting, woken, poisoned, rebuilding, lost,
                 refused>>

\* Mutant: Drop asks the flag only, not thread::panicking().
GoesBack_flagOnly(r) == held[r] \notin poisoned

\* The runtime in r's guard goes back as it is.
GoesBack(r) == held[r] \notin poisoned /\ r \notin unwinding

\* Drop for RuntimeGuard, when the runtime is returned to the channel: it is
\* fit, or there is no hook that could replace it.
DropReturn(r) ==
  /\ held[r] # None
  /\ GoesBack(r) \/ ~Recycling
  /\ TrySend(held[r])
  /\ held' = [held EXCEPT ![r] = None]
  /\ unwinding' = unwinding \ {r}
  /\ UNCHANGED <<waiting, poisoned, rebuilding, lost, damaged>>

\* Drop for RuntimeGuard, when the runtime is recycled: it is dropped first
\* and the rebuild runs on a blocking worker.
DropRecycle(r) ==
  /\ held[r] # None
  /\ ~GoesBack(r)
  /\ Recycling
  /\ rebuilding' = rebuilding \cup {held[r]}
  /\ poisoned' = poisoned \ {held[r]}
  /\ damaged' = damaged \ {held[r]}
  /\ held' = [held EXCEPT ![r] = None]
  /\ unwinding' = unwinding \ {r}
  /\ UNCHANGED <<idle, waiting, woken, lost, refused>>

\* The blocking worker built a replacement and sends it.
RebuildOk(s) ==
  /\ s \in rebuilding
  /\ rebuilding' = rebuilding \ {s}
  /\ TrySend(s)
  /\ UNCHANGED <<held, waiting, poisoned, unwinding, lost, damaged>>

\* Mutant: a panicking rebuild job leaves the slot neither lost nor rebuilding.
RebuildFail_forgets(s) ==
  /\ s \in rebuilding
  /\ rebuilding' = rebuilding \ {s}
  /\ UNCHANGED <<idle, held, waiting, woken, poisoned, unwinding, lost, refused,
                 damaged>>

\* The rebuild failed or panicked: the slot is lost until the next reload.
RebuildFail(s) ==
  /\ s \in rebuilding
  /\ rebuilding' = rebuilding \ {s}
  /\ lost' = lost \cup {s}
  /\ UNCHANGED <<idle, held, waiting, woken, poisoned, unwinding, refused,
                 damaged>>

-----------------------------------------------------------------------------
CheckoutStep(r) ==
  \/ CheckoutHit(r)
  \/ CheckoutWait(r)
  \/ WakeHit(r)
  \/ WakeMiss(r)
  \/ Expire(r)
  \/ Cancel(r)

UseStep(r) == Poison(r) \/ Panic(r) \/ DropReturn(r) \/ DropRecycle(r)

RebuildStep(s) == RebuildOk(s) \/ RebuildFail(s)

Next ==
  \/ \E r \in Requests : CheckoutStep(r) \/ UseStep(r)
  \/ \E s \in Slots : RebuildStep(s)

Spec == Init /\ [][Next]_vars

(***************************************************************************)
(* Fairness.  A woken task is polled and an expired timer fires (the       *)
(* executor), a handler ends within its execution budget and its guard is  *)
(* dropped, and the blocking worker runs its job.  Nobody is obliged to    *)
(* send requests, to fail or to cancel.                                    *)
(***************************************************************************)
Fairness ==
  /\ \A r \in Requests :
       /\ WF_vars(WakeHit(r) \/ WakeMiss(r))
       /\ WF_vars(Expire(r))
       /\ WF_vars(DropReturn(r) \/ DropRecycle(r))
  /\ \A s \in Slots : WF_vars(RebuildStep(s))

FairSpec == Spec /\ Fairness

-----------------------------------------------------------------------------
(* Properties *)

\* Type correctness of the pool's state.
TypeOK ==
  /\ idle \in Seq(Slots)
  /\ held \in [Requests -> Slots \cup {None}]
  /\ woken \subseteq waiting
  /\ waiting \subseteq Requests
  /\ poisoned \subseteq Slots
  /\ unwinding \subseteq Requests
  /\ rebuilding \subseteq Slots
  /\ lost \subseteq Slots
  /\ refused \subseteq Slots
  /\ damaged \subseteq Slots

\* Exclusive use: no runtime is in two guards, twice in the channel, or in a
\* guard and the channel at once (RuntimePool: "uses it exclusively").
Exclusive ==
  /\ \A r, q \in Requests : held[r] = held[q] /\ held[r] # None => r = q
  /\ IsInjective(idle)
  /\ \A r \in Requests : held[r] \notin Queued

\* No slot leaks: each one is in the channel, in a guard, being rebuilt or
\* lost to a failed rebuild, and only one of these.  What is never the case
\* is that try_send() met a full channel ("Cannot fail: capacity equals the
\* number of runtimes"), whose error Drop and the rebuild job ignore.
Conserved ==
  /\ refused = {}
  /\ Slots = Queued \cup InUse \cup rebuilding \cup lost
  /\ Queued \cap (rebuilding \cup lost) = {}
  /\ rebuilding \cap lost = {}
  /\ \A r \in Requests : held[r] \notin rebuilding \cup lost

\* With a rebuild hook a damaged state never re-enters the channel, whether
\* the call marked it or a panic unwound past every mark.  Without one the
\* pool keeps its size instead: no slot is ever rebuilding or lost.
NoDamagedReuse ==
  IF Recycling THEN Queued \cap damaged = {}
               ELSE rebuilding = {} /\ lost = {}

\* The channel is safe: no runtime is shared, lost or handed on damaged.
PoolIsSafe == Exclusive /\ Conserved /\ NoDamagedReuse

\* No wakeup is lost: while a runtime is idle and requests wait, one of them
\* has been woken and will try again, whatever timed out or was cancelled.
NoLostWakeup == idle # <<>> /\ waiting # {} => woken # {}

\* Idle runtimes and waiting requests do not stay side by side: a get() with
\* no bound on its wait is not left behind while a runtime sits idle.
IdleIsTaken == (idle # <<>> /\ waiting # {}) ~> (idle = <<>> \/ waiting = {})

\* A bounded checkout never queues without limit: every waiter is served, shed
\* or gone in the end, even when the pool has lost all of its capacity.
WaitEnds == \A r \in Bounded : (r \in waiting) ~> (r \notin waiting)

\* Whoever waits at the pool is served as soon as a runtime is there, and a
\* bounded wait ends.
WaitersAreServed == IdleIsTaken /\ WaitEnds

\* The pool implements the abstract pool of exclusive resources.
Abstract == INSTANCE ResourcePool
              WITH Resources <- Slots, Users <- Requests, Nobody <- None,
                   free <- Queued, using <- held, repair <- rebuilding,
                   gone <- lost

\* Every step of the channel, the guards and the rebuild jobs is a step of the
\* abstract pool or invisible to it.
ImplementsResourcePool == Abstract!Spec
=============================================================================
