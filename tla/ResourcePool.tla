---------------------------- MODULE ResourcePool ----------------------------
(***************************************************************************)
(* What a pool of exclusive resources promises its users, with no channel, *)
(* no wait queue and no rebuild hook: every resource is free, used by one  *)
(* user, under repair or gone for good, and moves between these only in    *)
(* the ways below.  RuntimePool is shown to implement this specification.  *)
(***************************************************************************)
CONSTANTS Resources, Users, Nobody

VARIABLES
  free,      \* resources a user may take
  using,     \* using[u]: the resource u holds, or Nobody when it holds none
  repair,    \* resources taken out of service and being replaced
  gone       \* resources that could not be replaced

rpVars == <<free, using, repair, gone>>

Init ==
  /\ free = Resources
  /\ using = [u \in Users |-> Nobody]
  /\ repair = {}
  /\ gone = {}

\* A user without a resource takes a free one.
Take(u, s) ==
  /\ using[u] = Nobody
  /\ s \in free
  /\ free' = free \ {s}
  /\ using' = [using EXCEPT ![u] = s]
  /\ UNCHANGED <<repair, gone>>

\* A user gives its resource back for the next one.
GiveBack(u) ==
  /\ using[u] # Nobody
  /\ free' = free \cup {using[u]}
  /\ using' = [using EXCEPT ![u] = Nobody]
  /\ UNCHANGED <<repair, gone>>

\* A user's damaged resource leaves service instead.
Retire(u) ==
  /\ using[u] # Nobody
  /\ repair' = repair \cup {using[u]}
  /\ using' = [using EXCEPT ![u] = Nobody]
  /\ UNCHANGED <<free, gone>>

\* The replacement of a retired resource enters service.
Replace(s) ==
  /\ s \in repair
  /\ repair' = repair \ {s}
  /\ free' = free \cup {s}
  /\ UNCHANGED <<using, gone>>

\* No replacement could be made: the pool is one smaller.
GiveUp(s) ==
  /\ s \in repair
  /\ repair' = repair \ {s}
  /\ gone' = gone \cup {s}
  /\ UNCHANGED <<free, using>>

Next ==
  \/ \E u \in Users : GiveBack(u) \/ Retire(u) \/ \E s \in Resources : Take(u, s)
  \/ \E s \in Resources : Replace(s) \/ GiveUp(s)

Spec == Init /\ [][Next]_rpVars
=============================================================================
