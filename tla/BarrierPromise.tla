-------------------------- MODULE BarrierPromise --------------------------
(***************************************************************************)
(* What HierarchicBarrier::wait promises the threads of a group: in every  *)
(* round all threads come together, one of them runs the finalizer while   *)
(* the others stand still, and only then does anybody go on.  How the tree *)
(* of counters achieves it is in HierarchicBarrier.                        *)
(***************************************************************************)
CONSTANT Threads

VARIABLES
  arrived,    \* who has come to the barrier in this round
  released    \* who may leave it: the round is over

vars == <<arrived, released>>

Init == arrived = {} /\ released = {}

\* A fast thread may come for the next round while slow ones have not left.
Enter(t) ==
  /\ t \notin arrived \cup released
  /\ arrived' = arrived \cup {t}
  /\ UNCHANGED released

Finalize ==
  /\ arrived = Threads /\ released = {}
  /\ arrived' = {}
  /\ released' = Threads

Leave(t) ==
  /\ t \in released
  /\ released' = released \ {t}
  /\ UNCHANGED arrived

Next == Finalize \/ \E t \in Threads : Enter(t) \/ Leave(t)

\* Nobody has to come, but who is let go leaves.
Fairness == WF_vars(Finalize) /\ \A t \in Threads : WF_vars(Leave(t))

SafeSpec == Init /\ [][Next]_vars

Spec == SafeSpec /\ Fairness
=============================================================================
