------------------------- MODULE DeviceRendezvous -------------------------
(***************************************************************************)
(* What the two threads that serve one device promise each other: the      *)
(* coordinator (exchange_query_graph::process_in_device) hands the worker  *)
(* (process_op) one vertex at a time, the worker executes exactly that     *)
(* vertex exactly once and gives the device back, and after the end marker *)
(* INT_MAX the worker executes nothing more.  How mutex, flags and         *)
(* condition variable achieve it is in DeviceHandshake.                    *)
(***************************************************************************)
CONSTANTS
  Vertex,       \* the vertices a coordinator may hand to its worker
  INT_MAX       \* the marker that ends the worker

VARIABLES
  phase,        \* who has the device, and what was done with the vertex
  vertex        \* the vertex handed over

vars == <<phase, vertex>>

Init ==
  /\ phase = "idle"
  /\ vertex \in Vertex \cup {INT_MAX}

\* The coordinator prepares its next vertex; the worker does not look at it.
Prepare(v) ==
  /\ phase = "idle"
  /\ vertex' = v
  /\ UNCHANGED phase

HandOver ==
  /\ phase = "idle"
  /\ phase' = IF vertex = INT_MAX THEN "quit" ELSE "given"
  /\ UNCHANGED vertex

Execute ==
  /\ phase = "given"
  /\ phase' = "executed"
  /\ UNCHANGED vertex

GiveBack ==
  /\ phase = "executed"
  /\ phase' = "idle"
  /\ UNCHANGED vertex

End ==
  /\ phase = "quit"
  /\ phase' = "ended"
  /\ UNCHANGED vertex

Next ==
  \/ \E v \in Vertex \cup {INT_MAX} : Prepare(v)
  \/ HandOver \/ Execute \/ GiveBack \/ End

\* The worker may not keep the device: what is handed over comes back.  The
\* coordinator is under no such duty, it may wait for a transfer.
Fairness == WF_vars(Execute) /\ WF_vars(GiveBack) /\ WF_vars(End)

SafeSpec == Init /\ [][Next]_vars

Spec == SafeSpec /\ Fairness
=============================================================================
