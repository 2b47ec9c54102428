-------------------------- MODULE DeviceHandshake --------------------------
(***************************************************************************)
(* The two threads of one device i in exchange.cpp: the coordinator        *)
(* process_in_device and the worker process_op, with the mutex m[i], the   *)
(* condition variable start_processing[i] (one for both directions), the   *)
(* flags ready[i] and processed[i] and the slot process_vertex[i].         *)
(*                                                                         *)
(* What the coordinator does to a vertex before it hands it over           *)
(* (transfer_op) is in ExchangeExecutor; here it is a choice of a vertex.  *)
(* A critical section of the coordinator is one step, taken when the mutex *)
(* is free; the worker keeps the mutex from its wait to its unlock.        *)
(***************************************************************************)
CONSTANTS
  Vertex,       \* vertices of the query graph
  INT_MAX       \* written to process_vertex to end the worker

ASSUME MarkerIsNoVertex == INT_MAX \notin Vertex

VARIABLES
  cpc,              \* where the coordinator is
  closing,          \* the coordinator has left its loop
  wpc,              \* where the worker is
  m,                \* who holds the mutex between two steps
  waiting,          \* threads asleep in start_processing[i].wait
  ready,            \* "a vertex was handed over"
  processed,        \* "the worker is done with it"
  process_vertex    \* the vertex

vars == <<cpc, closing, wpc, m, waiting, ready, processed, process_vertex>>

Thread == {"coordinator", "worker"}

\* process_vertex is a fresh array of integers: nobody initialises it.
Init ==
  /\ cpc = "take" /\ closing = FALSE /\ wpc = "wait"
  /\ m = "free" /\ waiting = {}
  /\ ready = FALSE /\ processed = FALSE
  /\ process_vertex \in Vertex \cup {INT_MAX}

\* notify_one: wakes one sleeping thread, if there is one.
NotifyOne ==
  \/ waiting = {} /\ UNCHANGED waiting
  \/ \E t \in waiting : waiting' = waiting \ {t}

-----------------------------------------------------------------------------
(* The coordinator.                                                        *)

\* The next vertex of the loop.  A pop that failed leaves the old one: it is
\* among the choices.
TakeVertex(v) ==
  /\ cpc = "take"
  /\ process_vertex' = v
  /\ cpc' = "setReady"
  /\ UNCHANGED <<closing, wpc, m, waiting, ready, processed>>

\* The queue was seen empty: the loop is over, the marker goes in the slot.
LeaveLoop ==
  /\ cpc = "take"
  /\ closing' = TRUE
  /\ process_vertex' = INT_MAX
  /\ cpc' = "setReady"
  /\ UNCHANGED <<wpc, m, waiting, ready, processed>>

SetReady ==
  /\ cpc = "setReady" /\ m = "free"
  /\ ready' = TRUE
  /\ cpc' = "notify"
  /\ UNCHANGED <<closing, wpc, m, waiting, processed, process_vertex>>

\* Mutant: the worker is not notified.
NotifyWorkerForgotten ==
  /\ cpc = "notify"
  /\ cpc' = "wait"
  /\ UNCHANGED <<closing, wpc, m, waiting, ready, processed, process_vertex>>

NotifyWorker ==
  /\ cpc = "notify"
  /\ NotifyOne
  /\ cpc' = "wait"
  /\ UNCHANGED <<closing, wpc, m, ready, processed, process_vertex>>

\* Mutant: wait without a predicate, which any wake-up ends.
AwaitAnyWakeup ==
  /\ cpc = "wait" /\ m = "free" /\ "coordinator" \notin waiting
  /\ \/ /\ cpc' = IF closing THEN "join" ELSE "reset"
        /\ UNCHANGED waiting
     \/ /\ waiting' = waiting \cup {"coordinator"}
        /\ UNCHANGED cpc
  /\ UNCHANGED <<closing, wpc, m, ready, processed, process_vertex>>

\* One evaluation of the predicate of wait, on entry or after a wake-up.
AwaitProcessed ==
  /\ cpc = "wait" /\ m = "free" /\ "coordinator" \notin waiting
  /\ IF processed
     THEN /\ cpc' = IF closing THEN "join" ELSE "reset"
          /\ UNCHANGED waiting
     ELSE /\ waiting' = waiting \cup {"coordinator"}
          /\ UNCHANGED cpc
  /\ UNCHANGED <<closing, wpc, m, ready, processed, process_vertex>>

\* Mutant: processed is left up for the next round.
ResetForgotten ==
  /\ cpc = "reset"
  /\ cpc' = "take"
  /\ UNCHANGED <<closing, wpc, m, waiting, ready, processed, process_vertex>>

\* processed = false, outside the mutex.
ResetProcessed ==
  /\ cpc = "reset"
  /\ processed' = FALSE
  /\ cpc' = "take"
  /\ UNCHANGED <<closing, wpc, m, waiting, ready, process_vertex>>

JoinWorker ==
  /\ cpc = "join" /\ wpc = "ended"
  /\ cpc' = "joined"
  /\ UNCHANGED <<closing, wpc, m, waiting, ready, processed, process_vertex>>

-----------------------------------------------------------------------------
(* The worker.                                                             *)

\* Mutant: ready is left up, so that the next wait passes at once.
AwaitReadyKept ==
  /\ wpc = "wait" /\ m = "free" /\ "worker" \notin waiting
  /\ IF ready
     THEN /\ m' = "worker"
          /\ wpc' = "locked"
          /\ UNCHANGED waiting
     ELSE /\ waiting' = waiting \cup {"worker"}
          /\ UNCHANGED <<wpc, m>>
  /\ UNCHANGED <<cpc, closing, ready, processed, process_vertex>>

AwaitReady ==
  /\ wpc = "wait" /\ m = "free" /\ "worker" \notin waiting
  /\ IF ready
     THEN /\ ready' = FALSE
          /\ m' = "worker"
          /\ wpc' = "locked"
          /\ UNCHANGED waiting
     ELSE /\ waiting' = waiting \cup {"worker"}
          /\ UNCHANGED <<wpc, m, ready>>
  /\ UNCHANGED <<cpc, closing, processed, process_vertex>>

\* compile_task, execute_node and the out-edges, under the mutex.
ExecuteVertex ==
  /\ wpc = "locked" /\ process_vertex # INT_MAX
  /\ wpc' = "executed"
  /\ UNCHANGED <<cpc, closing, m, waiting, ready, processed, process_vertex>>

SetProcessed ==
  /\ wpc = "executed"
  /\ processed' = TRUE /\ m' = "free"
  /\ wpc' = "notify"
  /\ UNCHANGED <<cpc, closing, waiting, ready, process_vertex>>

\* The marker: the worker answers and returns.
Quit ==
  /\ wpc = "locked" /\ process_vertex = INT_MAX
  /\ processed' = TRUE /\ m' = "free"
  /\ wpc' = "lastNotify"
  /\ UNCHANGED <<cpc, closing, waiting, ready, process_vertex>>

\* The notification comes after the unlock: the coordinator may be long gone.
NotifyCoordinator ==
  /\ wpc \in {"notify", "lastNotify"}
  /\ NotifyOne
  /\ wpc' = IF wpc = "notify" THEN "wait" ELSE "ended"
  /\ UNCHANGED <<cpc, closing, m, ready, processed, process_vertex>>

-----------------------------------------------------------------------------
\* A sleeping thread may wake for no reason.
SpuriousWakeup ==
  /\ \E t \in waiting : waiting' = waiting \ {t}
  /\ UNCHANGED <<cpc, closing, wpc, m, ready, processed, process_vertex>>

Coordinator ==
  \/ SetReady \/ NotifyWorker \/ AwaitProcessed \/ ResetProcessed \/ JoinWorker

Worker ==
  AwaitReady \/ ExecuteVertex \/ SetProcessed \/ Quit \/ NotifyCoordinator

Next ==
  \/ \E v \in Vertex : TakeVertex(v)
  \/ LeaveLoop
  \/ Coordinator
  \/ Worker
  \/ SpuriousWakeup

\* Each thread runs when it can.  Nothing is assumed of the transfer that
\* precedes TakeVertex, of leaving the loop, or of spurious wake-ups: the
\* protocol may not count on them.  The mutex is contended by one thread at a
\* time, so weak fairness is enough for both.
Fairness == WF_vars(Coordinator) /\ WF_vars(Worker)

SafeSpec == Init /\ [][Next]_vars

Spec == SafeSpec /\ Fairness

-----------------------------------------------------------------------------
TypeOK ==
  /\ cpc \in {"take", "setReady", "notify", "wait", "reset", "join", "joined"}
  /\ closing \in BOOLEAN
  /\ wpc \in {"wait", "locked", "executed", "notify", "lastNotify", "ended"}
  /\ m \in {"free", "worker"}
  /\ waiting \subseteq Thread
  /\ ready \in BOOLEAN
  /\ processed \in BOOLEAN
  /\ process_vertex \in Vertex \cup {INT_MAX}

\* The coordinator writes process_vertex[i] (exchange.cpp:94,123) and
\* processed[i] (114) without the mutex.  No such write ever races with the
\* worker, which uses both from its wait to its unlock: at those lines the
\* worker neither is in that section nor can enter it.
UnlockedWritesAreExclusive ==
  cpc \in {"take", "reset"} =>
    /\ wpc \notin {"locked", "executed"}
    /\ ~ready

\* One condition variable serves both directions and is signalled with
\* notify_one: that is enough because the two threads never sleep together.
NeverBothAsleep == waiting # Thread

\* No wake-up is lost: a thread sleeps only while its flag is down or while
\* the thread that raised the flag still has its notification to send.
NoLostWakeup ==
  /\ "worker" \in waiting /\ ready => cpc = "notify"
  /\ "coordinator" \in waiting /\ processed => wpc \in {"notify", "lastNotify"}

\* The coordinator sees the answer to its own request and never a leftover
\* of an earlier round: when it goes on, the worker is done with the vertex,
\* and on the last round the worker has left its loop (p_thread.join ends).
AnswerIsCurrent ==
  /\ cpc = "reset" => wpc \in {"notify", "wait"}
  /\ cpc \in {"join", "joined"} => wpc \in {"lastNotify", "ended"}

-----------------------------------------------------------------------------
(* The promise this protocol keeps: DeviceRendezvous.                      *)

Phase ==
  CASE wpc \in {"lastNotify", "ended"} -> "ended"
    [] wpc = "executed"                -> "executed"
    [] wpc = "locked" \/ ready         ->
         IF process_vertex = INT_MAX THEN "quit" ELSE "given"
    [] OTHER                           -> "idle"

Rendezvous == INSTANCE DeviceRendezvous
                WITH phase <- Phase, vertex <- process_vertex

\* Every step of the two threads is a step of the rendezvous or changes
\* nothing in it, and the worker gives every vertex back.
ImplementsRendezvous == Rendezvous!Spec

\* The coordinator is not left waiting: every vertex it hands over is
\* answered and the loop goes on, and after the marker the worker is joined.
HandedOverIsAnswered ==
  /\ (cpc = "setReady" /\ ~closing) ~> (cpc = "take")
  /\ closing ~> (cpc = "joined")
=============================================================================
