----------------------- MODULE DeviceHandshakeProofs -----------------------
(***************************************************************************)
(* Proofs about DeviceHandshake, for every set of vertices.                *)
(*                                                                         *)
(* Everything follows from one inductive invariant that says where each    *)
(* thread is when the other one is somewhere: a vertex is either with the  *)
(* coordinator, handed over, or answered, and the flags tell which.        *)
(***************************************************************************)
EXTENDS DeviceHandshake, TLAPS

\* The round has begun: the coordinator has raised ready for it.
Asked == cpc \in {"notify", "wait"}

\* The worker is outside its critical section and still in its loop.
Outside == wpc \in {"wait", "notify"}

IInv ==
  /\ TypeOK
  /\ m = "worker" <=> wpc \in {"locked", "executed"}
  /\ wpc = "executed" => process_vertex # INT_MAX
  /\ wpc \in {"lastNotify", "ended"} => closing
  /\ closing => process_vertex = INT_MAX
  /\ closing => cpc \in {"setReady", "notify", "wait", "join", "joined"}
  /\ cpc \in {"join", "joined"} => closing
  /\ ~closing /\ cpc # "take" => process_vertex # INT_MAX
  \* between rounds nothing is pending
  /\ cpc \in {"take", "setReady"} => Outside /\ ~ready /\ ~processed
  \* in a round the vertex is handed over, in work, or answered
  /\ Asked => \/ Outside /\ ready /\ ~processed
              \/ wpc \in {"locked", "executed"} /\ ~ready /\ ~processed
              \/ Outside /\ ~closing /\ ~ready /\ processed
              \/ wpc \in {"lastNotify", "ended"} /\ ~ready /\ processed
  /\ cpc = "reset" => Outside /\ ~ready
  /\ cpc \in {"join", "joined"} => wpc \in {"lastNotify", "ended"} /\ ~ready
  /\ "worker" \in waiting => wpc = "wait" /\ (ready => cpc = "notify")
  /\ "coordinator" \in waiting =>
       cpc = "wait" /\ (processed => wpc \in {"notify", "lastNotify"})

USE DEF Thread, Asked, Outside

LEMMA InitIInv == Init => IInv
  BY MarkerIsNoVertex DEF Init, IInv, TypeOK

LEMMA NextIInv == IInv /\ [Next]_vars => IInv'
<1> SUFFICES ASSUME IInv, [Next]_vars
             PROVE  IInv'
  OBVIOUS
<1> USE MarkerIsNoVertex DEF IInv, TypeOK
<1>1. ASSUME NEW v \in Vertex, TakeVertex(v) PROVE IInv'
  BY <1>1 DEF TakeVertex
<1>2. CASE LeaveLoop
  BY <1>2 DEF LeaveLoop
<1>3. CASE SetReady
  BY <1>3 DEF SetReady
<1>4. CASE NotifyWorker
  BY <1>4 DEF NotifyWorker, NotifyOne
<1>5. CASE AwaitProcessed
  <2>1. CASE processed
    BY <1>5, <2>1 DEF AwaitProcessed
  <2>2. CASE ~processed
    BY <1>5, <2>2 DEF AwaitProcessed
  <2>3. QED
    BY <2>1, <2>2
<1>6. CASE ResetProcessed
  BY <1>6 DEF ResetProcessed
<1>7. CASE JoinWorker
  BY <1>7 DEF JoinWorker
<1>8. CASE AwaitReady
  <2>1. CASE ready
    BY <1>8, <2>1 DEF AwaitReady
  <2>2. CASE ~ready
    <3>1. /\ wpc = "wait" /\ waiting' = waiting \cup {"worker"}
          /\ UNCHANGED <<cpc, closing, wpc, m, ready, processed, process_vertex>>
      BY <1>8, <2>2 DEF AwaitReady
    <3>2. QED
      BY <2>2, <3>1
  <2>3. QED
    BY <2>1, <2>2
<1>9. CASE ExecuteVertex
  BY <1>9 DEF ExecuteVertex
<1>10. CASE SetProcessed
  BY <1>10 DEF SetProcessed
<1>11. CASE Quit
  BY <1>11 DEF Quit
<1>12. CASE NotifyCoordinator
  BY <1>12 DEF NotifyCoordinator, NotifyOne
<1>13. CASE SpuriousWakeup
  BY <1>13 DEF SpuriousWakeup
<1>14. CASE UNCHANGED vars
  BY <1>14 DEF vars
<1>15. QED
  BY <1>1, <1>2, <1>3, <1>4, <1>5, <1>6, <1>7, <1>8, <1>9, <1>10, <1>11,
     <1>12, <1>13, <1>14 DEF Next, Coordinator, Worker

LEMMA AlwaysIInv == SafeSpec => []IInv
  BY InitIInv, NextIInv, PTL DEF SafeSpec

\* The flags, the slot and the program counters keep their types.
THEOREM TypeCorrect == SafeSpec => []TypeOK
<1>1. IInv => TypeOK
  BY DEF IInv
<1>2. QED
  BY <1>1, AlwaysIInv, PTL

\* The unlocked writes of process_in_device never race with the worker.
THEOREM NoDataRace == SafeSpec => []UnlockedWritesAreExclusive
<1>1. IInv => UnlockedWritesAreExclusive
  BY DEF IInv, UnlockedWritesAreExclusive
<1>2. QED
  BY <1>1, AlwaysIInv, PTL

\* One condition variable and notify_one are enough: the two threads never
\* sleep together and no wake-up is lost.
THEOREM WakeupsReachTheirThread == SafeSpec => [](NeverBothAsleep /\ NoLostWakeup)
<1>1. IInv => NeverBothAsleep /\ NoLostWakeup
  BY DEF IInv, NeverBothAsleep, NoLostWakeup
<1>2. QED
  BY <1>1, AlwaysIInv, PTL

\* The coordinator goes on only with the answer to what it last handed over.
THEOREM AnswersAreCurrent == SafeSpec => []AnswerIsCurrent
<1>1. IInv => AnswerIsCurrent
  BY DEF IInv, AnswerIsCurrent
<1>2. QED
  BY <1>1, AlwaysIInv, PTL

-----------------------------------------------------------------------------
LEMMA InitRefines == Init => Rendezvous!Init
  BY DEF Init, Phase, Rendezvous!Init

LEMMA NextRefines == IInv /\ IInv' /\ [Next]_vars => [Rendezvous!Next]_(Rendezvous!vars)
<1> SUFFICES ASSUME IInv, IInv', [Next]_vars
             PROVE  [Rendezvous!Next]_(Rendezvous!vars)
  OBVIOUS
<1> USE DEF IInv, TypeOK, Rendezvous!vars, Phase
<1>1. ASSUME NEW v \in Vertex, TakeVertex(v)
      PROVE  Rendezvous!Prepare(v)
  BY <1>1 DEF TakeVertex, Rendezvous!Prepare
<1>2. ASSUME LeaveLoop PROVE Rendezvous!Prepare(INT_MAX)
  BY <1>2 DEF LeaveLoop, Rendezvous!Prepare
<1>3. ASSUME SetReady PROVE Rendezvous!HandOver
  BY <1>3 DEF SetReady, Rendezvous!HandOver
<1>4. ASSUME ExecuteVertex PROVE Rendezvous!Execute
  BY <1>4 DEF ExecuteVertex, Rendezvous!Execute
<1>5. ASSUME SetProcessed PROVE Rendezvous!GiveBack
  BY <1>5 DEF SetProcessed, Rendezvous!GiveBack
<1>6. ASSUME Quit PROVE Rendezvous!End
  BY <1>6 DEF Quit, Rendezvous!End
<1>7. CASE NotifyWorker \/ AwaitProcessed \/ ResetProcessed \/ JoinWorker
  BY <1>7 DEF NotifyWorker, AwaitProcessed, ResetProcessed, JoinWorker
<1>8. CASE AwaitReady \/ NotifyCoordinator \/ SpuriousWakeup
  BY <1>8 DEF AwaitReady, NotifyCoordinator, SpuriousWakeup
<1>9. CASE UNCHANGED vars
  BY <1>9 DEF vars
<1>10. QED
  BY <1>1, <1>2, <1>3, <1>4, <1>5, <1>6, <1>7, <1>8, <1>9
  DEF Next, Coordinator, Worker, Rendezvous!Next

\* The two threads implement the rendezvous: a vertex handed over is executed
\* exactly once, in the slot it was handed over in, before the next one, and
\* none after the marker.
THEOREM Implements == SafeSpec => Rendezvous!SafeSpec
  BY InitRefines, NextRefines, AlwaysIInv, PTL DEF SafeSpec, Rendezvous!SafeSpec
=============================================================================
