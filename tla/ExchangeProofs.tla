--------------------------- MODULE ExchangeProofs ---------------------------
(***************************************************************************)
(* What holds of the exchange for every graph, every number of devices and *)
(* every capacity of the queue.                                            *)
(*                                                                         *)
(* Flow keeps track of the queue: what is in it, what was taken and by     *)
(* whom.  A device that took the last vertex sees an empty queue from then *)
(* on, so that it never finds itself in front of a pop that fails; and as  *)
(* long as no pop failed, no vertex was executed twice.  Data is about the *)
(* buffers.  Progress says that the queue is in the order of the graph and *)
(* that nothing taken from it is lost, so that no device spins in vain.    *)
(***************************************************************************)
EXTENDS ExchangeExecutor, QueryGraphProofs, SequenceTheorems

\* The device is between its pop and the execution, or between pop and check.
Working(d) == pc[d] \in {"await", "input", "output", "execute"}

Holding(d) == Working(d) \/ pc[d] = "publish"

Typing ==
  /\ TypeOK
  /\ \A d \in Device : Holding(d) => process_vertex[d] \in Vertex

\* Either no device was started, or all of them were.
Started ==
  (\E d \in Device : pc[d] = "unborn") =>
    /\ \A d \in Device : pc[d] = "unborn" /\ popped[d] = {}
    /\ missed = {} /\ queued = {}

\* An edge is ready only when its data is there.
ReadyIsProduced ==
  \A e \in Edge :
    ready_for_next_step[e] => Source[e] = Start \/ runs[Source[e]] > 0

\* A device that is past its spin found all in-edges ready, and one about to
\* publish has executed its vertex.
InputsWereReady ==
  \A d \in Device :
    /\ Busy(d) => \A i \in DOMAIN InEdges[process_vertex[d]] :
                    ready_for_next_step[InEdges[process_vertex[d]][i]]
    /\ pc[d] = "publish" => runs[process_vertex[d]] > 0

\* Nothing is queued twice, and nothing is taken twice.
Flow ==
  /\ \A i, j \in DOMAIN ex_processing_queue :
       ex_processing_queue[i] = ex_processing_queue[j] => i = j
  /\ \A i \in DOMAIN ex_processing_queue : \A d \in Device :
       ex_processing_queue[i] \notin popped[d]
  /\ \A c, d \in Device : c # d => popped[c] \cap popped[d] = {}
  /\ \A d \in Device : popped[d] # {} => process_vertex[d] \in popped[d]

\* A pop fails only on an empty queue, and then one device is past its pops.
LastTaken ==
  /\ ex_processing_queue # <<>> => missed = {}
  /\ ex_processing_queue = <<>> /\ queued # {} =>
       \E d \in Device : d \notin missed /\ pc[d] # "pop"

\* Before the first failed pop every execution is the only one.
OnceUnlessMissed ==
  missed = {} =>
    /\ \A d \in Device : Working(d) =>
         process_vertex[d] \in popped[d] /\ runs[process_vertex[d]] = 0
    /\ \A v \in Vertex : runs[v] <= 1
    /\ \A v \in Vertex : runs[v] > 0 => \E d \in Device : v \in popped[d]

IInv ==
  /\ Typing /\ Started /\ ReadyIsProduced /\ InputsWereReady
  /\ Flow /\ LastTaken /\ OnceUnlessMissed

-----------------------------------------------------------------------------
(* The queue as a sequence.                                                *)

\* Taking the head of a sequence without repetitions.
LEMMA HeadAndTail ==
  ASSUME NEW S, NEW s \in Seq(S), s # <<>>,
         \A i, j \in DOMAIN s : s[i] = s[j] => i = j
  PROVE  /\ Head(s) \in S /\ Tail(s) \in Seq(S)
         /\ 1 \in DOMAIN s /\ Head(s) = s[1]
         /\ \A i \in DOMAIN Tail(s) : Tail(s)[i] # Head(s)
         /\ \A i, j \in DOMAIN Tail(s) : Tail(s)[i] = Tail(s)[j] => i = j
         /\ \A i \in DOMAIN Tail(s) : \E j \in DOMAIN s : Tail(s)[i] = s[j]
<1>1. /\ Len(s) \in Nat /\ Len(s) > 0
      /\ DOMAIN s = 1..Len(s) /\ \A i \in 1..Len(s) : s[i] \in S
  OBVIOUS
<1>2. /\ Head(s) = s[1] /\ Tail(s) \in Seq(S)
      /\ DOMAIN Tail(s) = 1..(Len(s) - 1)
      /\ \A i \in 1..(Len(s) - 1) : Tail(s)[i] = s[i + 1]
  BY <1>1
<1>3. \A i \in DOMAIN Tail(s) : i + 1 \in DOMAIN s /\ i + 1 # 1 /\ i \in Int
  BY <1>1, <1>2
<1>4. QED
  BY <1>1, <1>2, <1>3

\* What is pushed are the first operations of the order.
LEMMA PushedPrefix ==
  ASSUME NEW order \in TopologicalOrders(Operation)
  PROVE  \E k \in 0..Cardinality(Operation) :
           /\ Cardinality(Operation) \in Nat /\ Pushed(order) \in Seq(Operation)
           /\ DOMAIN Pushed(order) = 1..k /\ \A i \in 1..k : Pushed(order)[i] = order[i]
           /\ Cardinality(Operation) <= Capacity => k = Cardinality(Operation)
<1> DEFINE n == Cardinality(Operation)
<1>1. order \in [1..n -> Operation]
  BY DEF TopologicalOrders, Orders
<1>2. n \in Nat
  <2>1. Operation \subseteq Vertex /\ IsFiniteSet(Vertex)
    BY ExchangeAssumption DEF Vertex
  <2>2. QED
    BY <2>1, FS_Subset, FS_CardinalityType
<1>3. order \in Seq(Operation) /\ Len(order) = n
  BY <1>1, <1>2
<1> DEFINE k == IF Len(order) < Capacity THEN Len(order) ELSE Capacity
<1>4. k \in Nat /\ k <= n /\ (n <= Capacity => k = n)
  BY <1>2, <1>3, ExchangeAssumption
<1>5. /\ Pushed(order) \in Seq(Operation)
      /\ DOMAIN Pushed(order) = 1..k
      /\ \A i \in 1..k : Pushed(order)[i] = order[i]
  <2>1. Pushed(order) = SubSeq(order, 1, k)
    BY DEF Pushed
  <2>2. Len(SubSeq(order, 1, k)) = k
    BY <1>2, <1>3, <1>4
  <2>3. QED
    BY <1>1, <1>2, <1>3, <1>4, <2>1, <2>2
<1>6. k \in 0..n
  BY <1>2, <1>4
<1> HIDE DEF k, n
<1>7. QED
  BY <1>2, <1>4, <1>5, <1>6 DEF n

\* What is pushed are operations, each of them once.
LEMMA PushedOperations ==
  ASSUME NEW order \in TopologicalOrders(Operation)
  PROVE  /\ Pushed(order) \in Seq(Operation)
         /\ \A i, j \in DOMAIN Pushed(order) : Pushed(order)[i] = Pushed(order)[j] => i = j
         /\ \A i \in DOMAIN Pushed(order) : Pushed(order)[i] \in Operation
<1>1. /\ order \in [1..Cardinality(Operation) -> Operation]
      /\ \A i, j \in 1..Cardinality(Operation) : order[i] = order[j] => i = j
  BY DEF TopologicalOrders, Orders
<1>2. PICK k \in 0..Cardinality(Operation) :
        /\ Cardinality(Operation) \in Nat /\ Pushed(order) \in Seq(Operation)
        /\ DOMAIN Pushed(order) = 1..k /\ \A i \in 1..k : Pushed(order)[i] = order[i]
  BY PushedPrefix
<1>3. \A i \in 1..k : i \in 1..Cardinality(Operation)
  BY <1>2
<1>4. QED
  BY <1>1, <1>2, <1>3

-----------------------------------------------------------------------------
(* The invariant holds initially and every step keeps it.  One lemma per   *)
(* part; the actions that only move a device on are alike for most of them. *)

LEMMA InitIInv == Init => IInv
<1> SUFFICES ASSUME Init PROVE IInv
  OBVIOUS
<1>1. /\ FirstDevice \in Device
      /\ \A d \in Device : pc[d] = "unborn" /\ popped[d] = {}
      /\ missed = {} /\ queued = {} /\ ex_processing_queue = <<>>
      /\ \A v \in Vertex : runs[v] = 0
  BY ScanAssumption DEF Init
<1>2. process_vertex \in [Device -> Vertex \cup {NoVertex}]
  BY ExchangeAssumption DEF Init
<1>3. total_data_set_in_device \in Nat
  BY ScanAssumption DEF Init, ScanInit
<1>4. Typing
  <2>1. ready_for_next_step \in [Edge -> BOOLEAN] /\ crashed \in BOOLEAN
    BY DEF Init
  <2>2. /\ device \in [Vertex -> Device] /\ pc \in [Device -> Labels]
        /\ cursor \in [Device -> Nat] /\ alias_read \in [Device -> Nat]
        /\ runs \in [Vertex -> Nat] /\ popped \in [Device -> SUBSET Operation]
        /\ ex_processing_queue \in Seq(Operation)
    BY <1>1 DEF Init, Labels
  <2>3. \A d \in Device : ~Holding(d)
    BY <1>1 DEF Holding, Working
  <2>4. QED
    BY <1>1, <1>2, <1>3, <2>1, <2>2, <2>3 DEF Typing, TypeOK
<1>5. Started /\ LastTaken /\ Flow
  BY <1>1 DEF Started, LastTaken, Flow
<1>6. ReadyIsProduced /\ InputsWereReady
  BY <1>1 DEF Init, ReadyIsProduced, InputsWereReady, Busy
<1>7. OnceUnlessMissed
  BY <1>1 DEF OnceUnlessMissed, Working
<1>8. QED
  BY <1>4, <1>5, <1>6, <1>7 DEF IInv

LEMMA KeepTyping == IInv /\ [Next]_vars => Typing'
<1> SUFFICES ASSUME IInv, [Next]_vars PROVE Typing'
  OBVIOUS
<1> USE DEF Typing, TypeOK, Labels, Holding, Working
<1>0. Typing
  BY DEF IInv
<1>1. CASE Load
  BY <1>0, <1>1 DEF Load, ScanNext, LoadColumn, PlaceData, history
<1>2. CASE FormQueue
  <2>1. PICK order \in TopologicalOrders(Operation) :
          /\ ex_processing_queue' = Pushed(order)
          /\ queued' = {Pushed(order)[i] : i \in DOMAIN Pushed(order)}
    BY <1>2 DEF FormQueue
  <2>2. ex_processing_queue' \in Seq(Operation) /\ queued' \subseteq Operation
    BY <2>1, PushedOperations
  <2>3. QED
    BY <1>0, <1>2, <2>2 DEF FormQueue, graphVars, scanVars
<1>3. ASSUME NEW d \in Device, CheckQueue(d) PROVE Typing'
  BY <1>0, <1>3 DEF CheckQueue, At, Goto, graphVars, scanVars, history
<1>4. ASSUME NEW d \in Device, Pop(d) PROVE Typing'
  <2>1. /\ ex_processing_queue' \in Seq(Operation)
        /\ process_vertex' \in [Device -> Vertex \cup {NoVertex}]
        /\ \A c \in Device \ {d} : process_vertex'[c] = process_vertex[c]
        /\ popped' \in [Device -> SUBSET Operation]
        /\ missed' \subseteq Device
    <3>1. CASE ex_processing_queue = <<>>
      BY <1>0, <1>4, <3>1 DEF Pop
    <3>2. CASE ex_processing_queue # <<>>
      <4>1. /\ Head(ex_processing_queue) \in Operation
            /\ Tail(ex_processing_queue) \in Seq(Operation)
        BY <1>0, <3>2
      <4> DEFINE v == Head(ex_processing_queue)
      <4>2. /\ process_vertex' = [process_vertex EXCEPT ![d] = v]
            /\ popped' = [popped EXCEPT ![d] = @ \cup {v}]
            /\ ex_processing_queue' = Tail(ex_processing_queue)
            /\ missed' = missed
        BY <1>4, <3>2 DEF Pop
      <4>3. v \in Vertex /\ v \in Operation
        BY <4>1 DEF Vertex
      <4> HIDE DEF v
      <4>4. QED
        BY <1>0, <4>1, <4>2, <4>3
    <3>3. QED
      BY <3>1, <3>2
  <2>2. /\ pc' \in [Device -> Labels] /\ device' \in [Vertex -> Device]
        /\ crashed' \in BOOLEAN
        /\ \A c \in Device : Holding(c)' => process_vertex'[c] \in Vertex
    <3>1. CASE process_vertex'[d] = NoVertex
      BY <1>0, <1>4, <2>1, <3>1 DEF Pop, Place, At
    <3>2. CASE process_vertex'[d] # NoVertex
      <4>1. /\ device' = [device EXCEPT ![process_vertex'[d]] = d]
            /\ pc' = [pc EXCEPT ![d] = "await"]
            /\ crashed' = crashed
        BY <1>4, <3>2 DEF Pop, Place, Goto
      <4>2. process_vertex'[d] \in Vertex
        BY <2>1, <3>2
      <4>3. \A c \in Device \ {d} : pc'[c] = pc[c]
        BY <1>0, <4>1
      <4>4. \A c \in Device : Holding(c)' => process_vertex'[c] \in Vertex
        BY <1>0, <2>1, <4>2, <4>3
      <4>5. QED
        BY <1>0, <4>1, <4>4
    <3>3. QED
      BY <3>1, <3>2
  <2>3. QED
    BY <1>0, <1>4, <2>1, <2>2 DEF Pop, scanVars
<1>5. ASSUME NEW d \in Device, AwaitInputs(d) PROVE Typing'
  BY <1>0, <1>5 DEF AwaitInputs, At, Goto, graphVars, scanVars, history
<1>6. ASSUME NEW d \in Device, Input(d) PROVE Typing'
  <2>1. crashed' \in BOOLEAN
    BY <1>6 DEF Input
  <2>2. QED
    BY <1>0, <1>6, <2>1 DEF Input, SetInput, history
<1>7. ASSUME NEW d \in Device, ReadAlias(d) PROVE Typing'
  BY <1>0, <1>7 DEF ReadAlias, At, Goto, graphVars, scanVars, history
<1>8. ASSUME NEW d \in Device, Output(d) PROVE Typing'
  BY <1>0, <1>8 DEF Output, At, Goto, PrepareOutput, history
<1>9. ASSUME NEW d \in Device, Execute(d) PROVE Typing'
  <2>1. crashed' \in BOOLEAN
    BY <1>9 DEF Execute
  <2>2. pc[d] = "execute" /\ process_vertex[d] \in Vertex
    BY <1>0, <1>9 DEF Execute, At
  <2>3. runs' \in [Vertex -> Nat]
    BY <1>0, <1>9, <2>2 DEF Execute
  <2>4. QED
    BY <1>0, <1>9, <2>1, <2>2, <2>3 DEF Execute, Goto, ExecuteOnDevice
<1>10. ASSUME NEW d \in Device, Publish(d) PROVE Typing'
  BY <1>0, <1>10 DEF Publish, At, Goto, graphVars, scanVars, history
<1>11. CASE UNCHANGED vars
  BY <1>0, <1>11 DEF vars, graphVars, scanVars, history
<1>12. QED
  BY <1>1, <1>2, <1>3, <1>4, <1>5, <1>6, <1>7, <1>8, <1>9, <1>10, <1>11 DEF Next, Step

-----------------------------------------------------------------------------
\* What most parts of the invariant are about.
taken == <<ex_processing_queue, process_vertex, queued, runs, popped, missed>>

\* Between the pop and the execution a device moves on and takes nothing.
Middle(d) == AwaitInputs(d) \/ Input(d) \/ ReadAlias(d) \/ Output(d)

LEMMA MiddleStep ==
  ASSUME IInv, NEW d \in Device, Middle(d)
  PROVE  /\ UNCHANGED <<taken, ready_for_next_step>>
         /\ Working(d) /\ pc'[d] \in {"input", "output", "execute"}
         /\ \A c \in Device \ {d} : pc'[c] = pc[c]
<1>1. pc \in [Device -> Labels]
  BY DEF IInv, Typing, TypeOK
<1>2. CASE AwaitInputs(d)
  BY <1>1, <1>2 DEF AwaitInputs, At, Goto, history, taken, Working
<1>3. CASE Input(d)
  BY <1>1, <1>3 DEF Input, At, history, taken, Working
<1>4. CASE ReadAlias(d)
  BY <1>1, <1>4 DEF ReadAlias, At, Goto, history, taken, Working
<1>5. CASE Output(d)
  BY <1>1, <1>5 DEF Output, At, Goto, history, taken, Working
<1>6. QED
  BY <1>2, <1>3, <1>4, <1>5 DEF Middle

\* The other steps, in terms of taken and pc.
LEMMA LoadStep ==
  ASSUME Load PROVE UNCHANGED <<taken, pc, ready_for_next_step>>
  BY DEF Load, history, taken

LEMMA StartStep ==
  ASSUME IInv, FormQueue
  PROVE  /\ \A d \in Device : pc[d] = "unborn" /\ pc'[d] = "check" /\ popped[d] = {}
         /\ missed = {} /\ FirstDevice \in Device
         /\ UNCHANGED <<process_vertex, runs, popped, missed>>
         /\ ready_for_next_step' = [e \in Edge |-> Source[e] = Start]
         /\ ex_processing_queue' \in Seq(Operation)
         /\ \A i, j \in DOMAIN ex_processing_queue' :
              ex_processing_queue'[i] = ex_processing_queue'[j] => i = j
         /\ queued' # {} => ex_processing_queue' # <<>>
<1>1. PICK order \in TopologicalOrders(Operation) :
        /\ ex_processing_queue' = Pushed(order)
        /\ queued' = {Pushed(order)[i] : i \in DOMAIN Pushed(order)}
  BY DEF FormQueue
<1>2. FirstDevice \in Device
  BY ScanAssumption
<1>3. /\ \A d \in Device : pc[d] = "unborn" /\ popped[d] = {}
      /\ missed = {}
  BY <1>2 DEF FormQueue, IInv, Started
<1>4. queued' # {} => ex_processing_queue' # <<>>
  BY <1>1
<1>5. QED
  BY <1>1, <1>2, <1>3, <1>4, PushedOperations DEF FormQueue

LEMMA CheckStep ==
  ASSUME IInv, NEW d \in Device, CheckQueue(d)
  PROVE  /\ UNCHANGED <<taken, ready_for_next_step>>
         /\ pc[d] = "check"
         /\ pc'[d] = IF ex_processing_queue = <<>> THEN "ended" ELSE "pop"
         /\ \A c \in Device \ {d} : pc'[c] = pc[c]
  BY DEF CheckQueue, At, Goto, history, taken, IInv, Typing, TypeOK

\* A pop that succeeds.
LEMMA TakeStep ==
  ASSUME IInv, NEW d \in Device, Pop(d), ex_processing_queue # <<>>
  PROVE  /\ process_vertex' = [process_vertex EXCEPT ![d] = Head(ex_processing_queue)]
         /\ popped' = [popped EXCEPT ![d] = @ \cup {Head(ex_processing_queue)}]
         /\ ex_processing_queue' = Tail(ex_processing_queue)
         /\ Head(ex_processing_queue) \in Operation
         /\ UNCHANGED <<queued, runs, missed, ready_for_next_step>>
         /\ pc[d] = "pop" /\ pc'[d] = "await"
         /\ \A c \in Device \ {d} : pc'[c] = pc[c]
<1>1. /\ pc \in [Device -> Labels]
      /\ process_vertex \in [Device -> Vertex \cup {NoVertex}]
      /\ ex_processing_queue \in Seq(Operation)
  BY DEF IInv, Typing, TypeOK
<1>2. Head(ex_processing_queue) \in Operation
  BY <1>1
<1>3. process_vertex' = [process_vertex EXCEPT ![d] = Head(ex_processing_queue)]
  BY DEF Pop
<1>4. process_vertex'[d] # NoVertex
  BY <1>1, <1>2, <1>3, ExchangeAssumption DEF Vertex
<1>5. pc' = [pc EXCEPT ![d] = "await"]
  BY <1>4 DEF Pop, Place, Goto
<1>6. QED
  BY <1>1, <1>2, <1>3, <1>5 DEF Pop, At

\* A pop that fails.
LEMMA MissStep ==
  ASSUME IInv, NEW d \in Device, Pop(d), ex_processing_queue = <<>>
  PROVE  /\ missed' = missed \cup {d}
         /\ UNCHANGED <<ex_processing_queue, process_vertex, popped, queued, runs,
                        ready_for_next_step>>
         /\ pc[d] = "pop" /\ pc'[d] \in {"pop", "await"}
         /\ \A c \in Device \ {d} : pc'[c] = pc[c]
<1>1. pc \in [Device -> Labels]
  BY DEF IInv, Typing, TypeOK
<1>2. pc' = pc \/ pc' = [pc EXCEPT ![d] = "await"]
  BY DEF Pop, Place, Goto
<1>3. QED
  BY <1>1, <1>2 DEF Pop, At

LEMMA ExecuteStep ==
  ASSUME IInv, NEW d \in Device, Execute(d)
  PROVE  /\ UNCHANGED <<ex_processing_queue, process_vertex, queued, popped, missed,
                        ready_for_next_step>>
         /\ process_vertex[d] \in Vertex
         /\ runs' = [runs EXCEPT ![process_vertex[d]] = @ + 1]
         /\ pc[d] = "execute" /\ pc'[d] = "publish"
         /\ \A c \in Device \ {d} : pc'[c] = pc[c]
  BY DEF Execute, At, Goto, IInv, Typing, TypeOK, Holding, Working

LEMMA PublishStep ==
  ASSUME IInv, NEW d \in Device, Publish(d)
  PROVE  /\ UNCHANGED taken
         /\ process_vertex[d] \in Vertex
         /\ ready_for_next_step' =
              [e \in Edge |-> ready_for_next_step[e] \/ Source[e] = process_vertex[d]]
         /\ pc[d] = "publish" /\ pc'[d] = "check"
         /\ \A c \in Device \ {d} : pc'[c] = pc[c]
  BY DEF Publish, At, Goto, history, taken, IInv, Typing, TypeOK, Holding

LEMMA Steps ==
  [Next]_vars =>
    \/ Load \/ FormQueue \/ UNCHANGED <<taken, pc, ready_for_next_step>>
    \/ \E d \in Device :
         Middle(d) \/ CheckQueue(d) \/ Pop(d) \/ Execute(d) \/ Publish(d)
  BY DEF Next, Step, Middle, vars, history, taken

-----------------------------------------------------------------------------
LEMMA KeepStarted == IInv /\ [Next]_vars => Started'
<1> SUFFICES ASSUME IInv, [Next]_vars PROVE Started'
  OBVIOUS
<1>0. Started /\ popped \in [Device -> SUBSET Operation]
  BY DEF IInv, Typing, TypeOK
<1> USE DEF Started
<1>1. CASE Load \/ UNCHANGED <<taken, pc, ready_for_next_step>>
  BY <1>0, <1>1, LoadStep DEF taken
<1>2. CASE FormQueue
  BY <1>2, StartStep
<1>3. ASSUME NEW d \in Device, Middle(d) PROVE Started'
  BY <1>0, <1>3, MiddleStep DEF Working, taken
<1>4. ASSUME NEW d \in Device, CheckQueue(d) PROVE Started'
  BY <1>0, <1>4, CheckStep
<1>5. ASSUME NEW d \in Device, Pop(d) PROVE Started'
  <2>1. CASE ex_processing_queue = <<>>
    BY <1>0, <1>5, <2>1, MissStep
  <2>2. CASE ex_processing_queue # <<>>
    BY <1>0, <1>5, <2>2, TakeStep
  <2>3. QED
    BY <2>1, <2>2
<1>6. ASSUME NEW d \in Device, Execute(d) PROVE Started'
  BY <1>0, <1>6, ExecuteStep
<1>7. ASSUME NEW d \in Device, Publish(d) PROVE Started'
  BY <1>0, <1>7, PublishStep
<1>8. QED
  BY <1>1, <1>2, <1>3, <1>4, <1>5, <1>6, <1>7, Steps

LEMMA KeepReadyIsProduced == IInv /\ [Next]_vars => ReadyIsProduced'
<1> SUFFICES ASSUME IInv, [Next]_vars PROVE ReadyIsProduced'
  OBVIOUS
<1>0. /\ ReadyIsProduced /\ InputsWereReady
      /\ runs \in [Vertex -> Nat] /\ Source \in [Edge -> Vertex]
  BY ScanAssumption DEF IInv, Typing, TypeOK
<1> USE DEF ReadyIsProduced
<1>1. CASE Load \/ UNCHANGED <<taken, pc, ready_for_next_step>>
  BY <1>0, <1>1, LoadStep DEF taken
<1>2. CASE FormQueue
  BY <1>2, StartStep
<1>3. ASSUME NEW d \in Device, Middle(d) \/ CheckQueue(d) PROVE ReadyIsProduced'
  BY <1>0, <1>3, MiddleStep, CheckStep DEF taken
<1>4. ASSUME NEW d \in Device, Pop(d) PROVE ReadyIsProduced'
  BY <1>0, <1>4, MissStep, TakeStep
<1>5. ASSUME NEW d \in Device, Execute(d) PROVE ReadyIsProduced'
  <2>1. \A v \in Vertex : runs[v] > 0 => runs'[v] > 0
    BY <1>0, <1>5, ExecuteStep
  <2>2. ready_for_next_step' = ready_for_next_step
    BY <1>5, ExecuteStep
  <2>3. QED
    BY <1>0, <2>1, <2>2
<1>6. ASSUME NEW d \in Device, Publish(d) PROVE ReadyIsProduced'
  <2>1. runs[process_vertex[d]] > 0 /\ runs' = runs
    BY <1>0, <1>6, PublishStep DEF InputsWereReady, taken
  <2>2. \A e \in Edge : ready_for_next_step'[e] =>
          ready_for_next_step[e] \/ Source[e] = process_vertex[d]
    BY <1>6, PublishStep
  <2>3. QED
    BY <1>0, <2>1, <2>2
<1>7. QED
  BY <1>1, <1>2, <1>3, <1>4, <1>5, <1>6, Steps

LEMMA KeepInputsWereReady == IInv /\ [Next]_vars => InputsWereReady'
<1> SUFFICES ASSUME IInv, [Next]_vars PROVE InputsWereReady'
  OBVIOUS
<1>0. /\ InputsWereReady /\ runs \in [Vertex -> Nat]
      /\ process_vertex \in [Device -> Vertex \cup {NoVertex}]
      /\ InEdges \in [Vertex -> Seq(Edge)]
      /\ \A d \in Device : Holding(d) => process_vertex[d] \in Vertex
  BY ScanAssumption DEF IInv, Typing, TypeOK
<1> USE DEF InputsWereReady, Busy
<1>1. CASE Load \/ UNCHANGED <<taken, pc, ready_for_next_step>>
  BY <1>0, <1>1, LoadStep DEF taken
<1>2. CASE FormQueue
  BY <1>2, StartStep
<1>3. ASSUME NEW d \in Device, Middle(d) PROVE InputsWereReady'
  <2>1. \A i \in DOMAIN InEdges[process_vertex[d]] :
          ready_for_next_step[InEdges[process_vertex[d]][i]]
    <3>1. CASE AwaitInputs(d)
      BY <3>1 DEF AwaitInputs
    <3>2. CASE Input(d) \/ ReadAlias(d) \/ Output(d)
      BY <1>0, <3>2 DEF Input, ReadAlias, Output, At
    <3>3. QED
      BY <1>3, <3>1, <3>2 DEF Middle
  <2>2. QED
    BY <1>0, <1>3, <2>1, MiddleStep DEF taken
<1>4. ASSUME NEW d \in Device, CheckQueue(d) PROVE InputsWereReady'
  BY <1>0, <1>4, CheckStep DEF taken
<1>5. ASSUME NEW d \in Device, Pop(d) PROVE InputsWereReady'
  <2>1. UNCHANGED <<ready_for_next_step, runs>>
    BY <1>5, MissStep, TakeStep
  <2>2. pc'[d] \in {"pop", "await"} /\ \A c \in Device \ {d} : pc'[c] = pc[c]
    BY <1>5, MissStep, TakeStep
  <2>3. ASSUME NEW c \in Device, c # d PROVE process_vertex'[c] = process_vertex[c]
    <3>1. CASE ex_processing_queue = <<>>
      BY <1>5, <3>1, MissStep
    <3>2. CASE ex_processing_queue # <<>>
      BY <1>0, <1>5, <2>3, <3>2, TakeStep
    <3>3. QED
      BY <3>1, <3>2
  <2>4. SUFFICES ASSUME NEW c \in Device
        PROVE /\ Busy(c)' => \A i \in DOMAIN InEdges[process_vertex'[c]] :
                               ready_for_next_step'[InEdges[process_vertex'[c]][i]]
              /\ pc'[c] = "publish" => runs'[process_vertex'[c]] > 0
    OBVIOUS
  <2>5. CASE c = d
    BY <2>2, <2>5
  <2>6. CASE c # d
    BY <1>0, <2>1, <2>2, <2>3, <2>6
  <2>7. QED
    BY <2>5, <2>6
<1>6. ASSUME NEW d \in Device, Execute(d) PROVE InputsWereReady'
  <2> DEFINE v == process_vertex[d]
  <2>1. v \in Vertex /\ runs' = [runs EXCEPT ![v] = @ + 1]
    BY <1>6, ExecuteStep
  <2>2. UNCHANGED <<ready_for_next_step, process_vertex>>
    BY <1>6, ExecuteStep
  <2>3. /\ pc[d] = "execute" /\ pc'[d] = "publish"
        /\ \A c \in Device \ {d} : pc'[c] = pc[c]
    BY <1>6, ExecuteStep
  <2> HIDE DEF v
  <2>4. \A u \in Vertex : runs[u] > 0 => runs'[u] > 0
    BY <1>0, <2>1
  <2>5. runs'[v] > 0
    BY <1>0, <2>1
  <2>6. ASSUME NEW c \in Device
        PROVE \A i \in DOMAIN InEdges[process_vertex[c]] : Busy(c)' =>
                ready_for_next_step[InEdges[process_vertex[c]][i]]
    BY <1>0, <2>3
  <2>7. ASSUME NEW c \in Device, pc'[c] = "publish" PROVE runs'[process_vertex[c]] > 0
    <3>1. CASE c = d
      BY <2>5, <3>1 DEF v
    <3>2. CASE c # d
      BY <1>0, <2>3, <2>4, <2>7, <3>2 DEF Holding
    <3>3. QED
      BY <3>1, <3>2
  <2>8. QED
    BY <2>2, <2>6, <2>7
<1>7. ASSUME NEW d \in Device, Publish(d) PROVE InputsWereReady'
  <2>1. \A e \in Edge : ready_for_next_step[e] => ready_for_next_step'[e]
    BY <1>7, PublishStep
  <2>2. ASSUME NEW c \in Device, Busy(c) PROVE
          \A i \in DOMAIN InEdges[process_vertex[c]] : InEdges[process_vertex[c]][i] \in Edge
    <3>1. process_vertex[c] \in Vertex
      BY <1>0, <2>2 DEF Holding, Working
    <3>2. QED
      BY <1>0, <3>1
  <2>3. QED
    BY <1>0, <1>7, <2>1, <2>2, PublishStep DEF taken
<1>8. QED
  BY <1>1, <1>2, <1>3, <1>4, <1>5, <1>6, <1>7, Steps

LEMMA KeepFlow == IInv /\ [Next]_vars => Flow'
<1> SUFFICES ASSUME IInv, [Next]_vars PROVE Flow'
  OBVIOUS
<1>0. /\ Flow /\ ex_processing_queue \in Seq(Operation)
      /\ popped \in [Device -> SUBSET Operation]
      /\ process_vertex \in [Device -> Vertex \cup {NoVertex}]
  BY DEF IInv, Typing, TypeOK
<1>1. CASE UNCHANGED <<ex_processing_queue, popped, process_vertex>>
  BY <1>0, <1>1 DEF Flow
<1>2. CASE FormQueue
  BY <1>2, StartStep DEF Flow
<1>3. ASSUME NEW d \in Device, Pop(d), ex_processing_queue # <<>> PROVE Flow'
  <2> DEFINE v == Head(ex_processing_queue)
             rest == Tail(ex_processing_queue)
  <2>1. /\ process_vertex' = [process_vertex EXCEPT ![d] = v]
        /\ popped' = [popped EXCEPT ![d] = @ \cup {v}]
        /\ ex_processing_queue' = rest
    BY <1>3, TakeStep
  <2>2. /\ \A c \in Device : v \notin popped[c]
        /\ \A i \in DOMAIN rest : rest[i] # v /\ \A c \in Device : rest[i] \notin popped[c]
        /\ \A i, j \in DOMAIN rest : rest[i] = rest[j] => i = j
    BY <1>0, <1>3, HeadAndTail DEF Flow
  <2> HIDE DEF v, rest
  <2>3. /\ popped'[d] = popped[d] \cup {v} /\ process_vertex'[d] = v
        /\ \A c \in Device \ {d} : /\ popped'[c] = popped[c]
                                   /\ process_vertex'[c] = process_vertex[c]
    BY <1>0, <2>1
  <2>4. \A i \in DOMAIN rest : \A c \in Device : rest[i] \notin popped'[c]
    BY <2>2, <2>3
  <2>5. \A b, c \in Device : b # c => popped'[b] \cap popped'[c] = {}
    BY <1>0, <2>2, <2>3 DEF Flow
  <2>6. \A c \in Device : popped'[c] # {} => process_vertex'[c] \in popped'[c]
    BY <1>0, <2>3 DEF Flow
  <2>7. QED
    BY <2>1, <2>2, <2>4, <2>5, <2>6 DEF Flow
<1>4. ASSUME NEW d \in Device,
             \/ Middle(d) \/ CheckQueue(d) \/ Execute(d) \/ Publish(d)
             \/ Pop(d) /\ ex_processing_queue = <<>>
      PROVE  Flow'
  BY <1>1, <1>4, MiddleStep, CheckStep, ExecuteStep, PublishStep, MissStep DEF taken
<1>5. CASE Load \/ UNCHANGED <<taken, pc, ready_for_next_step>>
  BY <1>1, <1>5, LoadStep DEF taken
<1>6. QED
  BY <1>2, <1>3, <1>4, <1>5, Steps

LEMMA KeepLastTaken == IInv /\ [Next]_vars => LastTaken'
<1> SUFFICES ASSUME IInv, [Next]_vars PROVE LastTaken'
  OBVIOUS
<1>0. LastTaken /\ ex_processing_queue \in Seq(Operation)
  BY DEF IInv, Typing, TypeOK
<1> USE DEF LastTaken
<1>1. CASE Load \/ UNCHANGED <<taken, pc, ready_for_next_step>>
  BY <1>0, <1>1, LoadStep DEF taken
<1>2. CASE FormQueue
  BY <1>2, StartStep
<1>3. ASSUME NEW d \in Device, Middle(d) PROVE LastTaken'
  BY <1>0, <1>3, MiddleStep DEF taken
<1>4. ASSUME NEW d \in Device, CheckQueue(d) PROVE LastTaken'
  BY <1>0, <1>4, CheckStep DEF taken
<1>5. ASSUME NEW d \in Device, Pop(d) PROVE LastTaken'
  <2>1. CASE ex_processing_queue = <<>>
    BY <1>0, <1>5, <2>1, MissStep
  <2>2. CASE ex_processing_queue # <<>>
    BY <1>0, <1>5, <2>2, TakeStep
  <2>3. QED
    BY <2>1, <2>2
<1>6. ASSUME NEW d \in Device, Execute(d) PROVE LastTaken'
  BY <1>0, <1>6, ExecuteStep
<1>7. ASSUME NEW d \in Device, Publish(d) PROVE LastTaken'
  BY <1>0, <1>7, PublishStep DEF taken
<1>8. QED
  BY <1>1, <1>2, <1>3, <1>4, <1>5, <1>6, <1>7, Steps

LEMMA KeepOnceUnlessMissed == IInv /\ [Next]_vars => OnceUnlessMissed'
<1> SUFFICES ASSUME IInv, [Next]_vars, missed' = {} PROVE OnceUnlessMissed'
  BY DEF OnceUnlessMissed
<1>0. /\ Flow /\ ex_processing_queue \in Seq(Operation)
      /\ popped \in [Device -> SUBSET Operation]
      /\ process_vertex \in [Device -> Vertex \cup {NoVertex}]
      /\ runs \in [Vertex -> Nat]
      /\ OnceUnlessMissed
  BY DEF IInv, Typing, TypeOK
<1> USE DEF Working
<1>1. CASE Load \/ UNCHANGED <<taken, pc, ready_for_next_step>>
  BY <1>0, <1>1, LoadStep DEF taken, OnceUnlessMissed
<1>2. CASE FormQueue
  BY <1>0, <1>2, StartStep DEF OnceUnlessMissed
<1>3. ASSUME NEW d \in Device, Middle(d) \/ CheckQueue(d) \/ Publish(d)
      PROVE  OnceUnlessMissed'
  <2>1. /\ UNCHANGED taken
        /\ \A c \in Device : Working(c)' => Working(c)
    BY <1>3, MiddleStep, CheckStep, PublishStep
  <2>2. QED
    BY <1>0, <2>1 DEF OnceUnlessMissed, taken
<1>4. ASSUME NEW d \in Device, Pop(d), ex_processing_queue # <<>>
      PROVE  OnceUnlessMissed'
  <2> DEFINE v == Head(ex_processing_queue)
  <2>1. /\ process_vertex' = [process_vertex EXCEPT ![d] = v]
        /\ popped' = [popped EXCEPT ![d] = @ \cup {v}]
        /\ runs' = runs /\ missed' = missed
        /\ v \in Vertex
        /\ \A c \in Device \ {d} : pc'[c] = pc[c]
    BY <1>4, TakeStep DEF Vertex
  <2>2. \A c \in Device : v \notin popped[c]
    BY <1>0, <1>4, HeadAndTail DEF Flow
  <2> HIDE DEF v
  <2>3. missed = {}
    BY <2>1
  <2>4. runs[v] = 0
    BY <1>0, <2>1, <2>2, <2>3 DEF OnceUnlessMissed
  <2>5. /\ popped'[d] = popped[d] \cup {v} /\ process_vertex'[d] = v
        /\ \A c \in Device \ {d} : /\ popped'[c] = popped[c]
                                   /\ process_vertex'[c] = process_vertex[c]
    BY <1>0, <2>1
  <2>6. ASSUME NEW c \in Device, Working(c)'
        PROVE  process_vertex'[c] \in popped'[c] /\ runs'[process_vertex'[c]] = 0
    <3>1. CASE c = d
      BY <2>1, <2>4, <2>5, <3>1
    <3>2. CASE c # d
      BY <1>0, <2>1, <2>3, <2>5, <2>6, <3>2 DEF OnceUnlessMissed
    <3>3. QED
      BY <3>1, <3>2
  <2>7. \A u \in Vertex : runs'[u] > 0 => \E c \in Device : u \in popped'[c]
    BY <1>0, <2>1, <2>3, <2>5 DEF OnceUnlessMissed
  <2>8. QED
    BY <1>0, <2>1, <2>3, <2>6, <2>7 DEF OnceUnlessMissed
<1>5. ASSUME NEW d \in Device, Pop(d), ex_processing_queue = <<>>
      PROVE  OnceUnlessMissed'
  BY <1>5, MissStep
<1>6. ASSUME NEW d \in Device, Execute(d) PROVE OnceUnlessMissed'
  <2> DEFINE v == process_vertex[d]
  <2>1. /\ runs' = [runs EXCEPT ![v] = @ + 1] /\ v \in Vertex
        /\ UNCHANGED <<process_vertex, popped, missed>>
        /\ pc[d] = "execute" /\ pc'[d] = "publish"
        /\ \A c \in Device \ {d} : pc'[c] = pc[c]
    BY <1>6, ExecuteStep
  <2>2. missed = {}
    BY <2>1
  <2>3. v \in popped[d] /\ runs[v] = 0
    BY <1>0, <2>1, <2>2 DEF OnceUnlessMissed
  <2>4. \A c \in Device \ {d} : Working(c) => process_vertex[c] # v
    BY <1>0, <2>2, <2>3 DEF OnceUnlessMissed, Flow
  <2> HIDE DEF v
  <2>5. runs'[v] = 1 /\ \A u \in Vertex \ {v} : runs'[u] = runs[u]
    BY <1>0, <2>1, <2>3
  <2>6. ASSUME NEW c \in Device, Working(c)'
        PROVE  process_vertex[c] \in popped[c] /\ runs'[process_vertex[c]] = 0
    <3>1. c # d /\ Working(c)
      BY <2>1, <2>6
    <3>2. process_vertex[c] \in Vertex
      BY <3>1 DEF IInv, Typing, Holding
    <3>3. QED
      BY <1>0, <2>2, <2>4, <2>5, <3>1, <3>2 DEF OnceUnlessMissed
  <2>7. \A u \in Vertex : runs'[u] <= 1
    BY <1>0, <2>2, <2>5 DEF OnceUnlessMissed
  <2>8. \A u \in Vertex : runs'[u] > 0 => \E c \in Device : u \in popped[c]
    BY <1>0, <2>2, <2>3, <2>5 DEF OnceUnlessMissed
  <2>9. QED
    BY <2>1, <2>6, <2>7, <2>8 DEF OnceUnlessMissed
<1>7. QED
  BY <1>1, <1>2, <1>3, <1>4, <1>5, <1>6, Steps

LEMMA AlwaysIInv == SafeSpec => []IInv
<1>1. IInv /\ [Next]_vars => IInv'
  BY KeepTyping, KeepStarted, KeepReadyIsProduced, KeepInputsWereReady, KeepFlow,
     KeepLastTaken, KeepOnceUnlessMissed DEF IInv
<1>2. QED
  BY InitIInv, <1>1, PTL DEF SafeSpec

-----------------------------------------------------------------------------
(* The theorems.                                                           *)

\* Every variable of the exchange keeps its type, whatever a fresh
\* process_vertex holds (exchange.cpp:22).
THEOREM TypeCorrect == SafeSpec => []TypeOK
<1>1. IInv => TypeOK
  BY DEF IInv, Typing
<1>2. QED
  BY AlwaysIInv, <1>1, PTL

\* The spin of transfer_op (exchange.cpp:163-172) is enough: no device moves
\* or reads the inputs of a vertex before their producers were executed.
THEOREM ConsumersWait == SafeSpec => []ProducersRanFirst
<1>1. ASSUME IInv PROVE ProducersRanFirst
  <2> SUFFICES ASSUME NEW d \in Device, Busy(d),
                      NEW u \in Producers(process_vertex[d])
               PROVE  runs[u] > 0
    BY DEF ProducersRanFirst
  <2>1. PICK i \in DOMAIN InEdges[process_vertex[d]] :
          u = Source[InEdges[process_vertex[d]][i]] /\ u # Start
    BY DEF Producers
  <2>2. process_vertex[d] \in Vertex
    BY <1>1 DEF IInv, Typing, Holding, Working, Busy
  <2>3. InEdges[process_vertex[d]][i] \in Edge
    BY <2>1, <2>2, ScanAssumption
  <2>4. ready_for_next_step[InEdges[process_vertex[d]][i]]
    BY <1>1, <2>1 DEF IInv, InputsWereReady
  <2>5. QED
    BY <1>1, <2>1, <2>3, <2>4 DEF IInv, ReadyIsProduced
<1>2. QED
  BY AlwaysIInv, <1>1, PTL

\* Between empty() and pop() (exchange.cpp:92-94) all devices but one may
\* find the queue drained, never all of them.
THEOREM OneDeviceNeverMisses == SafeSpec => []SomeDeviceNeverMisses
<1>1. IInv => SomeDeviceNeverMisses
  <2>1. FirstDevice \in Device
    BY ScanAssumption
  <2>2. QED
    BY <2>1 DEF IInv, LastTaken, SomeDeviceNeverMisses
<1>2. QED
  BY AlwaysIInv, <1>1, PTL

\* What a failed pop repeats is never the vertex of another device.
THEOREM DevicesKeepApart == SafeSpec => []VertexKeepsItsDevice
<1>1. IInv => VertexKeepsItsDevice
  BY DEF IInv, Flow, VertexKeepsItsDevice
<1>2. QED
  BY AlwaysIInv, <1>1, PTL

\* As long as the queue holds a vertex, nothing was executed twice.
THEOREM OnceUntilDrained == SafeSpec => []RepeatsComeLast
<1>1. ASSUME IInv PROVE RepeatsComeLast
  <2>1. \A v \in Operation : v \in Vertex /\ runs[v] \in Nat
    BY <1>1 DEF IInv, Typing, TypeOK, Vertex
  <2>2. QED
    BY <1>1, <2>1 DEF IInv, LastTaken, OnceUnlessMissed, RepeatsComeLast
<1>2. QED
  BY AlwaysIInv, <1>1, PTL


-----------------------------------------------------------------------------
(* What is in the buffers, as long as no pop failed and no two vertices    *)
(* were given one alias.                                                   *)

Begun == \E d \in Device : pc[d] # "unborn"

\* The buffers of a vertex are filled.
Executed(u) == runs[u] > 0 \/ (u = Start /\ Begun)

\* Its out-edges lead to a buffer.
Produced(u) == Executed(u) \/ \E d \in Device : pc[d] = "execute" /\ process_vertex[d] = u

\* set_input has been through edge e for the vertex device d works on.
TakenBy(d, e) ==
  pc[d] \in {"input", "output", "execute"} /\
  \E n \in DOMAIN InEdges[process_vertex[d]] :
    InEdges[process_vertex[d]][n] = e /\ n < cursor[d]

Taken(e) ==
  \/ \E v \in Operation : runs[v] > 0 /\ \E n \in DOMAIN InEdges[v] : InEdges[v][n] = e
  \/ \E d \in Device : TakenBy(d, e)

\* While columns are loaded, every buffer is on the first device.
Loading ==
  /\ ~Begun => ScanInv /\ DOMAIN device_data \subseteq (1..total_data_set_in_device) \X {FirstDevice}
  /\ Begun => to_load = {}

DataTypes ==
  /\ data_pointer \in [Edge -> Nat]
  /\ input_data \in [Vertex -> Seq(Nat)]
  /\ output_data \in [Vertex -> Seq(Nat)]
  /\ \A d \in Device : cursor[d] # 0

\* The counter is beyond every alias in use.
Counter ==
  /\ DOMAIN device_data \subseteq (1..total_data_set_in_device) \X Device
  /\ \A e \in Edge : Produced(Source[e]) => data_pointer[e] \in 1..total_data_set_in_device

\* An alias that was read is the next one, or was given to another vertex.
Reads ==
  \A d \in Device : pc[d] = "output" =>
    \/ alias_read[d] = total_data_set_in_device
    \/ \E w \in Vertex : \E j \in DOMAIN output_data[w] : output_data[w][j] = alias_read[d] + 1

\* A vertex nobody has popped has neither inputs nor outputs.
Untouched ==
  /\ device[Start] = FirstDevice
  /\ \A v \in Operation : (\A d \in Device : v \notin popped[d]) =>
       input_data[v] = <<>> /\ output_data[v] = <<>>

\* The inputs and outputs of the vertex device d works on.
Hand(d) ==
  LET v == process_vertex[d] IN
  /\ device[v] = d
  /\ pc[d] = "await" => input_data[v] = <<>>
  /\ pc[d] # "await" =>
       /\ cursor[d] \in 1..(Len(InEdges[v]) + 1)
       /\ Len(input_data[v]) = cursor[d] - 1
       /\ \A n \in 1..(cursor[d] - 1) : input_data[v][n] = data_pointer[InEdges[v][n]]
  /\ pc[d] \in {"output", "execute"} => cursor[d] = Len(InEdges[v]) + 1
  /\ pc[d] # "execute" => output_data[v] = <<>>

InHand == \A d \in Device : Working(d) => Hand(d)

\* The buffer with alias a is the output device d made for its vertex, and no
\* edge from elsewhere leads to it.
Own(d, a) ==
  /\ output_data[process_vertex[d]] = <<a>>
  /\ <<a, d>> \in DOMAIN device_data
  /\ \A e \in Edge :
       /\ Source[e] = process_vertex[d] => data_pointer[e] = a
       /\ Source[e] # process_vertex[d] /\ Produced(Source[e]) => data_pointer[e] # a

Newest ==
  \A d \in Device : pc[d] = "execute" => \E a \in 1..total_data_set_in_device : Own(d, a)

\* Edges lead to one buffer only when they have one source.
Distinct ==
  \A e, f \in Edge :
    Produced(Source[e]) /\ Produced(Source[f]) /\ data_pointer[e] = data_pointer[f]
      => SameBuffer(e, f)

\* Until an operation takes an edge its buffer is on the device of its source
\* and nowhere else.
Waiting ==
  \A e \in Edge : Produced(Source[e]) /\ ~Taken(e) =>
    /\ AtSource(e) \in DOMAIN device_data
    /\ \A d \in Device : <<data_pointer[e], d>> \in DOMAIN device_data => d = device[Source[e]]
    /\ Executed(Source[e]) => device_data[AtSource(e)] = Expected(e)

\* The inputs device d has taken are there.
Arrived ==
  \A d \in Device : \A e \in Edge : TakenBy(d, e) =>
    /\ <<data_pointer[e], d>> \in DOMAIN device_data
    /\ device_data[<<data_pointer[e], d>>] = Expected(e)

Good == missed = {} /\ AliasesAreDistinct

Buffers == Counter /\ Reads /\ Untouched /\ InHand /\ Newest /\ Distinct /\ Waiting /\ Arrived

Data == DataTypes /\ Loading /\ (Good => Buffers)

-----------------------------------------------------------------------------
(* What the invariant of the queue says about the vertices in work.        *)

LEMMA Dag ==
  \A v \in Vertex :
    /\ InEdges[v] \in Seq(Edge) /\ Len(InEdges[v]) \in Nat
    /\ DOMAIN InEdges[v] = 1..Len(InEdges[v])
    /\ \A n \in DOMAIN InEdges[v] : InEdges[v][n] \in Edge
  BY ScanAssumption

\* Devices work on different vertices, which nobody has executed, and what
\* they have taken was executed.
LEMMA InWork ==
  ASSUME IInv, missed = {}
  PROVE  /\ \A d \in Device : Working(d) =>
              /\ process_vertex[d] \in Operation /\ process_vertex[d] \in Vertex
              /\ process_vertex[d] # Start /\ process_vertex[d] \in popped[d]
              /\ runs[process_vertex[d]] = 0 /\ ~Executed(process_vertex[d])
         /\ \A c, d \in Device :
              Working(c) /\ Working(d) /\ c # d => process_vertex[c] # process_vertex[d]
         /\ \A d \in Device : Busy(d) =>
              \A n \in DOMAIN InEdges[process_vertex[d]] :
                Executed(Source[InEdges[process_vertex[d]][n]])
         /\ \A v \in Operation : (\A d \in Device : v \notin popped[d]) => ~Produced(v)
<1>1. /\ Flow /\ OnceUnlessMissed /\ popped \in [Device -> SUBSET Operation]
      /\ runs \in [Vertex -> Nat] /\ Typing
  BY DEF IInv, Typing, TypeOK
<1>2. Operation \subseteq Vertex /\ Start \notin Operation
  BY ScanAssumption DEF Vertex
<1>3. \A d \in Device : Working(d) =>
        /\ process_vertex[d] \in popped[d] /\ runs[process_vertex[d]] = 0
        /\ process_vertex[d] \in Operation
  BY <1>1 DEF OnceUnlessMissed
<1>4. \A d \in Device : Working(d) => ~Executed(process_vertex[d])
  BY <1>2, <1>3 DEF Executed
<1>5. \A c, d \in Device :
        Working(c) /\ Working(d) /\ c # d => process_vertex[c] # process_vertex[d]
  BY <1>1, <1>3 DEF Flow
<1>6. ASSUME NEW d \in Device, Busy(d), NEW n \in DOMAIN InEdges[process_vertex[d]]
      PROVE  Executed(Source[InEdges[process_vertex[d]][n]])
  <2>1. process_vertex[d] \in Vertex
    BY <1>1, <1>6 DEF Typing, Holding, Working, Busy
  <2>2. InEdges[process_vertex[d]][n] \in Edge
    BY <2>1, Dag
  <2>3. ready_for_next_step[InEdges[process_vertex[d]][n]]
    BY <1>6 DEF IInv, InputsWereReady
  <2>4. Begun
    BY <1>6 DEF Begun, Busy
  <2>5. QED
    BY <2>2, <2>3, <2>4 DEF IInv, ReadyIsProduced, Executed
<1>7. ASSUME NEW v \in Operation, \A d \in Device : v \notin popped[d]
      PROVE  ~Produced(v)
  <2>1. ~(runs[v] > 0)
    BY <1>1, <1>2, <1>7 DEF OnceUnlessMissed
  <2>2. \A d \in Device : pc[d] = "execute" => process_vertex[d] # v
    BY <1>3, <1>7 DEF Working
  <2>3. QED
    BY <1>2, <2>1, <2>2 DEF Produced, Executed
<1>8. QED
  BY <1>2, <1>3, <1>4, <1>5, <1>6, <1>7

\* The edge a device is about to take is nobody's yet, and what it took
\* comes from vertices that were executed.
LEMMA NextEdge ==
  ASSUME IInv, missed = {}, NEW d \in Device, pc[d] \in {"input", "output", "execute"},
         NEW n \in DOMAIN InEdges[process_vertex[d]], ~(n < cursor[d])
  PROVE  ~Taken(InEdges[process_vertex[d]][n])
<1> DEFINE e == InEdges[process_vertex[d]][n]
<1>1. Working(d) /\ process_vertex[d] \in Vertex /\ runs[process_vertex[d]] = 0
  BY InWork DEF Working
<1>2. ASSUME NEW v \in Operation, runs[v] > 0, NEW m \in DOMAIN InEdges[v], InEdges[v][m] = e
      PROVE  FALSE
  <2>1. v \in Vertex
    BY DEF Vertex
  <2>2. v = process_vertex[d]
    BY <1>1, <1>2, <2>1, GraphAssumption
  <2>3. QED
    BY <1>1, <1>2, <2>2
<1>3. ASSUME NEW c \in Device, TakenBy(c, e) PROVE FALSE
  <2>1. Working(c) /\ process_vertex[c] \in Vertex
    BY <1>3, InWork DEF TakenBy, Working
  <2>2. PICK m \in DOMAIN InEdges[process_vertex[c]] :
          InEdges[process_vertex[c]][m] = e /\ m < cursor[c]
    BY <1>3 DEF TakenBy
  <2>3. process_vertex[c] = process_vertex[d] /\ m = n
    BY <1>1, <2>1, <2>2, GraphAssumption
  <2>4. c = d
    BY <1>1, <2>1, <2>3, InWork
  <2>5. QED
    BY <2>2, <2>3, <2>4
<1>4. QED
  BY <1>2, <1>3 DEF Taken

LEMMA TakenIsExecuted ==
  ASSUME IInv, missed = {}, NEW d \in Device, NEW e \in Edge, TakenBy(d, e)
  PROVE  Executed(Source[e]) /\ Produced(Source[e])
<1>1. Busy(d)
  BY DEF TakenBy, Busy
<1>2. PICK n \in DOMAIN InEdges[process_vertex[d]] : InEdges[process_vertex[d]][n] = e
  BY DEF TakenBy
<1>3. Executed(Source[e])
  BY <1>1, <1>2, InWork
<1>4. QED
  BY <1>3 DEF Produced

-----------------------------------------------------------------------------
(* Types, and the loading of the columns.                                  *)

LEMMA KeepDataTypes == IInv /\ DataTypes /\ [Next]_vars => DataTypes'
<1> SUFFICES ASSUME IInv, DataTypes, [Next]_vars PROVE DataTypes'
  OBVIOUS
<1>0. /\ total_data_set_in_device \in Nat /\ alias_read \in [Device -> Nat]
      /\ cursor \in [Device -> Nat]
      /\ \A d \in Device : Holding(d) => process_vertex[d] \in Vertex
      /\ Start \in Vertex
  BY DEF IInv, Typing, TypeOK, Vertex
<1> USE DEF DataTypes
<1>1. CASE Load
  <2>1. PICK k \in Columns : LoadColumn(k)
    BY <1>1 DEF Load, ScanNext
  <2>2. UNCHANGED <<output_data, cursor>>
    BY <1>1 DEF Load
  <2>3. QED
    BY <1>0, <2>1, <2>2 DEF LoadColumn, PlaceData
<1>2. ASSUME NEW d \in Device, Input(d) PROVE DataTypes'
  <2>1. process_vertex[d] \in Vertex
    BY <1>0, <1>2 DEF Input, At, Holding, Working
  <2>2. cursor[d] \in DOMAIN InEdges[process_vertex[d]]
    BY <1>0, <1>2, <2>1, Dag DEF Input, InputsLeft
  <2>3. /\ data_pointer' = data_pointer /\ output_data' = output_data
        /\ cursor' = [cursor EXCEPT ![d] = @ + 1]
        /\ input_data' = [input_data EXCEPT ![process_vertex[d]] =
                           Append(@, data_pointer[InEdges[process_vertex[d]][cursor[d]]])]
    BY <1>2 DEF Input, SetInput
  <2>4. data_pointer[InEdges[process_vertex[d]][cursor[d]]] \in Nat
    BY <2>1, <2>2, Dag
  <2>5. input_data' \in [Vertex -> Seq(Nat)]
    BY <2>1, <2>3, <2>4
  <2>6. \A c \in Device : cursor'[c] # 0
    BY <1>0, <2>3
  <2>7. QED
    BY <2>3, <2>5, <2>6
<1>3. ASSUME NEW d \in Device, Output(d) PROVE DataTypes'
  <2>1. process_vertex[d] \in Vertex /\ alias_read[d] + 1 \in Nat
    BY <1>0, <1>3 DEF Output, At, Holding, Working
  <2>2. QED
    BY <1>0, <1>3, <2>1 DEF Output, PrepareOutput
<1>4. CASE UNCHANGED <<data_pointer, input_data, output_data, cursor>>
  BY <1>4
<1>6. ASSUME NEW d \in Device, AwaitInputs(d) PROVE DataTypes'
  BY <1>0, <1>6 DEF AwaitInputs, graphVars, scanVars
<1>5. QED
  BY <1>1, <1>2, <1>3, <1>4, <1>6
     DEF Next, Step, FormQueue, CheckQueue, Pop, ReadAlias, Execute,
         ExecuteOnDevice, Publish, vars, graphVars, scanVars

\* No step but FormQueue starts a device.
LEMMA BegunStays ==
  ASSUME IInv, [Next]_vars, ~FormQueue
  PROVE  Begun' <=> Begun
<1>1. pc \in [Device -> Labels]
  BY DEF IInv, Typing, TypeOK
<1>2. CASE Load \/ UNCHANGED <<taken, pc, ready_for_next_step>>
  BY <1>2, LoadStep DEF Begun
<1>3. ASSUME NEW d \in Device,
             Middle(d) \/ CheckQueue(d) \/ Pop(d) \/ Execute(d) \/ Publish(d)
      PROVE  pc[d] # "unborn" /\ pc'[d] # "unborn"
  <2>1. CASE Pop(d)
    BY <2>1, TakeStep, MissStep
  <2>2. CASE Middle(d) \/ CheckQueue(d) \/ Execute(d) \/ Publish(d)
    BY <2>2, MiddleStep, CheckStep, ExecuteStep, PublishStep DEF Working
  <2>3. QED
    BY <1>3, <2>1, <2>2
<1>4. QED
  BY <1>2, <1>3, Steps DEF Begun

LEMMA KeepLoading == IInv /\ Loading /\ [Next]_vars => Loading'
<1> SUFFICES ASSUME IInv, Loading, [Next]_vars PROVE Loading'
  OBVIOUS
<1>1. CASE Load
  <2>1. PICK k \in Columns : LoadColumn(k)
    BY <1>1 DEF Load, ScanNext
  <2>2. ~Begun /\ ~Begun'
    BY <1>1, <2>1 DEF Loading, LoadColumn, Load, Begun
  <2>3. ScanInv'
    BY <2>1, <2>2, ScanStep DEF Loading
  <2>4. /\ total_data_set_in_device \in Nat
        /\ total_data_set_in_device' = total_data_set_in_device + 1
        /\ DOMAIN device_data' =
             DOMAIN device_data \cup {<<total_data_set_in_device', FirstDevice>>}
    BY <2>1, <2>2 DEF Loading, ScanInv, LoadColumn, PlaceData, Insert
  <2>5. DOMAIN device_data' \subseteq (1..total_data_set_in_device') \X {FirstDevice}
    BY <2>2, <2>4 DEF Loading
  <2>6. QED
    BY <2>2, <2>3, <2>5 DEF Loading
<1>2. CASE FormQueue
  <2>1. Begun' /\ to_load' = {}
    BY <1>2, StartStep DEF FormQueue, graphVars, scanVars, Begun
  <2>2. QED
    BY <2>1 DEF Loading
<1>3. ASSUME NEW d \in Device, Step(d) PROVE Loading'
  <2>1. Begun
    BY <1>3 DEF Step, CheckQueue, Pop, AwaitInputs, Input, ReadAlias, Output, Execute,
                Publish, At, Begun
  <2>2. to_load' = to_load
    BY <1>3 DEF Step, CheckQueue, Pop, AwaitInputs, Input, ReadAlias, Output, Execute,
                Publish, SetInput, PrepareOutput, ExecuteOnDevice, graphVars, scanVars
  <2>3. ~FormQueue
    BY <2>1, StartStep DEF Begun
  <2>4. Begun'
    BY <2>1, <2>3, BegunStays
  <2>5. QED
    BY <2>1, <2>2, <2>4 DEF Loading
<1>4. CASE UNCHANGED vars
  BY <1>4 DEF vars, graphVars, scanVars, Loading, Begun, ScanInv, AliasesBelowCounter,
              Clear, HoldsItsColumn
<1>5. QED
  BY <1>1, <1>2, <1>3, <1>4 DEF Next

\* A state with a repetition or a shared alias is never left for a good one.
LEMMA GoodBefore ==
  ASSUME IInv, DataTypes, [Next]_vars, Good'
  PROVE  Good
<1>1. /\ missed \in SUBSET Device /\ total_data_set_in_device \in Nat
      /\ alias_read \in [Device -> Nat]
      /\ \A d \in Device : Holding(d) => process_vertex[d] \in Vertex
  BY DEF IInv, Typing, TypeOK
<1>2. missed \subseteq missed'
  <2>1. ASSUME NEW d \in Device, Pop(d) PROVE missed \subseteq missed'
    BY <2>1, TakeStep, MissStep
  <2>2. ASSUME NEW d \in Device, Execute(d) \/ Publish(d) \/ CheckQueue(d) \/ Middle(d)
        PROVE  missed \subseteq missed'
    BY <2>2, MiddleStep, CheckStep, ExecuteStep, PublishStep DEF taken
  <2>3. QED
    BY <2>1, <2>2, Steps, LoadStep, StartStep DEF taken
<1>3. \A v \in Vertex :
        /\ DOMAIN output_data[v] \subseteq DOMAIN output_data'[v]
        /\ \A i \in DOMAIN output_data[v] : output_data'[v][i] = output_data[v][i]
  <2>1. ASSUME NEW d \in Device, Output(d)
        PROVE  \A v \in Vertex :
                 /\ DOMAIN output_data[v] \subseteq DOMAIN output_data'[v]
                 /\ \A i \in DOMAIN output_data[v] : output_data'[v][i] = output_data[v][i]
    <3>1. /\ process_vertex[d] \in Vertex /\ alias_read[d] + 1 \in Nat
          /\ output_data' = [output_data EXCEPT ![process_vertex[d]] =
                               Append(@, alias_read[d] + 1)]
      BY <1>1, <2>1 DEF Output, PrepareOutput, At, Holding, Working
    <3>2. QED
      BY <3>1 DEF DataTypes
  <2>2. CASE UNCHANGED output_data
    BY <2>2
  <2>3. QED
    BY <2>1, <2>2
       DEF Next, Step, Load, FormQueue, CheckQueue, Pop, AwaitInputs, Input, SetInput,
           ReadAlias, Execute, ExecuteOnDevice, Publish, vars, graphVars, scanVars
<1>4. AliasesAreDistinct
  BY <1>3 DEF Good, AliasesAreDistinct
<1>5. QED
  BY <1>2, <1>4 DEF Good

-----------------------------------------------------------------------------
(* The buffers before the devices start, and when they do.                 *)

\* Nobody has produced or taken anything.
LEMMA Dormant ==
  ASSUME IInv, missed = {}, ~Begun
  PROVE  /\ \A u \in Vertex : ~Produced(u)
         /\ \A d \in Device : pc[d] = "unborn" /\ popped[d] = {} /\ ~Working(d)
         /\ \A v \in Vertex : runs[v] = 0
<1>1. \A d \in Device : pc[d] = "unborn"
  BY DEF Begun
<1>2. FirstDevice \in Device
  BY ScanAssumption
<1>3. \A d \in Device : popped[d] = {} /\ ~Working(d)
  BY <1>1, <1>2 DEF IInv, Started, Working
<1>4. \A v \in Vertex : runs[v] = 0
  <2>1. runs \in [Vertex -> Nat] /\ \A v \in Vertex : runs[v] > 0 => \E d \in Device : v \in popped[d]
    BY DEF IInv, OnceUnlessMissed, Typing, TypeOK
  <2>2. QED
    BY <1>3, <2>1
<1>5. \A u \in Vertex : ~Produced(u)
  BY <1>1, <1>4 DEF Produced, Executed
<1>6. QED
  BY <1>1, <1>3, <1>4, <1>5

\* The buffers are in order before the start when nothing was touched.
Idle ==
  /\ IInv /\ missed = {} /\ ~Begun /\ Loading /\ device[Start] = FirstDevice
  /\ \A v \in Operation : input_data[v] = <<>> /\ output_data[v] = <<>>

LEMMA BeforeStart == Idle => Buffers
<1> SUFFICES ASSUME Idle PROVE Buffers
  OBVIOUS
<1> USE DEF Idle
<1>1. \A e \in Edge : Source[e] \in Vertex
  BY ScanAssumption
<1>2. Counter
  BY <1>1, Dormant, ScanAssumption DEF Counter, Loading
<1>3. Reads /\ InHand /\ Newest
  BY Dormant DEF Reads, InHand, Newest
<1>4. Untouched
  BY DEF Untouched
<1>5. Distinct /\ Waiting
  BY <1>1, Dormant DEF Distinct, Waiting
<1>6. Arrived
  BY Dormant DEF Arrived, TakenBy
<1>7. QED
  BY <1>2, <1>3, <1>4, <1>5, <1>6 DEF Buffers

LEMMA AfterLoad == Idle' => Buffers'
  BY BeforeStart, PTL

LEMMA LoadBuffers ==
  ASSUME IInv, IInv', DataTypes, Loading, Loading', Good, Good', Buffers, Load
  PROVE  Buffers'
<1>1. PICK k \in Columns : LoadColumn(k)
  BY DEF Load, ScanNext
<1>2. ~Begun /\ ~Begun' /\ missed = {} /\ missed' = {}
  BY <1>1 DEF Loading, LoadColumn, Load, Begun, Good
<1>3. /\ device' = device /\ output_data' = output_data
      /\ \A v \in Operation : input_data'[v] = input_data[v]
  BY <1>1, ScanAssumption DEF Load, LoadColumn, PlaceData, DataTypes, Vertex
<1>4. \A v \in Operation : input_data[v] = <<>> /\ output_data[v] = <<>>
  BY <1>2, Dormant DEF Buffers, Untouched
<1>5. /\ device'[Start] = FirstDevice
      /\ \A v \in Operation : input_data'[v] = <<>> /\ output_data'[v] = <<>>
  BY <1>3, <1>4 DEF Buffers, Untouched
<1>6. QED
  BY <1>2, <1>5, AfterLoad DEF Idle

\* After load_data each scan edge leads to a buffer of its own, which holds
\* its column.
LEMMA StartBuffers ==
  ASSUME IInv, IInv', DataTypes, Loading, Good, Good', Buffers, FormQueue
  PROVE  Buffers'
<1>1. /\ ~Begun /\ missed = {} /\ missed' = {} /\ to_load = {}
      /\ FirstDevice \in Device /\ Start \in Vertex
      /\ \A e \in Edge : Source[e] \in Vertex
  BY StartStep, ScanAssumption DEF Begun, Good, FormQueue, Vertex
<1>2. /\ UNCHANGED <<data_pointer, total_data_set_in_device, device_data, input_data,
                     device, output_data, popped, runs>>
      /\ \A d \in Device : pc'[d] = "check"
  BY StartStep DEF FormQueue, graphVars, scanVars
<1>3. \A e \in Edge : Source[e] = Start =>
        /\ <<data_pointer[e], FirstDevice>> \in DOMAIN device_data
        /\ device_data[<<data_pointer[e], FirstDevice>>] = Expected(e)
  BY <1>1, GraphAssumption DEF Loading, ScanInv, OutEdges, HoldsItsColumn, Expected
<1>4. /\ DOMAIN device_data \subseteq (1..total_data_set_in_device) \X {FirstDevice}
      /\ device[Start] = FirstDevice
  BY <1>1 DEF Loading, Buffers, Untouched
<1>5. \A u \in Vertex : Produced(u)' => u = Start
  BY <1>1, <1>2, Dormant DEF Produced, Executed
<1>6. \A d \in Device : ~Working(d)' /\ popped'[d] = {}
  BY <1>1, <1>2, Dormant DEF Working
<1>7. Counter'
  BY <1>1, <1>2, <1>3, <1>4, <1>5 DEF Counter
<1>8. Reads' /\ Newest'
  BY <1>2 DEF Reads, Newest
<1>9. InHand'
  BY <1>6 DEF InHand
<1>10. Untouched'
  BY <1>1, <1>2, Dormant DEF Buffers, Untouched
<1>11. Distinct'
  <2> SUFFICES ASSUME NEW e \in Edge, NEW f \in Edge, Source[e] = Start, Source[f] = Start,
                      data_pointer[e] = data_pointer[f]
               PROVE  SameBuffer(e, f)
    BY <1>1, <1>2, <1>5 DEF Distinct
  <2>1. Column(Key[e]) = Column(Key[f])
    BY <1>3 DEF Expected
  <2>2. QED
    BY <2>1 DEF Column, SameBuffer
<1>12. Waiting'
  <2> SUFFICES ASSUME NEW e \in Edge, Source[e] = Start
               PROVE  /\ AtSource(e)' \in DOMAIN device_data
                      /\ \A d \in Device : <<data_pointer[e], d>> \in DOMAIN device_data =>
                           d = device[Source[e]]
                      /\ device_data[AtSource(e)'] = Expected(e)
    BY <1>1, <1>2, <1>5 DEF Waiting
  <2>1. AtSource(e)' = <<data_pointer[e], FirstDevice>>
    BY <1>2, <1>4 DEF AtSource
  <2>2. QED
    BY <1>3, <1>4, <2>1
<1>13. Arrived'
  BY <1>2 DEF Arrived, TakenBy
<1>14. QED
  BY <1>7, <1>8, <1>9, <1>10, <1>11, <1>12, <1>13 DEF Buffers

\* The start of the whole.
LEMMA InitData == AliasesClearKeys /\ Init => Data
<1> SUFFICES ASSUME AliasesClearKeys, Init PROVE Data
  OBVIOUS
<1>1. IInv /\ missed = {} /\ ~Begun
  BY InitIInv DEF Init, Begun
<1>2. ScanInv /\ Start \in Vertex /\ \A v \in Operation : v \in Vertex
  BY InitScanInv DEF Init, Vertex
<1>3. DataTypes
  BY <1>2, ScanAssumption DEF Init, ScanInit, DataTypes
<1>4. Loading
  BY <1>1, <1>2 DEF Init, ScanInit, Loading
<1>5. Buffers
  BY <1>1, <1>2, <1>4, BeforeStart DEF Init, ScanInit, Idle
<1>6. QED
  BY <1>3, <1>4, <1>5 DEF Data

-----------------------------------------------------------------------------
(* The steps that leave the dictionaries and the edges alone.              *)

\* All a buffer is judged by.
content == <<data_pointer, total_data_set_in_device, device_data, input_data, output_data>>

LEMMA QuietBuffers ==
  ASSUME IInv, DataTypes, Good, Good', Buffers, NEW d \in Device,
         CheckQueue(d) \/ AwaitInputs(d) \/ ReadAlias(d) \/ Publish(d)
  PROVE  Buffers'
<1>1. /\ UNCHANGED <<content, device, runs, process_vertex, popped>>
      /\ missed = {}
  BY DEF CheckQueue, AwaitInputs, ReadAlias, Publish, graphVars, scanVars, content,
         history, Good
<1>2. /\ pc \in [Device -> Labels] /\ cursor \in [Device -> Nat]
      /\ alias_read \in [Device -> Nat] /\ total_data_set_in_device \in Nat
  BY DEF IInv, Typing, TypeOK
<1>3. \A c \in Device \ {d} : /\ pc'[c] = pc[c] /\ cursor'[c] = cursor[c]
                              /\ alias_read'[c] = alias_read[c]
  BY <1>2 DEF CheckQueue, AwaitInputs, ReadAlias, Publish, Goto
<1>4. \/ /\ pc[d] \in {"check", "publish"} /\ pc'[d] \in {"check", "pop", "ended"}
         /\ cursor' = cursor /\ alias_read' = alias_read
      \/ /\ pc[d] = "await" /\ pc'[d] = "input" /\ cursor'[d] = 1 /\ alias_read' = alias_read
      \/ /\ pc[d] = "input" /\ pc'[d] = "output" /\ cursor' = cursor
         /\ alias_read'[d] = total_data_set_in_device
         /\ ~InputsLeft(d)
  BY <1>2 DEF CheckQueue, AwaitInputs, ReadAlias, Publish, Goto, At
<1>5. \A u : Executed(u)' <=> Executed(u)
  BY <1>1, <1>3, <1>4 DEF Executed, Begun
<1>6. \A u : Produced(u)' <=> Produced(u)
  BY <1>1, <1>3, <1>4, <1>5 DEF Produced
<1>7. \A c \in Device, e \in Edge : TakenBy(c, e)' <=> TakenBy(c, e)
  <2>1. ASSUME NEW c \in Device \ {d}, NEW e \in Edge PROVE TakenBy(c, e)' <=> TakenBy(c, e)
    BY <1>1, <1>3 DEF TakenBy
  <2>2. ASSUME NEW e \in Edge PROVE TakenBy(d, e)' <=> TakenBy(d, e)
    <3>1. CASE pc[d] = "await"
      <4>1. process_vertex[d] \in Vertex
        BY <3>1 DEF IInv, Typing, Holding, Working
      <4>2. ~\E n \in DOMAIN InEdges[process_vertex[d]] : n < 1
        BY <4>1, Dag
      <4>3. QED
        BY <1>1, <1>4, <3>1, <4>2 DEF TakenBy
    <3>2. CASE pc[d] # "await"
      BY <1>1, <1>4, <3>2 DEF TakenBy
    <3>3. QED
      BY <3>1, <3>2
  <2>3. QED
    BY <2>1, <2>2
<1>8. \A e \in Edge : Taken(e)' <=> Taken(e)
  BY <1>1, <1>7 DEF Taken
<1>9. Counter' /\ Distinct' /\ Waiting' /\ Arrived'
  BY <1>1, <1>5, <1>6, <1>7, <1>8
     DEF Buffers, Counter, Distinct, Waiting, Arrived, AtSource, content
<1>10. Reads'
  BY <1>1, <1>3, <1>4 DEF Buffers, Reads, content
<1>11. Untouched'
  BY <1>1 DEF Buffers, Untouched, content
<1>12. Newest'
  <2>1. \A c \in Device : pc'[c] = "execute" => pc[c] = "execute"
    BY <1>3, <1>4
  <2>2. ASSUME NEW c \in Device, NEW a, Own(c, a) PROVE Own(c, a)'
    BY <1>1, <1>6, <2>2 DEF Own, content
  <2>3. QED
    BY <1>1, <2>1, <2>2 DEF Buffers, Newest, content
<1>13. InHand'
  <2>1. ASSUME NEW c \in Device, Working(c)', c # d
        PROVE  Working(c) /\ pc'[c] = pc[c] /\ cursor'[c] = cursor[c]
    BY <1>3, <2>1 DEF Working
  <2>2. ASSUME Working(d)' PROVE Hand(d)'
    <3>1. PICK v \in Vertex : v = process_vertex[d]
      BY <1>3, <1>4, <2>2 DEF IInv, Typing, Holding, Working
    <3>2. Len(InEdges[v]) \in Nat /\ Len(<<>>) = 0
      BY Dag
    <3>3. CASE pc[d] = "await"
      <4>1. device[v] = d /\ input_data[v] = <<>> /\ output_data[v] = <<>>
        BY <3>1, <3>3 DEF Buffers, InHand, Hand, Working
      <4>2. /\ pc'[d] = "input" /\ cursor'[d] = 1
            /\ 1 \in 1..(Len(InEdges[v]) + 1) /\ 1..(1 - 1) = {} /\ 1 - 1 = 0
        BY <1>4, <3>2, <3>3
      <4>3. process_vertex'[d] = v
        BY <1>1, <3>1
      <4>4. QED
        BY <1>1, <3>2, <4>1, <4>2, <4>3 DEF Hand, content
    <3>4. CASE pc[d] = "input"
      <4>1. Hand(d) /\ pc'[d] = "output" /\ cursor'[d] = cursor[d]
        BY <1>4, <3>4 DEF Buffers, InHand, Working
      <4>2. cursor[d] = Len(InEdges[v]) + 1
        BY <1>2, <1>4, <3>1, <3>2, <3>4, <4>1 DEF Hand, InputsLeft
      <4>3. QED
        BY <1>1, <3>1, <3>4, <4>1, <4>2 DEF Hand, content
    <3>5. QED
      BY <1>4, <2>2, <3>3, <3>4 DEF Working
  <2>3. ASSUME NEW c \in Device, Working(c)', c # d PROVE Hand(c)'
    <3>1. Hand(c)
      BY <2>1, <2>3 DEF Buffers, InHand
    <3>2. QED
      BY <1>1, <2>1, <2>3, <3>1 DEF Hand, content
  <2>4. QED
    BY <2>2, <2>3 DEF InHand
<1>14. QED
  BY <1>9, <1>10, <1>11, <1>12, <1>13 DEF Buffers

\* A device takes a vertex nobody has touched and puts it on itself.
LEMMA PopBuffers ==
  ASSUME IInv, DataTypes, Good, Good', Buffers, NEW d \in Device, Pop(d)
  PROVE  Buffers'
<1>1. missed = {} /\ missed' = {}
  BY DEF Good
<1>2. ex_processing_queue # <<>>
  BY <1>1, MissStep
<1>3. PICK v \in Operation : v = Head(ex_processing_queue)
  BY <1>2, TakeStep
<1>4. /\ process_vertex \in [Device -> Vertex \cup {NoVertex}] /\ pc \in [Device -> Labels]
      /\ device \in [Vertex -> Device] /\ popped \in [Device -> SUBSET Operation]
      /\ ex_processing_queue \in Seq(Operation) /\ Flow
      /\ v \in Vertex /\ v # Start /\ Start \in Vertex
  BY ScanAssumption DEF IInv, Typing, TypeOK, Vertex
<1>5. /\ UNCHANGED <<content, runs, cursor, alias_read>>
      /\ process_vertex' = [process_vertex EXCEPT ![d] = v]
      /\ popped' = [popped EXCEPT ![d] = @ \cup {v}]
      /\ pc[d] = "pop" /\ pc'[d] = "await"
      /\ \A c \in Device \ {d} : pc'[c] = pc[c]
  BY <1>2, <1>3, TakeStep DEF Pop, scanVars, content
<1>6. device' = [device EXCEPT ![v] = d]
  <2>1. v # NoVertex
    BY <1>4, ExchangeAssumption
  <2>2. process_vertex'[d] = v
    BY <1>4, <1>5
  <2>3. QED
    BY <2>1, <2>2 DEF Pop, Place
<1>7. \A c \in Device : v \notin popped[c]
  BY <1>2, <1>3, <1>4, HeadAndTail DEF Flow
<1>8. ~Produced(v) /\ input_data[v] = <<>> /\ output_data[v] = <<>>
  BY <1>1, <1>7, InWork DEF Buffers, Untouched
<1>9. /\ \A c \in Device \ {d} : process_vertex'[c] = process_vertex[c]
      /\ process_vertex'[d] = v
      /\ \A u \in Vertex \ {v} : device'[u] = device[u]
      /\ device'[v] = d /\ device'[Start] = device[Start]
  BY <1>4, <1>5, <1>6
<1>10. \A u : Executed(u)' <=> Executed(u)
  BY <1>5 DEF Executed, Begun
<1>11. \A u : Produced(u)' <=> Produced(u)
  BY <1>5, <1>9, <1>10 DEF Produced
<1>12. \A c \in Device, e \in Edge : TakenBy(c, e)' <=> TakenBy(c, e)
  <2>1. ASSUME NEW c \in Device \ {d}, NEW e \in Edge PROVE TakenBy(c, e)' <=> TakenBy(c, e)
    BY <1>5, <1>9 DEF TakenBy
  <2>2. \A e : ~TakenBy(d, e) /\ ~TakenBy(d, e)'
    BY <1>5 DEF TakenBy
  <2>3. QED
    BY <2>1, <2>2
<1>13. \A e \in Edge : Taken(e)' <=> Taken(e)
  BY <1>5, <1>12 DEF Taken
<1>14. ASSUME NEW e \in Edge, Produced(Source[e]) PROVE device'[Source[e]] = device[Source[e]]
  BY <1>8, <1>9, <1>14, ScanAssumption
<1>15. Counter' /\ Distinct' /\ Arrived'
  BY <1>5, <1>11, <1>12 DEF Buffers, Counter, Distinct, Arrived, content
<1>16. Waiting'
  BY <1>5, <1>10, <1>11, <1>13, <1>14 DEF Buffers, Waiting, AtSource, content
<1>17. Reads'
  BY <1>5 DEF Buffers, Reads, content
<1>18. Untouched'
  <2>1. \A u \in Operation : (\A c \in Device : u \notin popped'[c]) =>
           \A c \in Device : u \notin popped[c]
    BY <1>4, <1>5
  <2>2. QED
    BY <1>5, <1>9, <2>1 DEF Buffers, Untouched, content
<1>19. Newest'
  <2>1. \A c \in Device : pc'[c] = "execute" => c # d /\ pc[c] = "execute"
    BY <1>5
  <2>2. ASSUME NEW c \in Device, c # d, NEW a, Own(c, a) PROVE Own(c, a)'
    BY <1>5, <1>9, <1>11, <2>2 DEF Own, content
  <2>3. QED
    BY <1>5, <2>1, <2>2 DEF Buffers, Newest, content
<1>20. InHand'
  <2>1. ASSUME NEW c \in Device, Working(c)', c # d
        PROVE  /\ Working(c) /\ pc'[c] = pc[c] /\ process_vertex'[c] = process_vertex[c]
               /\ device'[process_vertex[c]] = device[process_vertex[c]]
    <3>1. Working(c) /\ pc'[c] = pc[c]
      BY <1>5, <2>1 DEF Working
    <3>2. process_vertex[c] \in popped[c] /\ process_vertex[c] \in Vertex
      BY <1>1, <3>1, InWork
    <3>3. QED
      BY <1>7, <1>9, <2>1, <3>1, <3>2
  <2>2. QED
    BY <1>5, <1>8, <1>9, <2>1 DEF Buffers, InHand, Hand, content
<1>21. QED
  BY <1>15, <1>16, <1>17, <1>18, <1>19, <1>20 DEF Buffers

-----------------------------------------------------------------------------
(* set_input: the buffer of one edge moves, and no other.                  *)

LEMMA InputStep ==
  ASSUME IInv, DataTypes, Good, Buffers, NEW d \in Device, Input(d)
  PROVE  \E v \in Operation, n \in Nat :
           /\ v = process_vertex[d] /\ n = cursor[d] /\ n \in DOMAIN InEdges[v]
           /\ pc[d] = "input" /\ Busy(d) /\ Working(d)
           /\ InEdges[v][n] \in Edge
           /\ Executed(Source[InEdges[v][n]]) /\ Produced(Source[InEdges[v][n]])
           /\ ~Taken(InEdges[v][n])
           /\ UNCHANGED <<data_pointer, total_data_set_in_device, device, output_data,
                          pc, process_vertex, runs, popped, alias_read>>
           /\ cursor' = [cursor EXCEPT ![d] = n + 1]
           /\ input_data' = [input_data EXCEPT ![v] =
                               Append(@, data_pointer[InEdges[v][n]])]
<1>1. /\ pc[d] = "input" /\ Busy(d) /\ Working(d) /\ missed = {}
      /\ cursor[d] \in Nat /\ cursor[d] # 0 /\ cursor[d] <= Len(InEdges[process_vertex[d]])
  BY DEF Input, At, Busy, Working, Good, IInv, Typing, TypeOK, DataTypes, InputsLeft
<1>2. process_vertex[d] \in Operation /\ process_vertex[d] \in Vertex
  BY <1>1, InWork
<1>3. cursor[d] \in DOMAIN InEdges[process_vertex[d]]
  BY <1>1, <1>2, Dag
<1>4. /\ InEdges[process_vertex[d]][cursor[d]] \in Edge
      /\ Executed(Source[InEdges[process_vertex[d]][cursor[d]]])
      /\ ~Taken(InEdges[process_vertex[d]][cursor[d]])
  <2>1. /\ InEdges[process_vertex[d]][cursor[d]] \in Edge
        /\ Executed(Source[InEdges[process_vertex[d]][cursor[d]]])
    BY <1>1, <1>2, <1>3, Dag, InWork
  <2>2. ~(cursor[d] < cursor[d])
    BY <1>1
  <2>3. ~Taken(InEdges[process_vertex[d]][cursor[d]])
    BY <1>1, <1>3, <2>2, NextEdge
  <2>4. QED
    BY <2>1, <2>3
<1>5. QED
  BY <1>1, <1>2, <1>3, <1>4 DEF Input, SetInput, history, Produced

\* Before the step the buffer is on the device of its source and nowhere
\* else; after it, on device d and nowhere else.
LEMMA InputMoves ==
  ASSUME IInv, DataTypes, Good, Buffers, NEW d \in Device, Input(d),
         NEW e \in Edge, e = InEdges[process_vertex[d]][cursor[d]]
  PROVE  /\ \A x \in DOMAIN device_data :
              x[1] # data_pointer[e] => x \in DOMAIN device_data' /\ device_data'[x] = device_data[x]
         /\ \A x \in DOMAIN device_data' : x[1] # data_pointer[e] => x \in DOMAIN device_data
         /\ <<data_pointer[e], d>> \in DOMAIN device_data'
         /\ device_data'[<<data_pointer[e], d>>] = Expected(e)
         /\ DOMAIN device_data' \subseteq DOMAIN device_data \cup {<<data_pointer[e], d>>}
<1>1. PICK v \in Operation, n \in Nat :
        /\ v = process_vertex[d] /\ n = cursor[d]
        /\ Executed(Source[InEdges[v][n]]) /\ Produced(Source[InEdges[v][n]])
        /\ ~Taken(InEdges[v][n]) /\ Working(d)
  BY InputStep
<1>2. device[v] = d
  BY <1>1 DEF Buffers, InHand, Hand
<1>3. /\ AtSource(e) \in DOMAIN device_data
      /\ device_data[AtSource(e)] = Expected(e)
      /\ \A c \in Device : <<data_pointer[e], c>> \in DOMAIN device_data => c = device[Source[e]]
  BY <1>1 DEF Buffers, Waiting
<1> DEFINE s == device[Source[e]]
           a == data_pointer[e]
<1>4. device_data' = IF s = d THEN device_data ELSE Transfer(device_data, a, s, d)
  BY <1>1, <1>2 DEF Input, SetInput
<1>5. <<a, s>> \in DOMAIN device_data /\ device_data[<<a, s>>] = Expected(e)
  BY <1>3 DEF AtSource
<1>6. CASE s = d
  BY <1>4, <1>5, <1>6
<1>7. CASE s # d
  <2>1. <<a, d>> \notin DOMAIN device_data
    BY <1>3, <1>7
  <2> HIDE DEF s, a
  <2> DEFINE moved == [x \in DOMAIN device_data \cup {<<a, d>>} |->
                         IF x = <<a, d>> THEN Expected(e) ELSE device_data[x]]
  <2>2. device_data' = [x \in DOMAIN moved \ {<<a, s>>} |-> moved[x]]
    BY <1>4, <1>5, <1>7, <2>1 DEF Transfer, Erase, Insert, Fetched
  <2>3. <<a, d>> # <<a, s>> /\ \A x : x[1] # a => x # <<a, d>> /\ x # <<a, s>>
    BY <1>7
  <2>4. DOMAIN device_data' = (DOMAIN device_data \cup {<<a, d>>}) \ {<<a, s>>}
    BY <2>2
  <2>5. \A x \in DOMAIN device_data' :
          device_data'[x] = IF x = <<a, d>> THEN Expected(e) ELSE device_data[x]
    BY <2>2
  <2>6. /\ \A x \in DOMAIN device_data :
             x[1] # a => x \in DOMAIN device_data' /\ device_data'[x] = device_data[x]
        /\ \A x \in DOMAIN device_data' : x[1] # a => x \in DOMAIN device_data
        /\ <<a, d>> \in DOMAIN device_data'
        /\ device_data'[<<a, d>>] = Expected(e)
        /\ DOMAIN device_data' \subseteq DOMAIN device_data \cup {<<a, d>>}
    BY <2>3, <2>4, <2>5
  <2>7. QED
    BY <2>6 DEF a
<1>8. QED
  BY <1>6, <1>7

LEMMA InputBuffers ==
  ASSUME IInv, DataTypes, Good, Good', Buffers, OneReader, NEW d \in Device, Input(d)
  PROVE  Buffers'
<1>1. missed = {}
  BY DEF Good
<1>2. PICK v \in Operation, n \in Nat :
        /\ v = process_vertex[d] /\ n = cursor[d] /\ n \in DOMAIN InEdges[v]
        /\ pc[d] = "input" /\ Busy(d) /\ Working(d)
        /\ InEdges[v][n] \in Edge
        /\ Executed(Source[InEdges[v][n]]) /\ Produced(Source[InEdges[v][n]])
        /\ ~Taken(InEdges[v][n])
        /\ UNCHANGED <<data_pointer, total_data_set_in_device, device, output_data,
                       pc, process_vertex, runs, popped, alias_read>>
        /\ cursor' = [cursor EXCEPT ![d] = n + 1]
        /\ input_data' = [input_data EXCEPT ![v] = Append(@, data_pointer[InEdges[v][n]])]
  BY InputStep
<1>3. PICK e \in Edge : e = InEdges[v][n]
  BY <1>2
<1>4. /\ cursor \in [Device -> Nat] /\ input_data \in [Vertex -> Seq(Nat)] /\ v \in Vertex
      /\ data_pointer[e] \in Nat
  BY DEF IInv, Typing, TypeOK, DataTypes, Vertex
<1>5. /\ cursor'[d] = n + 1 /\ \A c \in Device \ {d} : cursor'[c] = cursor[c]
      /\ input_data'[v] = Append(input_data[v], data_pointer[e])
      /\ \A u \in Vertex \ {v} : input_data'[u] = input_data[u]
  BY <1>2, <1>3, <1>4
<1>6. /\ \A x \in DOMAIN device_data :
           x[1] # data_pointer[e] => x \in DOMAIN device_data' /\ device_data'[x] = device_data[x]
      /\ \A x \in DOMAIN device_data' : x[1] # data_pointer[e] => x \in DOMAIN device_data
      /\ <<data_pointer[e], d>> \in DOMAIN device_data'
      /\ device_data'[<<data_pointer[e], d>>] = Expected(e)
      /\ DOMAIN device_data' \subseteq DOMAIN device_data \cup {<<data_pointer[e], d>>}
  BY <1>2, <1>3, InputMoves
\* no other edge leads to the buffer
<1>7. \A f \in Edge : Produced(Source[f]) /\ f # e => data_pointer[f] # data_pointer[e]
  BY <1>2, <1>3 DEF Buffers, Distinct, OneReader
<1>8. \A u : (Executed(u)' <=> Executed(u)) /\ (Produced(u)' <=> Produced(u))
  BY <1>2 DEF Executed, Begun, Produced
<1>9. \A c \in Device, f \in Edge : TakenBy(c, f)' <=> TakenBy(c, f) \/ (c = d /\ f = e)
  <2>1. ASSUME NEW c \in Device \ {d}, NEW f \in Edge PROVE TakenBy(c, f)' <=> TakenBy(c, f)
    BY <1>2, <1>5 DEF TakenBy
  <2>2. ASSUME NEW f \in Edge PROVE TakenBy(d, f)' <=> TakenBy(d, f) \/ f = e
    <3>1. \A m \in DOMAIN InEdges[v] : m < n + 1 <=> m < n \/ m = n
      BY <1>4, Dag
    <3>2. QED
      BY <1>2, <1>3, <1>5, <3>1 DEF TakenBy
  <2>3. QED
    BY <2>1, <2>2
<1>10. \A f \in Edge : Taken(f)' <=> Taken(f) \/ f = e
  BY <1>2, <1>9 DEF Taken
<1>11. Counter'
  <2>1. Counter
    BY DEF Buffers
  <2>2. data_pointer[e] \in 1..total_data_set_in_device
    BY <1>2, <1>3, <2>1 DEF Counter
  <2>3. DOMAIN device_data' \subseteq (1..total_data_set_in_device) \X Device
    BY <1>6, <2>1, <2>2 DEF Counter
  <2>4. QED
    BY <1>2, <1>8, <2>1, <2>3 DEF Counter
<1>12. Reads' /\ Distinct'
  <2>1. Reads /\ Distinct
    BY DEF Buffers
  <2>2. Reads'
    BY <1>2, <2>1 DEF Reads
  <2>3. Distinct'
    BY <1>2, <1>8, <2>1 DEF Distinct, SameBuffer
  <2>4. QED
    BY <2>2, <2>3
<1>13. Untouched'
  <2>1. v \in popped[d]
    BY <1>1, <1>2, InWork
  <2>2. QED
    BY <1>2, <1>5, <2>1 DEF Buffers, Untouched, Vertex
<1>14. Waiting'
  <2> SUFFICES ASSUME NEW f \in Edge, Produced(Source[f]), ~Taken(f), f # e
               PROVE  /\ AtSource(f) \in DOMAIN device_data'
                      /\ \A c \in Device : <<data_pointer[f], c>> \in DOMAIN device_data' =>
                           c = device[Source[f]]
                      /\ Executed(Source[f]) => device_data'[AtSource(f)] = Expected(f)
    BY <1>2, <1>8, <1>10 DEF Waiting, AtSource
  <2>1. data_pointer[f] # data_pointer[e]
    BY <1>7
  <2>2. /\ AtSource(f) \in DOMAIN device_data
        /\ \A c \in Device : <<data_pointer[f], c>> \in DOMAIN device_data =>
             c = device[Source[f]]
        /\ Executed(Source[f]) => device_data[AtSource(f)] = Expected(f)
    BY DEF Buffers, Waiting
  <2>3. AtSource(f)[1] = data_pointer[f] /\ \A c : <<data_pointer[f], c>>[1] = data_pointer[f]
    BY DEF AtSource
  <2>4. QED
    BY <1>6, <2>1, <2>2, <2>3
<1>15. Arrived'
  <2> SUFFICES ASSUME NEW c \in Device, NEW f \in Edge, TakenBy(c, f) \/ (c = d /\ f = e)
               PROVE  /\ <<data_pointer[f], c>> \in DOMAIN device_data'
                      /\ device_data'[<<data_pointer[f], c>>] = Expected(f)
    BY <1>2, <1>9 DEF Arrived
  <2>1. CASE c = d /\ f = e
    BY <1>6, <2>1
  <2>2. CASE TakenBy(c, f)
    <3>1. Produced(Source[f]) /\ Taken(f)
      BY <1>1, <2>2, TakenIsExecuted DEF Taken
    <3>2. data_pointer[f] # data_pointer[e]
      BY <1>2, <1>3, <1>7, <3>1
    <3>3. /\ <<data_pointer[f], c>> \in DOMAIN device_data
          /\ device_data[<<data_pointer[f], c>>] = Expected(f)
      BY <2>2 DEF Buffers, Arrived
    <3>4. QED
      BY <1>6, <3>2, <3>3
  <2>3. QED
    BY <2>1, <2>2
<1>16. Newest'
  <2> SUFFICES ASSUME NEW c \in Device, pc[c] = "execute",
                      NEW a \in 1..total_data_set_in_device, Own(c, a)
               PROVE  Own(c, a)'
    BY <1>2 DEF Buffers, Newest
  <2>1. ~Executed(process_vertex[c])
    BY <1>1, InWork DEF Working
  <2>2. Source[e] # process_vertex[c] /\ Produced(Source[e])
    BY <1>2, <1>3, <2>1
  <2>3. data_pointer[e] # a
    BY <2>2 DEF Own
  <2>4. <<a, c>> \in DOMAIN device_data'
    BY <1>6, <2>3 DEF Own
  <2>5. \A f \in Edge : Produced(Source[f])' <=> Produced(Source[f])
    BY <1>8
  <2>6. QED
    BY <1>2, <2>4, <2>5 DEF Own
<1>17. InHand'
  <2>1. ASSUME NEW c \in Device, Working(c), c # d
        PROVE  /\ process_vertex[c] # v /\ process_vertex[c] \in Vertex
               /\ cursor'[c] = cursor[c]
               /\ input_data'[process_vertex[c]] = input_data[process_vertex[c]]
    <3>1. process_vertex[c] # process_vertex[d] /\ process_vertex[c] \in Vertex
      BY <1>1, <1>2, <2>1, InWork
    <3>2. QED
      BY <1>2, <1>5, <2>1, <3>1
  <2>2. /\ device[v] = d /\ output_data[v] = <<>>
        /\ n \in 1..(Len(InEdges[v]) + 1) /\ Len(input_data[v]) = n - 1
        /\ \A m \in 1..(n - 1) : input_data[v][m] = data_pointer[InEdges[v][m]]
    BY <1>2 DEF Buffers, InHand, Hand
  <2>3. input_data[v] \in Seq(Nat) /\ n \in 1..Len(InEdges[v]) /\ Len(InEdges[v]) \in Nat
    BY <1>2, <1>4, Dag
  <2>4. /\ n + 1 \in 1..(Len(InEdges[v]) + 1)
        /\ Len(input_data'[v]) = (n + 1) - 1
        /\ \A m \in 1..((n + 1) - 1) : input_data'[v][m] = data_pointer[InEdges[v][m]]
    <3>1. n + 1 \in 1..(Len(InEdges[v]) + 1) /\ (n + 1) - 1 = n /\ Len(input_data[v]) + 1 = n
      BY <2>2, <2>3
    <3>2. Len(input_data'[v]) = n /\ input_data'[v][n] = data_pointer[e]
      BY <1>4, <1>5, <2>3, <3>1
    <3>3. \A m \in 1..(n - 1) : input_data'[v][m] = input_data[v][m]
      BY <1>4, <1>5, <2>2, <2>3
    <3>4. \A m \in 1..n : m = n \/ m \in 1..(n - 1)
      OBVIOUS
    <3>5. QED
      BY <1>3, <2>2, <3>1, <3>2, <3>3, <3>4
  <2>5. ASSUME NEW c \in Device, Working(c), c # d PROVE Hand(c)'
    <3>1. Hand(c)
      BY <2>5 DEF Buffers, InHand
    <3>2. QED
      BY <1>2, <2>1, <2>5, <3>1 DEF Hand
  <2>6. Hand(d)'
    <3>1. /\ process_vertex'[d] = v /\ device'[v] = d /\ pc'[d] = "input"
          /\ output_data'[v] = <<>> /\ cursor'[d] = n + 1
      BY <1>2, <1>5, <2>2
    <3>2. \A m \in 1..((n + 1) - 1) : input_data'[v][m] = data_pointer'[InEdges[v][m]]
      BY <1>2, <2>4
    <3>3. QED
      BY <2>4, <3>1, <3>2 DEF Hand
  <2>7. QED
    BY <1>2, <2>5, <2>6 DEF InHand, Working
<1>18. QED
  BY <1>11, <1>12, <1>13, <1>14, <1>15, <1>16, <1>17 DEF Buffers

-----------------------------------------------------------------------------
(* prepare_output_buffer: as long as no alias is shared, the one that was  *)
(* read is the next one.                                                   *)

LEMMA OutputStep ==
  ASSUME IInv, DataTypes, Good, Good', Buffers, NEW d \in Device, Output(d)
  PROVE  \E v \in Operation, a \in Nat :
           /\ v = process_vertex[d] /\ a = total_data_set_in_device + 1
           /\ Working(d) /\ pc[d] = "output" /\ pc'[d] = "execute"
           /\ output_data[v] = <<>>
           /\ \A c \in Device \ {d} : pc'[c] = pc[c]
           /\ UNCHANGED <<device, input_data, process_vertex, runs, popped, cursor, alias_read>>
           /\ total_data_set_in_device' = a
           /\ output_data' = [output_data EXCEPT ![v] = <<a>>]
           /\ data_pointer' = [e \in Edge |-> IF Source[e] = v THEN a ELSE data_pointer[e]]
           /\ device_data' = Insert(device_data, <<a, d>>, Zeros)
<1>1. /\ missed = {} /\ pc[d] = "output" /\ Working(d) /\ Hand(d)
      /\ pc \in [Device -> Labels] /\ total_data_set_in_device \in Nat
      /\ alias_read[d] \in Nat
  BY DEF Good, Output, At, Working, IInv, Typing, TypeOK, Buffers, InHand
<1>2. PICK v \in Operation : v = process_vertex[d] /\ v \in Vertex
  BY <1>1, InWork
<1>3. output_data[v] = <<>> /\ device[v] = d
  BY <1>1, <1>2 DEF Hand
<1> DEFINE b == alias_read[d] + 1
<1>4. output_data' = [output_data EXCEPT ![v] = <<b>>]
  <2>1. Append(<<>>, b) = <<b>>
    OBVIOUS
  <2>2. output_data' = [output_data EXCEPT ![v] = Append(@, b)]
    BY <1>2 DEF Output, PrepareOutput
  <2>3. QED
    BY <1>3, <2>1, <2>2
<1>5. alias_read[d] = total_data_set_in_device
  <2> SUFFICES ASSUME NEW w \in Vertex, NEW j \in DOMAIN output_data[w],
                      output_data[w][j] = b
               PROVE  FALSE
    BY <1>1 DEF Buffers, Reads
  <2>1. w # v
    BY <1>3
  <2>2. /\ output_data'[w] = output_data[w] /\ output_data'[v] = <<b>>
    BY <1>2, <1>4, <2>1 DEF DataTypes
  <2>3. 1 \in DOMAIN output_data'[v] /\ output_data'[v][1] = b
    BY <2>2
  <2>4. QED
    BY <1>2, <2>1, <2>2, <2>3 DEF Good, AliasesAreDistinct
<1>6. /\ total_data_set_in_device' = b
      /\ data_pointer' = [e \in Edge |-> IF Source[e] = v THEN b ELSE data_pointer[e]]
      /\ device_data' = Insert(device_data, <<b, d>>, Zeros)
      /\ UNCHANGED <<device, input_data, process_vertex, runs, popped, cursor, alias_read>>
      /\ pc' = [pc EXCEPT ![d] = "execute"]
  BY <1>2, <1>3 DEF Output, PrepareOutput, Goto, history
<1>7. b \in Nat /\ b = total_data_set_in_device + 1
  BY <1>1, <1>5
<1>8. pc'[d] = "execute" /\ \A c \in Device \ {d} : pc'[c] = pc[c]
  BY <1>1, <1>6
<1> HIDE DEF b
<1>9. QED
  BY <1>1, <1>2, <1>3, <1>4, <1>6, <1>7, <1>8

LEMMA OutputBuffers ==
  ASSUME IInv, DataTypes, Good, Good', Buffers, NEW d \in Device, Output(d)
  PROVE  Buffers'
<1>1. missed = {} /\ total_data_set_in_device \in Nat
  BY DEF Good, IInv, Typing, TypeOK
<1>2. PICK v \in Operation, a \in Nat :
        /\ v = process_vertex[d] /\ a = total_data_set_in_device + 1
        /\ Working(d) /\ pc[d] = "output" /\ pc'[d] = "execute"
        /\ output_data[v] = <<>>
        /\ \A c \in Device \ {d} : pc'[c] = pc[c]
        /\ UNCHANGED <<device, input_data, process_vertex, runs, popped, cursor, alias_read>>
        /\ total_data_set_in_device' = a
        /\ output_data' = [output_data EXCEPT ![v] = <<a>>]
        /\ data_pointer' = [e \in Edge |-> IF Source[e] = v THEN a ELSE data_pointer[e]]
        /\ device_data' = Insert(device_data, <<a, d>>, Zeros)
  BY OutputStep
<1>3. /\ v \in Vertex /\ v # Start /\ v \in popped[d] /\ ~Executed(v) /\ runs[v] = 0
  BY <1>1, <1>2, InWork
<1>4. Hand(d) /\ device[v] = d
  BY <1>2 DEF Buffers, InHand, Hand
\* the alias is fresh
<1>5. /\ \A x \in DOMAIN device_data : x[1] # a
      /\ \A e \in Edge : Produced(Source[e]) => data_pointer[e] # a
      /\ \A m \in 1..total_data_set_in_device : m \in 1..a
      /\ a \in 1..a
  BY <1>1, <1>2 DEF Buffers, Counter
<1>6. /\ DOMAIN device_data' = DOMAIN device_data \cup {<<a, d>>}
      /\ device_data'[<<a, d>>] = Zeros
      /\ \A x \in DOMAIN device_data : device_data'[x] = device_data[x]
  <2>1. <<a, d>> \notin DOMAIN device_data
    BY <1>5
  <2>2. QED
    BY <1>2, <2>1 DEF Insert
<1>7. \A e \in Edge : /\ Source[e] = v => data_pointer'[e] = a
                      /\ Source[e] # v => data_pointer'[e] = data_pointer[e]
  BY <1>2
<1>8. /\ output_data'[v] = <<a>> /\ \A u \in Vertex \ {v} : output_data'[u] = output_data[u]
  BY <1>2, <1>3 DEF DataTypes
<1>9. \A u : Executed(u)' <=> Executed(u)
  BY <1>2 DEF Executed, Begun
<1>10. \A u : Produced(u)' <=> Produced(u) \/ u = v
  BY <1>2, <1>9 DEF Produced
<1>11. \A c \in Device, e \in Edge : TakenBy(c, e)' <=> TakenBy(c, e)
  <2>1. \A c \in Device : pc'[c] \in {"input", "output", "execute"} <=>
                          pc[c] \in {"input", "output", "execute"}
    BY <1>2
  <2>2. QED
    BY <1>2, <2>1 DEF TakenBy
<1>12. \A e \in Edge : Taken(e)' <=> Taken(e)
  BY <1>2, <1>11 DEF Taken
<1>13. ASSUME NEW c \in Device, NEW e \in Edge, TakenBy(c, e)
       PROVE  Produced(Source[e]) /\ Source[e] # v
  BY <1>1, <1>3, <1>13, TakenIsExecuted
<1>14. ASSUME NEW c \in Device, Working(c), c # d
       PROVE  process_vertex[c] # v /\ process_vertex[c] \in Vertex
  BY <1>1, <1>2, <1>14, InWork
\* an edge that does not leave v and is produced keeps its alias
<1>15. Counter'
  <2>1. DOMAIN device_data' \subseteq (1..a) \X Device
    BY <1>5, <1>6 DEF Buffers, Counter
  <2>2. ASSUME NEW e \in Edge, Produced(Source[e])' PROVE data_pointer'[e] \in 1..a
    <3>1. CASE Source[e] = v
      BY <1>5, <1>7, <3>1
    <3>2. CASE Source[e] # v
      BY <1>5, <1>7, <1>10, <2>2, <3>2 DEF Buffers, Counter
    <3>3. QED
      BY <3>1, <3>2
  <2>3. QED
    BY <1>2, <2>1, <2>2 DEF Counter
<1>16. Reads'
  <2> SUFFICES ASSUME NEW c \in Device, pc[c] = "output", c # d
               PROVE  \/ alias_read[c] = a
                      \/ \E w \in Vertex : \E j \in DOMAIN output_data'[w] :
                           output_data'[w][j] = alias_read[c] + 1
    BY <1>2 DEF Reads
  <2>1. CASE alias_read[c] = total_data_set_in_device
    <3>1. 1 \in DOMAIN output_data'[v] /\ output_data'[v][1] = alias_read[c] + 1
      BY <1>2, <1>8, <2>1
    <3>2. QED
      BY <1>3, <3>1
  <2>2. CASE \E w \in Vertex : \E j \in DOMAIN output_data[w] :
               output_data[w][j] = alias_read[c] + 1
    <3>1. PICK w \in Vertex : \E j \in DOMAIN output_data[w] :
               output_data[w][j] = alias_read[c] + 1
      BY <2>2
    <3>2. w # v
      BY <1>2, <3>1
    <3>3. QED
      BY <1>8, <3>1, <3>2
  <2>3. QED
    BY <2>1, <2>2 DEF Buffers, Reads
<1>17. Untouched'
  BY <1>2, <1>3, <1>8 DEF Buffers, Untouched, Vertex
<1>18. InHand'
  <2>1. ASSUME NEW c \in Device, Working(c), c # d PROVE Hand(c)'
    <3>1. Hand(c) /\ process_vertex[c] # v /\ process_vertex[c] \in Vertex
      BY <1>14, <2>1 DEF Buffers, InHand
    <3>2. pc[c] # "await" => \A n \in 1..(cursor[c] - 1) :
            data_pointer'[InEdges[process_vertex[c]][n]] =
              data_pointer[InEdges[process_vertex[c]][n]]
      <4> SUFFICES ASSUME pc[c] # "await", NEW n \in 1..(cursor[c] - 1)
                   PROVE  data_pointer'[InEdges[process_vertex[c]][n]] =
                            data_pointer[InEdges[process_vertex[c]][n]]
        OBVIOUS
      <4>1. cursor[c] \in 1..(Len(InEdges[process_vertex[c]]) + 1)
        BY <3>1 DEF Hand
      <4>2. n \in DOMAIN InEdges[process_vertex[c]] /\ n < cursor[c]
        BY <3>1, <4>1, Dag
      <4>3. InEdges[process_vertex[c]][n] \in Edge
        BY <3>1, <4>2, Dag
      <4>4. TakenBy(c, InEdges[process_vertex[c]][n])
        BY <2>1, <4>2 DEF TakenBy, Working
      <4>5. QED
        BY <1>7, <1>13, <4>3, <4>4
    <3>3. QED
      BY <1>2, <1>8, <2>1, <3>1, <3>2 DEF Hand
  <2>2. Hand(d)'
    <3>1. \A n \in 1..(cursor[d] - 1) :
            data_pointer'[InEdges[v][n]] = data_pointer[InEdges[v][n]]
      <4> SUFFICES ASSUME NEW n \in 1..(cursor[d] - 1)
                   PROVE  data_pointer'[InEdges[v][n]] = data_pointer[InEdges[v][n]]
        OBVIOUS
      <4>1. cursor[d] = Len(InEdges[v]) + 1
        BY <1>2, <1>4 DEF Hand
      <4>2. n \in DOMAIN InEdges[v] /\ n < cursor[d]
        BY <1>3, <4>1, Dag
      <4>3. InEdges[v][n] \in Edge
        BY <1>3, <4>2, Dag
      <4>4. TakenBy(d, InEdges[v][n])
        BY <1>2, <4>2 DEF TakenBy
      <4>5. QED
        BY <1>7, <1>13, <4>3, <4>4
    <3>2. QED
      BY <1>2, <1>4, <3>1 DEF Hand
  <2>3. QED
    BY <1>2, <2>1, <2>2 DEF InHand, Working
<1>19. Newest'
  <2>1. Own(d, a)'
    BY <1>2, <1>5, <1>6, <1>7, <1>8, <1>10 DEF Own
  <2>2. ASSUME NEW c \in Device, c # d, pc[c] = "execute",
               NEW b \in 1..total_data_set_in_device, Own(c, b)
        PROVE  Own(c, b)'
    <3>1. process_vertex[c] # v /\ process_vertex[c] \in Vertex
      BY <1>14, <2>2 DEF Working
    <3>2. b # a
      BY <1>1, <1>2
    <3>3. QED
      BY <1>2, <1>6, <1>7, <1>8, <1>10, <2>2, <3>1, <3>2 DEF Own
  <2>3. ASSUME NEW c \in Device, pc'[c] = "execute" PROVE \E b \in 1..a : Own(c, b)'
    <3>1. CASE c = d
      BY <1>5, <2>1, <3>1
    <3>2. CASE c # d
      BY <1>2, <1>5, <2>2, <2>3, <3>2 DEF Buffers, Newest
    <3>3. QED
      BY <3>1, <3>2
  <2>4. QED
    BY <1>2, <2>3 DEF Newest
<1>20. Distinct'
  <2> SUFFICES ASSUME NEW e \in Edge, NEW f \in Edge, data_pointer'[e] = data_pointer'[f],
                      Produced(Source[e]) \/ Source[e] = v,
                      Produced(Source[f]) \/ Source[f] = v
               PROVE  SameBuffer(e, f)
    BY <1>10 DEF Distinct
  <2>1. CASE Source[e] = v /\ Source[f] = v
    BY <1>3, <2>1 DEF SameBuffer
  <2>2. CASE Source[e] # v /\ Source[f] # v
    BY <1>7, <2>2 DEF Buffers, Distinct
  <2>3. CASE ~(Source[e] = v <=> Source[f] = v)
    BY <1>5, <1>7, <2>3
  <2>4. QED
    BY <2>1, <2>2, <2>3
<1>21. Waiting'
  <2> SUFFICES ASSUME NEW e \in Edge, Produced(Source[e]) \/ Source[e] = v, ~Taken(e)
               PROVE  /\ AtSource(e)' \in DOMAIN device_data'
                      /\ \A c \in Device : <<data_pointer'[e], c>> \in DOMAIN device_data' =>
                           c = device[Source[e]]
                      /\ Executed(Source[e]) => device_data'[AtSource(e)'] = Expected(e)
    BY <1>2, <1>9, <1>10, <1>12 DEF Waiting
  <2>1. CASE Source[e] = v
    <3>1. AtSource(e)' = <<a, d>>
      BY <1>2, <1>4, <1>7, <2>1 DEF AtSource
    <3>2. \A c \in Device : <<a, c>> \in DOMAIN device_data' => c = d
      BY <1>5, <1>6
    <3>3. QED
      BY <1>3, <1>4, <1>6, <1>7, <2>1, <3>1, <3>2
  <2>2. CASE Source[e] # v
    <3>1. AtSource(e)' = AtSource(e)
      BY <1>2, <1>7, <2>2 DEF AtSource
    <3>2. data_pointer[e] # a /\ data_pointer'[e] = data_pointer[e]
      BY <1>5, <1>7, <2>2
    <3>3. /\ AtSource(e) \in DOMAIN device_data
          /\ \A c \in Device : <<data_pointer[e], c>> \in DOMAIN device_data =>
               c = device[Source[e]]
          /\ Executed(Source[e]) => device_data[AtSource(e)] = Expected(e)
      BY <2>2 DEF Buffers, Waiting
    <3>4. QED
      BY <1>6, <3>1, <3>2, <3>3
  <2>3. QED
    BY <2>1, <2>2
<1>22. Arrived'
  <2> SUFFICES ASSUME NEW c \in Device, NEW e \in Edge, TakenBy(c, e)
               PROVE  /\ <<data_pointer'[e], c>> \in DOMAIN device_data'
                      /\ device_data'[<<data_pointer'[e], c>>] = Expected(e)
    BY <1>11 DEF Arrived
  <2>1. data_pointer'[e] = data_pointer[e]
    BY <1>7, <1>13
  <2>2. QED
    BY <1>6, <2>1 DEF Buffers, Arrived
<1>23. QED
  BY <1>15, <1>16, <1>17, <1>18, <1>19, <1>20, <1>21, <1>22 DEF Buffers

-----------------------------------------------------------------------------
(* execute_node: the inputs are there, and only the output is written.     *)

LEMMA InputsThere ==
  ASSUME IInv, DataTypes, Good, Buffers, NEW d \in Device, pc[d] = "execute",
         NEW v \in Operation, v = process_vertex[d], NEW a \in Nat, Own(d, a)
  PROVE  /\ Len(Arguments(v)) = Arity(v) /\ DOMAIN OnDevice(v) = 1..Arity(v)
         /\ Arity(v) \in 1..Arity(v) /\ OnDevice(v)[Arity(v)] = <<a, d>>
         /\ \A n \in DOMAIN InEdges[v] :
              /\ n \in 1..Arity(v)
              /\ OnDevice(v)[n] = <<data_pointer[InEdges[v][n]], d>>
              /\ OnDevice(v)[n] \in DOMAIN device_data
              /\ device_data[OnDevice(v)[n]] = Expected(InEdges[v][n])
<1> DEFINE k == Len(InEdges[v])
           s == input_data[v]
           t == output_data[v]
<1>1. /\ v \in Vertex /\ k \in Nat /\ DOMAIN InEdges[v] = 1..k
      /\ \A n \in 1..k : InEdges[v][n] \in Edge
  BY Dag DEF Vertex
<1>2. /\ s \in Seq(Nat) /\ Len(s) = k /\ device[v] = d
      /\ \A n \in 1..k : s[n] = data_pointer[InEdges[v][n]]
      /\ cursor[d] = k + 1
  <2>1. Hand(d)
    BY DEF Buffers, InHand, Working
  <2>2. cursor[d] = k + 1 /\ device[v] = d /\ Len(s) = cursor[d] - 1
        /\ \A n \in 1..(cursor[d] - 1) : s[n] = data_pointer[InEdges[v][n]]
    BY <2>1 DEF Hand
  <2>3. s \in Seq(Nat)
    BY <1>1 DEF DataTypes
  <2> HIDE DEF k, s, t
  <2>4. (k + 1) - 1 = k
    BY <1>1
  <2>5. QED
    BY <2>2, <2>3, <2>4 DEF s, k
<1>3. t = <<a>> /\ t \in Seq(Nat) /\ Len(t) = 1 /\ t[1] = a
  <2>1. t = <<a>>
    BY DEF Own
  <2>2. QED
    BY <2>1
<1>4. Arity(v) = k + 1 /\ Arguments(v) = s \o t
  BY DEF Arity, Arguments
<1> HIDE DEF k, s, t
<1>5. /\ s \o t \in Seq(Nat) /\ Len(s \o t) = k + 1 /\ DOMAIN (s \o t) = 1..(k + 1)
      /\ \A n \in 1..k : (s \o t)[n] = s[n]
      /\ (s \o t)[k + 1] = a
  <2>1. s \in Seq(Nat) /\ t \in Seq(Nat)
    BY <1>2, <1>3
  <2>2. /\ s \o t \in Seq(Nat) /\ Len(s \o t) = Len(s) + Len(t)
        /\ \A i \in 1..Len(s) + Len(t) :
             (s \o t)[i] = IF i <= Len(s) THEN s[i] ELSE t[i - Len(s)]
    BY ONLY <2>1, ConcatProperties
  <2>3. QED
    BY <1>1, <1>2, <1>3, <2>2
<1>6. /\ Len(Arguments(v)) = k + 1 /\ DOMAIN OnDevice(v) = 1..(k + 1)
      /\ \A n \in 1..(k + 1) : OnDevice(v)[n] = <<Arguments(v)[n], d>>
  BY <1>2, <1>4, <1>5 DEF OnDevice
<1>7. \A n \in 1..k : n \in 1..(k + 1) /\ n < k + 1
  BY <1>1
<1>8. k + 1 \in 1..(k + 1)
  BY <1>1
<1>9. ASSUME NEW n \in 1..k
      PROVE  /\ n \in 1..Arity(v)
             /\ OnDevice(v)[n] = <<data_pointer[InEdges[v][n]], d>>
             /\ OnDevice(v)[n] \in DOMAIN device_data
             /\ device_data[OnDevice(v)[n]] = Expected(InEdges[v][n])
  <2>1. OnDevice(v)[n] = <<data_pointer[InEdges[v][n]], d>> /\ n \in 1..Arity(v)
    <3>1. Arguments(v)[n] = data_pointer[InEdges[v][n]]
      BY <1>2, <1>4, <1>5
    <3>2. OnDevice(v)[n] = <<Arguments(v)[n], d>> /\ n \in 1..(k + 1)
      BY <1>6, <1>7
    <3>3. QED
      BY <1>4, <1>6, <3>1, <3>2
  <2>2. TakenBy(d, InEdges[v][n])
    BY <1>1, <1>2, <1>7 DEF TakenBy
  <2>3. QED
    BY <1>1, <2>1, <2>2 DEF Buffers, Arrived
<1>10. QED
  BY <1>1, <1>4, <1>5, <1>6, <1>8, <1>9

LEMMA ExecuteBuffers ==
  ASSUME IInv, DataTypes, Good, Good', Buffers, NEW d \in Device, Execute(d)
  PROVE  Buffers'
<1>1. /\ missed = {} /\ pc[d] = "execute" /\ Working(d) /\ pc \in [Device -> Labels]
      /\ runs \in [Vertex -> Nat] /\ total_data_set_in_device \in Nat
  BY DEF Good, Execute, At, Working, IInv, Typing, TypeOK
<1>2. PICK v \in Operation :
        /\ v = process_vertex[d] /\ v \in Vertex /\ v # Start /\ v # End
        /\ v \in popped[d] /\ ~Executed(v) /\ runs[v] = 0
  BY <1>1, InWork, ScanAssumption
<1>3. PICK a \in 1..total_data_set_in_device : Own(d, a)
  BY <1>1 DEF Buffers, Newest
<1>4. /\ a \in Nat /\ <<a, d>> \in DOMAIN device_data
      /\ \A e \in Edge : /\ Source[e] = v => data_pointer[e] = a
                         /\ Source[e] # v /\ Produced(Source[e]) => data_pointer[e] # a
  BY <1>1, <1>2, <1>3 DEF Own
<1>5. /\ Len(Arguments(v)) = Arity(v) /\ DOMAIN OnDevice(v) = 1..Arity(v)
      /\ OnDevice(v)[Arity(v)] = <<a, d>> /\ Arity(v) \in 1..Arity(v)
      /\ \A n \in DOMAIN InEdges[v] :
           /\ n \in 1..Arity(v)
           /\ OnDevice(v)[n] \in DOMAIN device_data
           /\ device_data[OnDevice(v)[n]] = Expected(InEdges[v][n])
  BY <1>1, <1>2, <1>3, <1>4, InputsThere
<1>6. ~ExecuteIsUndefined(v)
  <2>1. \A i \in 1..Arity(v) : i \in DOMAIN InEdges[v] \/ i = Arity(v)
    <3>1. \A k \in Nat : \A i \in 1..(k + 1) : i \in 1..k \/ i = k + 1
      OBVIOUS
    <3>2. Len(InEdges[v]) \in Nat /\ DOMAIN InEdges[v] = 1..Len(InEdges[v])
      BY <1>2, Dag
    <3>3. QED
      BY <3>1, <3>2 DEF Arity
  <2>2. \A i \in DOMAIN OnDevice(v) : OnDevice(v)[i] \in DOMAIN device_data
    BY <1>4, <1>5, <2>1
  <2>3. QED
    BY <1>2, <2>2 DEF ExecuteIsUndefined, MissesArgument, LacksKernel
<1>7. Computed(v, device_data, OnDevice(v)) = Result(v)
  <2>1. DOMAIN InEdges[v] = 1..Len(InEdges[v])
    BY <1>2, Dag
  <2>2. QED
    BY <1>5, <2>1 DEF Computed
<1>8. device_data' = [device_data EXCEPT ![<<a, d>>] = Result(v)]
  BY <1>2, <1>5, <1>6, <1>7 DEF Execute, ExecuteOnDevice, Run
<1>9. /\ DOMAIN device_data' = DOMAIN device_data
      /\ device_data'[<<a, d>>] = Result(v)
      /\ \A x \in DOMAIN device_data : x[1] # a => device_data'[x] = device_data[x]
  BY <1>4, <1>8
<1>10. /\ UNCHANGED <<data_pointer, total_data_set_in_device, input_data, device,
                      output_data, process_vertex, popped, cursor, alias_read>>
       /\ runs' = [runs EXCEPT ![v] = @ + 1]
       /\ pc' = [pc EXCEPT ![d] = "publish"]
  BY <1>2 DEF Execute, ExecuteOnDevice, Goto
<1>11. /\ pc'[d] = "publish" /\ \A c \in Device \ {d} : pc'[c] = pc[c]
       /\ runs'[v] > 0 /\ \A u \in Vertex \ {v} : runs'[u] = runs[u]
  BY <1>1, <1>2, <1>10
<1>12. /\ Executed(v)' /\ Produced(v)'
       /\ \A u \in Vertex \ {v} : Executed(u)' <=> Executed(u)
  BY <1>1, <1>2, <1>11 DEF Executed, Produced, Begun
<1>13. \A u \in Vertex : Produced(u)' <=> Produced(u)
  <2>1. Produced(v)
    BY <1>1, <1>2 DEF Produced
  <2>2. ASSUME NEW u \in Vertex \ {v} PROVE Produced(u)' <=> Produced(u)
    <3>1. Executed(u)' <=> Executed(u)
      BY <1>12
    <3>2. (\E c \in Device : pc'[c] = "execute" /\ process_vertex[c] = u)
          <=> (\E c \in Device : pc[c] = "execute" /\ process_vertex[c] = u)
      BY <1>1, <1>2, <1>11
    <3>3. QED
      BY <1>10, <3>1, <3>2 DEF Produced
  <2>3. QED
    BY <1>12, <2>1, <2>2
<1>14. \A c \in Device, e \in Edge : TakenBy(c, e)' <=> TakenBy(c, e) /\ c # d
  BY <1>1, <1>10, <1>11 DEF TakenBy
<1>15. \A e \in Edge : Taken(e) => Taken(e)'
  <2>1. ASSUME NEW e \in Edge, TakenBy(d, e)
        PROVE  \E n \in DOMAIN InEdges[v] : InEdges[v][n] = e
    BY <1>2, <2>1 DEF TakenBy
  <2>2. \A u \in Operation : runs[u] > 0 => runs'[u] > 0
    BY <1>1, <1>11 DEF Vertex
  <2>3. QED
    BY <1>11, <1>14, <2>1, <2>2 DEF Taken
<1>16. \A e \in Edge : Source[e] \in Vertex
  BY ScanAssumption
<1>17. Counter' /\ Distinct'
  BY <1>9, <1>10, <1>13, <1>16 DEF Buffers, Counter, Distinct
<1>18. Reads' /\ Untouched'
  BY <1>10, <1>11 DEF Buffers, Reads, Untouched
<1>19. InHand'
  <2>1. ASSUME NEW c \in Device, Working(c)'
        PROVE  Working(c) /\ pc'[c] = pc[c] /\ Hand(c)
    BY <1>11, <2>1 DEF Buffers, InHand, Working
  <2>2. QED
    BY <1>10, <2>1 DEF InHand, Hand
<1>20. Newest'
  <2>1. ASSUME NEW c \in Device, c # d, NEW b, Own(c, b) PROVE Own(c, b)'
    BY <1>9, <1>10, <1>13, <1>16, <2>1 DEF Own
  <2>2. \A c \in Device : pc'[c] = "execute" => c # d /\ pc[c] = "execute"
    BY <1>11
  <2>3. QED
    BY <1>10, <2>1, <2>2 DEF Buffers, Newest
<1>21. Waiting'
  <2> SUFFICES ASSUME NEW e \in Edge, Produced(Source[e]), ~Taken(e)
               PROVE  /\ AtSource(e) \in DOMAIN device_data
                      /\ \A c \in Device : <<data_pointer[e], c>> \in DOMAIN device_data =>
                           c = device[Source[e]]
                      /\ Executed(Source[e])' => device_data'[AtSource(e)] = Expected(e)
    BY <1>9, <1>10, <1>13, <1>15, <1>16 DEF Waiting, AtSource
  <2>1. /\ AtSource(e) \in DOMAIN device_data
        /\ \A c \in Device : <<data_pointer[e], c>> \in DOMAIN device_data =>
             c = device[Source[e]]
        /\ Executed(Source[e]) => device_data[AtSource(e)] = Expected(e)
    BY DEF Buffers, Waiting
  <2>2. CASE Source[e] = v
    <3>1. AtSource(e) = <<a, d>>
      <4>1. device[v] = d
        BY <1>1, <1>2 DEF Buffers, InHand, Hand
      <4>2. QED
        BY <1>4, <2>2, <4>1 DEF AtSource
    <3>2. Expected(e) = Result(v)
      BY <1>2, <2>2 DEF Expected
    <3>3. QED
      BY <1>9, <2>1, <3>1, <3>2
  <2>3. CASE Source[e] # v
    <3>1. AtSource(e)[1] # a
      BY <1>4, <2>3 DEF AtSource
    <3>2. Executed(Source[e])' <=> Executed(Source[e])
      BY <1>12, <1>16, <2>3
    <3>3. QED
      BY <1>9, <2>1, <3>1, <3>2
  <2>4. QED
    BY <2>2, <2>3
<1>22. Arrived'
  <2> SUFFICES ASSUME NEW c \in Device, NEW e \in Edge, TakenBy(c, e)
               PROVE  /\ <<data_pointer[e], c>> \in DOMAIN device_data
                      /\ device_data'[<<data_pointer[e], c>>] = Expected(e)
    BY <1>9, <1>10, <1>14 DEF Arrived
  <2>1. Executed(Source[e]) /\ Produced(Source[e])
    BY <1>1, TakenIsExecuted
  <2>2. data_pointer[e] # a
    BY <1>2, <1>4, <2>1
  <2>3. QED
    BY <1>9, <2>2 DEF Buffers, Arrived
<1>23. QED
  BY <1>17, <1>18, <1>19, <1>20, <1>21, <1>22 DEF Buffers

LEMMA KeepData == OneReader /\ IInv /\ IInv' /\ Data /\ [Next]_vars => Data'
<1> SUFFICES ASSUME OneReader, IInv, IInv', Data, [Next]_vars PROVE Data'
  OBVIOUS
<1>1. DataTypes' /\ Loading'
  BY KeepDataTypes, KeepLoading DEF Data
<1>2. ASSUME Good' PROVE Buffers'
  <2>1. Good /\ DataTypes /\ Loading /\ Buffers
    BY <1>2, GoodBefore DEF Data
  <2>2. CASE Load
    BY <1>1, <1>2, <2>1, <2>2, LoadBuffers
  <2>3. CASE FormQueue
    BY <1>2, <2>1, <2>3, StartBuffers
  <2>4. ASSUME NEW d \in Device, Step(d) PROVE Buffers'
    <3>1. CASE CheckQueue(d) \/ AwaitInputs(d) \/ ReadAlias(d) \/ Publish(d)
      BY <1>2, <2>1, <3>1, QuietBuffers
    <3>2. CASE Pop(d)
      BY <1>2, <2>1, <3>2, PopBuffers
    <3>3. CASE Input(d)
      BY <1>2, <2>1, <3>3, InputBuffers
    <3>4. CASE Output(d)
      BY <1>2, <2>1, <3>4, OutputBuffers
    <3>5. CASE Execute(d)
      BY <1>2, <2>1, <3>5, ExecuteBuffers
    <3>6. QED
      BY <2>4, <3>1, <3>2, <3>3, <3>4, <3>5 DEF Step
  <2>5. CASE UNCHANGED vars
    <3>1. UNCHANGED <<content, device, pc, process_vertex, cursor, alias_read, runs, popped>>
      BY <2>5 DEF vars, graphVars, scanVars, history, content
    <3>2. \A u : (Executed(u)' <=> Executed(u)) /\ (Produced(u)' <=> Produced(u))
      BY <3>1 DEF Produced, Executed, Begun
    <3>3. \A e : (Taken(e)' <=> Taken(e)) /\ \A d : TakenBy(d, e)' <=> TakenBy(d, e)
      BY <3>1 DEF Taken, TakenBy
    <3>4. Counter' /\ Reads' /\ Untouched' /\ Distinct' /\ Arrived'
      BY <2>1, <3>1, <3>2, <3>3
         DEF Buffers, Counter, Reads, Untouched, Distinct, Arrived, content
    <3>5. Waiting'
      BY <2>1, <3>1, <3>2, <3>3 DEF Buffers, Waiting, AtSource, content
    <3>6. InHand'
      BY <2>1, <3>1 DEF Buffers, InHand, Hand, Working, content
    <3>7. Newest'
      <4>1. ASSUME NEW d \in Device, NEW a, Own(d, a) PROVE Own(d, a)'
        BY <3>1, <3>2, <4>1 DEF Own, content
      <4>2. QED
        BY <2>1, <3>1, <4>1 DEF Buffers, Newest, content
    <3>8. QED
      BY <3>4, <3>5, <3>6, <3>7 DEF Buffers
  <2>6. QED
    BY <2>2, <2>3, <2>4, <2>5 DEF Next
<1>3. QED
  BY <1>1, <1>2 DEF Data

\* "This is set only after the data is pushed into the target device"
\* (exchange.hpp:73) is true when nothing was repeated, no alias was given
\* twice and no buffer has two readers: then the moves of set_input bring
\* every input of every vertex to the device that executes it.
THEOREM InputsArrive ==
  ASSUME AliasesClearKeys, OneReader
  PROVE  SafeSpec => []TreeInputsArrive
<1>1. Init => Data
  BY InitData
<1>2. IInv /\ IInv' /\ Data /\ [Next]_vars => Data'
  BY KeepData
<1>3. IInv /\ Data => TreeInputsArrive
  <2> SUFFICES ASSUME IInv, DataTypes, Good, Buffers, NEW d \in Device, pc[d] = "execute"
               PROVE  LET v == process_vertex[d] IN
                      /\ Len(Arguments(v)) = Arity(v)
                      /\ \A i \in DOMAIN InEdges[v] :
                           /\ OnDevice(v)[i] \in DOMAIN device_data
                           /\ device_data[OnDevice(v)[i]] = Expected(InEdges[v][i])
    BY DEF Data, Good, TreeInputsArrive, InputsAreInTarget
  <2>1. total_data_set_in_device \in Nat
    BY DEF IInv, Typing, TypeOK
  <2>2. PICK a \in Nat : Own(d, a)
    BY <2>1 DEF Buffers, Newest
  <2>3. PICK v \in Operation : v = process_vertex[d]
    BY InWork DEF Good, Working
  <2>4. QED
    BY <2>2, <2>3, InputsThere
<1>4. QED
  BY AlwaysIInv, <1>1, <1>2, <1>3, PTL DEF SafeSpec

-----------------------------------------------------------------------------
(* Nobody waits for ever: the safety part of EveryOperationRuns.           *)

IsQueued(v) == \E i \in DOMAIN ex_processing_queue : ex_processing_queue[i] = v

\* The out-edges of v are ready.
IsPublished(v) == \A e \in Edge : Source[e] = v => ready_for_next_step[e]

\* The queue takes all operations of the graph.
EverythingFits == Cardinality(Operation) <= Capacity

\* What was put in the queue is there or with a device, and the producers of
\* a vertex were put there, too.
Lots ==
  Begun =>
    /\ TopologicalOrders(Operation) # {}
    /\ EverythingFits => queued = Operation
    /\ \A v \in queued : Producers(v) \subseteq queued
    /\ \A v \in queued : IsQueued(v) \/ \E d \in Device : v \in popped[d]
    /\ IsPublished(Start)

\* Producers come before their readers in the queue, and out of it.
InTurn ==
  /\ \A i \in DOMAIN ex_processing_queue :
       /\ ex_processing_queue[i] \in queued
       /\ \A j \in DOMAIN ex_processing_queue :
            ex_processing_queue[j] \in Producers(ex_processing_queue[i]) => j < i
  /\ \A d \in Device : \A v \in popped[d] :
       v \in queued /\ \A u \in Producers(v) : ~IsQueued(u)

\* A vertex a device took was executed and published, or is in its hands.
Accounted ==
  \A d \in Device : \A v \in popped[d] :
    \/ runs[v] > 0 /\ IsPublished(v)
    \/ Holding(d) /\ process_vertex[d] = v

\* A device with a vertex it did not take has missed one; it ends when the
\* queue is empty.
Strays ==
  \A d \in Device :
    /\ popped[d] = {} => process_vertex[d] \in HeapGarbage
    /\ popped[d] = {} /\ Holding(d) => d \in missed
    /\ pc[d] = "ended" => ex_processing_queue = <<>>

Progress == Lots /\ InTurn /\ Accounted /\ Strays

\* Device d is neither at its end nor in a spin that cannot end yet.
GoesOn(d) ==
  /\ pc[d] # "ended"
  /\ pc[d] = "await" => \A i \in DOMAIN InEdges[process_vertex[d]] :
                          ready_for_next_step[InEdges[process_vertex[d]][i]]

SomebodyGoesOn ==
  Begun /\ (\E d \in Device : pc[d] # "ended") => \E d \in Device : GoesOn(d)

NothingIsLeft ==
  (\A d \in Device : pc[d] = "ended") =>
    \A v \in IF EverythingFits THEN Operation ELSE queued : runs[v] > 0

LEMMA ProducersAreOperations ==
  ASSUME NEW v \in Vertex
  PROVE  Producers(v) \subseteq Operation
<1>1. \A i \in DOMAIN InEdges[v] : InEdges[v][i] \in Edge
  BY ScanAssumption
<1>2. \A e \in Edge : Source[e] \in Vertex /\ Source[e] # End
  BY ScanAssumption, GraphAssumption
<1>3. QED
  BY <1>1, <1>2 DEF Producers, Vertex

\* The source of an in-edge has an earlier place.
LEMMA ComesEarlier ==
  ASSUME NEW order \in TopologicalOrders(Operation),
         NEW i \in 1..Cardinality(Operation), NEW u \in Producers(order[i])
  PROVE  \E j \in 1..(i - 1) : order[j] = u
<1>1. PICK n \in DOMAIN InEdges[order[i]] : u = Source[InEdges[order[i]][n]]
  BY DEF Producers
<1>2. order[i] \in Operation
  BY DEF TopologicalOrders, Orders
<1>3. u \in Operation
  BY <1>2, ProducersAreOperations DEF Vertex
<1>4. SourceCame(Operation, order, i, n)
  BY DEF TopologicalOrders
<1>5. QED
  BY <1>1, <1>3, <1>4 DEF SourceCame

\* The queue is formed of the first operations of a topological order.
LEMMA FormedQueue ==
  ASSUME IInv, FormQueue
  PROVE  /\ TopologicalOrders(Operation) # {}
         /\ EverythingFits => queued' = Operation
         /\ \A v \in queued' : Producers(v) \subseteq queued' /\ IsQueued(v)'
         /\ \A i \in DOMAIN ex_processing_queue' :
              /\ ex_processing_queue'[i] \in queued'
              /\ \A j \in DOMAIN ex_processing_queue' :
                   ex_processing_queue'[j] \in Producers(ex_processing_queue'[i]) => j < i
<1>1. PICK order \in TopologicalOrders(Operation) :
        /\ ex_processing_queue' = Pushed(order)
        /\ queued' = {Pushed(order)[i] : i \in DOMAIN Pushed(order)}
  BY DEF FormQueue
<1> DEFINE n == Cardinality(Operation)
<1>2. order \in Orders(Operation) /\ IsFiniteSet(Operation)
  <2>1. Operation \subseteq Vertex /\ IsFiniteSet(Vertex)
    BY ExchangeAssumption DEF Vertex
  <2>2. QED
    BY <2>1, FS_Subset DEF TopologicalOrders
<1>3. /\ n \in Nat
      /\ \A i, j \in 1..n : order[i] = order[j] => i = j
      /\ \A u \in Operation : \E i \in 1..n : order[i] = u
      /\ \A i \in 1..n : order[i] \in Operation
  BY <1>2, OrderIsOnto
<1>4. PICK k \in 0..n :
        /\ DOMAIN Pushed(order) = 1..k /\ \A i \in 1..k : Pushed(order)[i] = order[i]
        /\ EverythingFits => k = n
  BY PushedPrefix DEF EverythingFits
<1>5. \A i \in 1..n : \A u \in Producers(order[i]) : \E j \in 1..(i - 1) : order[j] = u
  BY ComesEarlier
<1>6. queued' = {order[i] : i \in 1..k}
  BY <1>1, <1>4
<1>7. EverythingFits => queued' = Operation
  BY <1>3, <1>4, <1>6
<1>8. ASSUME NEW v \in queued' PROVE Producers(v) \subseteq queued' /\ IsQueued(v)'
  <2>1. PICK i \in 1..k : v = order[i]
    BY <1>6
  <2>2. i \in 1..n
    BY <1>3
  <2>3. \A u \in Producers(v) : \E j \in 1..(i - 1) : order[j] = u
    BY <1>5, <2>1, <2>2
  <2>4. \A j \in 1..(i - 1) : j \in 1..k
    BY <1>3
  <2>5. Producers(v) \subseteq queued'
    BY <1>6, <2>3, <2>4
  <2>6. IsQueued(v)'
    BY <1>1, <1>4, <2>1 DEF IsQueued
  <2>7. QED
    BY <2>5, <2>6
<1>9. ASSUME NEW i \in 1..k, NEW j \in 1..k, order[j] \in Producers(order[i])
      PROVE  j < i
  <2>1. i \in 1..n /\ j \in 1..n
    BY <1>3
  <2>2. PICK h \in 1..(i - 1) : order[h] = order[j]
    BY <1>5, <1>9, <2>1
  <2>3. h \in 1..n /\ h < i
    BY <1>3, <2>1
  <2>4. QED
    BY <1>3, <2>1, <2>2, <2>3
<1>10. QED
  BY <1>1, <1>4, <1>6, <1>7, <1>8, <1>9

LEMMA InitProgress == Init => Progress
<1> SUFFICES ASSUME Init PROVE Progress
  OBVIOUS
<1>1. \A d \in Device : pc[d] = "unborn" /\ popped[d] = {} /\ process_vertex[d] \in HeapGarbage
  BY DEF Init
<1>2. ex_processing_queue = <<>>
  BY DEF Init
<1>3. Lots /\ Accounted
  BY <1>1 DEF Lots, Accounted, Begun
<1>4. InTurn
  BY <1>1, <1>2 DEF InTurn
<1>5. Strays
  BY <1>1 DEF Strays, Holding, Working
<1>6. QED
  BY <1>3, <1>4, <1>5 DEF Progress

\* Whatever was published stays so.
LEMMA StaysPublished ==
  ASSUME IInv, [Next]_vars, Begun
  PROVE  /\ Begun' /\ UNCHANGED queued
         /\ \A v : IsPublished(v) => IsPublished(v)'
<1>1. \A d \in Device : pc[d] # "unborn"
  BY DEF IInv, Started, Begun
<1>2. CASE Load \/ UNCHANGED <<taken, pc, ready_for_next_step>>
  BY <1>2, LoadStep DEF taken, Begun, IsPublished
<1>3. CASE FormQueue
  BY <1>1, <1>3, StartStep
<1>4. ASSUME NEW d \in Device, Middle(d) \/ CheckQueue(d) \/ Execute(d)
      PROVE  Begun' /\ UNCHANGED <<queued, ready_for_next_step>>
  <2>1. Middle(d) => pc'[d] # "unborn" /\ UNCHANGED <<queued, ready_for_next_step>>
    BY MiddleStep DEF taken
  <2>2. CheckQueue(d) => pc'[d] # "unborn" /\ UNCHANGED <<queued, ready_for_next_step>>
    BY CheckStep DEF taken
  <2>3. Execute(d) => pc'[d] # "unborn" /\ UNCHANGED <<queued, ready_for_next_step>>
    BY ExecuteStep
  <2>4. QED
    BY <1>4, <2>1, <2>2, <2>3 DEF Begun
<1>5. ASSUME NEW d \in Device, Pop(d)
      PROVE  Begun' /\ UNCHANGED <<queued, ready_for_next_step>>
  BY <1>5, TakeStep, MissStep DEF Begun
<1>6. ASSUME NEW d \in Device, Publish(d)
      PROVE  /\ Begun' /\ UNCHANGED queued
             /\ \A e \in Edge : ready_for_next_step[e] => ready_for_next_step'[e]
  BY <1>6, PublishStep DEF Begun, taken
<1>7. QED
  BY <1>2, <1>3, <1>4, <1>5, <1>6, Steps DEF IsPublished

\* A device has come to where it is since the start.
LEMMA PlacesBegin ==
  ASSUME NEW d \in Device, pc[d] # "unborn"
  PROVE  Begun
BY DEF Begun

LEMMA KeepLots == IInv /\ Progress /\ [Next]_vars => Lots'
<1> SUFFICES ASSUME IInv, Progress, [Next]_vars PROVE Lots'
  OBVIOUS
<1>0. Lots
  BY DEF Progress
<1>1. CASE FormQueue
  <2>1. /\ TopologicalOrders(Operation) # {}
        /\ EverythingFits => queued' = Operation
        /\ \A v \in queued' : Producers(v) \subseteq queued' /\ IsQueued(v)'
    BY <1>1, FormedQueue
  <2>2. IsPublished(Start)'
    BY <1>1, StartStep DEF IsPublished
  <2>3. QED
    BY <2>1, <2>2 DEF Lots
<1>2. ASSUME ~FormQueue, Begun' PROVE Begun
  <2>1. CASE Load \/ UNCHANGED <<taken, pc, ready_for_next_step>>
    BY <1>2, <2>1, LoadStep DEF Begun
  <2>2. ASSUME NEW d \in Device,
               Middle(d) \/ CheckQueue(d) \/ Pop(d) \/ Execute(d) \/ Publish(d)
        PROVE  pc[d] # "unborn"
    BY <2>2, MiddleStep, CheckStep, TakeStep, MissStep, ExecuteStep, PublishStep DEF Working
  <2>3. QED
    BY <1>2, <2>1, <2>2, PlacesBegin, Steps
<1>3. ASSUME ~FormQueue, Begun, NEW v \in queued
      PROVE  IsQueued(v)' \/ \E d \in Device : v \in popped'[d]
  <2>0. IsQueued(v) \/ \E d \in Device : v \in popped[d]
    BY <1>0, <1>3 DEF Lots
  <2>1. CASE UNCHANGED <<ex_processing_queue, popped>>
    BY <2>0, <2>1 DEF IsQueued
  <2>2. ASSUME NEW d \in Device, Pop(d), ex_processing_queue # <<>>
        PROVE  IsQueued(v)' \/ \E c \in Device : v \in popped'[c]
    <3>1. /\ popped' = [popped EXCEPT ![d] = @ \cup {Head(ex_processing_queue)}]
          /\ ex_processing_queue' = Tail(ex_processing_queue)
      BY <2>2, TakeStep
    <3>2. popped \in [Device -> SUBSET Operation] /\ ex_processing_queue \in Seq(Operation)
      BY DEF IInv, Typing, TypeOK
    <3>3. CASE \E c \in Device : v \in popped[c]
      BY <3>1, <3>2, <3>3
    <3>4. CASE IsQueued(v)
      <4>1. PICK i \in DOMAIN ex_processing_queue : ex_processing_queue[i] = v
        BY <3>4 DEF IsQueued
      <4>2. CASE i = 1
        BY <2>2, <3>1, <3>2, <4>1, <4>2
      <4>3. CASE i # 1
        <5>1. i - 1 \in DOMAIN Tail(ex_processing_queue)
              /\ Tail(ex_processing_queue)[i - 1] = v
          BY <2>2, <3>2, <4>1, <4>3
        <5>2. QED
          BY <3>1, <5>1 DEF IsQueued
      <4>4. QED
        BY <4>2, <4>3
    <3>5. QED
      BY <2>0, <3>3, <3>4
  <2>3. \/ UNCHANGED <<ex_processing_queue, popped>>
        \/ \E d \in Device : Pop(d) /\ ex_processing_queue # <<>>
    BY <1>3, Steps, LoadStep, MiddleStep, CheckStep, MissStep, ExecuteStep, PublishStep
       DEF taken
  <2>4. QED
    BY <2>1, <2>2, <2>3
<1>4. CASE ~FormQueue
  <2>1. SUFFICES ASSUME Begun' PROVE Lots'
    BY DEF Lots
  <2>2. Begun /\ UNCHANGED queued /\ (IsPublished(Start) => IsPublished(Start)')
    BY <1>2, <1>4, <2>1, StaysPublished
  <2>3. QED
    BY <1>0, <1>3, <1>4, <2>2 DEF Lots
<1>5. QED
  BY <1>1, <1>4

LEMMA KeepInTurn == IInv /\ Progress /\ [Next]_vars => InTurn'
<1> SUFFICES ASSUME IInv, Progress, [Next]_vars PROVE InTurn'
  OBVIOUS
<1>0. /\ InTurn /\ popped \in [Device -> SUBSET Operation]
      /\ ex_processing_queue \in Seq(Operation)
  BY DEF Progress, IInv, Typing, TypeOK
<1>1. CASE FormQueue
  <2>1. \A d \in Device : popped'[d] = {}
    BY <1>1, StartStep
  <2>2. QED
    BY <1>1, <2>1, FormedQueue DEF InTurn
<1>2. CASE UNCHANGED <<ex_processing_queue, popped, queued>>
  BY <1>0, <1>2 DEF InTurn, IsQueued
<1>3. ASSUME NEW d \in Device, Pop(d), ex_processing_queue # <<>>
      PROVE  InTurn'
  <2> DEFINE q == ex_processing_queue
             v == Head(q)
  <2>1. /\ popped' = [popped EXCEPT ![d] = @ \cup {v}]
        /\ q' = Tail(q) /\ UNCHANGED queued
    BY <1>3, TakeStep
  <2>2. /\ Len(q) \in Nat /\ Len(q) > 0 /\ DOMAIN q = 1..Len(q) /\ v = q[1]
        /\ DOMAIN Tail(q) = 1..(Len(q) - 1)
        /\ \A i \in 1..(Len(q) - 1) : Tail(q)[i] = q[i + 1]
    BY <1>0, <1>3
  <2>3. /\ \A i \in 1..Len(q) : q[i] \in queued
        /\ \A i, j \in 1..Len(q) : q[j] \in Producers(q[i]) => j < i
        /\ \A c \in Device : \A w \in popped[c] :
             w \in queued /\ \A u \in Producers(w) : ~IsQueued(u)
    BY <1>0, <2>2 DEF InTurn
  <2> HIDE DEF v
  <2>4. \A i \in 1..(Len(q) - 1) : i + 1 \in 1..Len(q) /\ i + 1 > 1 /\ i \in Int
    BY <2>2
  <2>5. \A i \in DOMAIN q' :
          /\ q'[i] \in queued'
          /\ \A j \in DOMAIN q' : q'[j] \in Producers(q'[i]) => j < i
    <3> SUFFICES ASSUME NEW i \in 1..(Len(q) - 1), NEW j \in 1..(Len(q) - 1)
                 PROVE  /\ q[i + 1] \in queued
                        /\ q[j + 1] \in Producers(q[i + 1]) => j < i
      BY <2>1, <2>2
    <3>1. i + 1 \in 1..Len(q) /\ j + 1 \in 1..Len(q) /\ i \in Int /\ j \in Int
      BY <2>4
    <3>2. q[j + 1] \in Producers(q[i + 1]) => j + 1 < i + 1
      BY <2>3, <3>1
    <3>3. QED
      BY <2>3, <3>1, <3>2
  <2>6. \A u : IsQueued(u)' => \E i \in 1..(Len(q) - 1) : q[i + 1] = u
    BY <2>1, <2>2 DEF IsQueued
  <2>7. \A u : IsQueued(u)' => IsQueued(u)
    BY <2>2, <2>4, <2>6 DEF IsQueued
  <2>8. \A u \in Producers(v) : ~IsQueued(u)'
    <3> SUFFICES ASSUME NEW u \in Producers(v), NEW i \in 1..(Len(q) - 1), q[i + 1] = u
                 PROVE  FALSE
      BY <2>6
    <3>1. i + 1 \in 1..Len(q) /\ 1 \in 1..Len(q) /\ i + 1 > 1 /\ i \in Int
      BY <2>2, <2>4
    <3>2. i + 1 < 1
      BY <2>2, <2>3, <3>1
    <3>3. QED
      BY <3>1, <3>2
  <2>9. \A c \in Device : \A w \in popped'[c] :
          w \in queued' /\ \A u \in Producers(w) : ~IsQueued(u)'
    <3> SUFFICES ASSUME NEW c \in Device, NEW w \in popped'[c]
                 PROVE  w \in queued' /\ \A u \in Producers(w) : ~IsQueued(u)'
      OBVIOUS
    <3>1. w \in popped[c] \/ w = v
      BY <1>0, <2>1
    <3>2. v \in queued
      BY <2>2, <2>3
    <3>3. QED
      BY <2>1, <2>3, <2>7, <2>8, <3>1, <3>2
  <2>10. QED
    BY <2>5, <2>9 DEF InTurn
<1>4. \/ FormQueue \/ UNCHANGED <<ex_processing_queue, popped, queued>>
      \/ \E d \in Device : Pop(d) /\ ex_processing_queue # <<>>
  BY Steps, LoadStep, MiddleStep, CheckStep, MissStep, ExecuteStep, PublishStep DEF taken
<1>5. QED
  BY <1>1, <1>2, <1>3, <1>4

LEMMA KeepAccounted == IInv /\ Progress /\ [Next]_vars => Accounted'
<1> SUFFICES ASSUME IInv, Progress, [Next]_vars PROVE Accounted'
  OBVIOUS
<1>0. /\ Accounted /\ popped \in [Device -> SUBSET Operation]
      /\ process_vertex \in [Device -> Vertex \cup {NoVertex}]
      /\ runs \in [Vertex -> Nat] /\ Operation \subseteq Vertex
  BY DEF Progress, IInv, Typing, TypeOK, Vertex
<1>1. \A d \in Device : \A v \in popped[d] : IsPublished(v) => IsPublished(v)'
  <2>1. \A d \in Device : popped[d] # {} => Begun
    BY DEF IInv, Started, Begun
  <2>2. QED
    BY <2>1, StaysPublished
<1>2. CASE FormQueue
  BY <1>2, StartStep DEF Accounted
<1>3. CASE Load \/ UNCHANGED <<taken, pc, ready_for_next_step>>
  BY <1>0, <1>3, LoadStep DEF Accounted, taken, Holding, Working, IsPublished
<1>4. ASSUME NEW d \in Device, Middle(d) PROVE Accounted'
  BY <1>0, <1>1, <1>4, MiddleStep DEF Accounted, taken, Holding, Working
<1>5. ASSUME NEW d \in Device, CheckQueue(d) PROVE Accounted'
  BY <1>0, <1>1, <1>5, CheckStep DEF Accounted, taken, Holding, Working
<1>6. ASSUME NEW d \in Device, Pop(d) PROVE Accounted'
  <2>0. \A v \in popped[d] : runs[v] > 0 /\ IsPublished(v)
    BY <1>0, <1>6, TakeStep, MissStep DEF Accounted, Holding, Working
  <2>1. CASE ex_processing_queue = <<>>
    BY <1>0, <1>1, <1>6, <2>0, <2>1, MissStep DEF Accounted, Holding, Working
  <2>2. CASE ex_processing_queue # <<>>
    <3> DEFINE v == Head(ex_processing_queue)
    <3>1. /\ process_vertex' = [process_vertex EXCEPT ![d] = v]
          /\ popped' = [popped EXCEPT ![d] = @ \cup {v}]
          /\ UNCHANGED runs /\ pc'[d] = "await"
          /\ \A c \in Device \ {d} : pc'[c] = pc[c]
      BY <1>6, <2>2, TakeStep
    <3> HIDE DEF v
    <3>2. ASSUME NEW c \in Device, NEW w \in popped'[c]
          PROVE  \/ runs'[w] > 0 /\ IsPublished(w)'
                 \/ Holding(c)' /\ process_vertex'[c] = w
      <4>1. CASE c = d
        <5>1. w \in popped[d] \/ w = v
          BY <1>0, <3>1, <4>1
        <5>2. Holding(d)' /\ process_vertex'[d] = v
          BY <1>0, <3>1 DEF Holding, Working
        <5>3. QED
          BY <1>1, <2>0, <3>1, <4>1, <5>1, <5>2
      <4>2. CASE c # d
        <5>1. w \in popped[c] /\ process_vertex'[c] = process_vertex[c] /\ pc'[c] = pc[c]
          BY <1>0, <3>1, <4>2
        <5>2. QED
          BY <1>0, <1>1, <3>1, <5>1 DEF Accounted, Holding, Working
      <4>3. QED
        BY <4>1, <4>2
    <3>3. QED
      BY <3>2 DEF Accounted
  <2>3. QED
    BY <2>1, <2>2
<1>7. ASSUME NEW d \in Device, Execute(d) PROVE Accounted'
  <2>1. /\ UNCHANGED <<process_vertex, popped>>
        /\ pc[d] = "execute" /\ pc'[d] = "publish"
        /\ \A c \in Device \ {d} : pc'[c] = pc[c]
    BY <1>7, ExecuteStep
  <2>2. \A v \in Vertex : runs[v] > 0 => runs'[v] > 0
    BY <1>0, <1>7, ExecuteStep
  <2>3. \A c \in Device : Holding(c) => Holding(c)'
    BY <2>1 DEF Holding, Working
  <2>4. QED
    BY <1>0, <1>1, <2>1, <2>2, <2>3 DEF Accounted
<1>8. ASSUME NEW d \in Device, Publish(d) PROVE Accounted'
  <2>1. /\ UNCHANGED <<process_vertex, popped, runs>>
        /\ pc[d] = "publish" /\ process_vertex[d] \in Vertex
        /\ ready_for_next_step' =
             [e \in Edge |-> ready_for_next_step[e] \/ Source[e] = process_vertex[d]]
        /\ \A c \in Device \ {d} : pc'[c] = pc[c]
    BY <1>8, PublishStep DEF taken
  <2>2. runs[process_vertex[d]] > 0 /\ IsPublished(process_vertex[d])'
    BY <2>1 DEF IInv, InputsWereReady, IsPublished
  <2>3. \A c \in Device \ {d} : Holding(c) => Holding(c)'
    BY <2>1 DEF Holding, Working
  <2>4. QED
    BY <1>0, <1>1, <2>1, <2>2, <2>3 DEF Accounted
<1>9. QED
  BY <1>2, <1>3, <1>4, <1>5, <1>6, <1>7, <1>8, Steps

LEMMA KeepStrays == IInv /\ Progress /\ [Next]_vars => Strays'
<1> SUFFICES ASSUME IInv, Progress, [Next]_vars PROVE Strays'
  OBVIOUS
<1>0. /\ Strays /\ popped \in [Device -> SUBSET Operation]
      /\ process_vertex \in [Device -> Vertex \cup {NoVertex}]
      /\ missed \subseteq Device
  BY DEF Progress, IInv, Typing, TypeOK
<1> USE DEF Strays, Holding, Working
<1>1. CASE FormQueue
  BY <1>0, <1>1, StartStep
<1>2. CASE Load \/ UNCHANGED <<taken, pc, ready_for_next_step>>
  BY <1>0, <1>2, LoadStep DEF taken
<1>3. ASSUME NEW d \in Device, Middle(d) PROVE Strays'
  BY <1>0, <1>3, MiddleStep DEF taken
<1>4. ASSUME NEW d \in Device, CheckQueue(d) PROVE Strays'
  BY <1>0, <1>4, CheckStep DEF taken
<1>5. ASSUME NEW d \in Device, Pop(d) PROVE Strays'
  <2>1. CASE ex_processing_queue = <<>>
    BY <1>0, <1>5, <2>1, MissStep
  <2>2. CASE ex_processing_queue # <<>>
    BY <1>0, <1>5, <2>2, TakeStep
  <2>3. QED
    BY <2>1, <2>2
<1>6. ASSUME NEW d \in Device, Execute(d) PROVE Strays'
  BY <1>0, <1>6, ExecuteStep
<1>7. ASSUME NEW d \in Device, Publish(d) PROVE Strays'
  BY <1>0, <1>7, PublishStep DEF taken
<1>8. QED
  BY <1>1, <1>2, <1>3, <1>4, <1>5, <1>6, <1>7, Steps

LEMMA AlwaysProgress == SafeSpec => [](IInv /\ Progress)
<1>1. IInv /\ Progress /\ [Next]_vars => Progress'
  BY KeepLots, KeepInTurn, KeepAccounted, KeepStrays DEF Progress
<1>2. QED
  BY AlwaysIInv, InitProgress, <1>1, PTL DEF SafeSpec

\* A fresh process_vertex leads to a vertex that others wait for, or to none.
StraysAreServed == EverythingFits \/ HeapGarbage \subseteq {NoVertex}

\* If nobody goes on, a device that spins waits for a device that spins, at an
\* earlier vertex.
LEMMA WaitsForAnother ==
  ASSUME StraysAreServed, IInv, Progress, \A d \in Device : ~GoesOn(d),
         NEW d \in Device, pc[d] = "await"
  PROVE  \E c \in Device : pc[c] = "await" /\ process_vertex[c] \in Producers(process_vertex[d])
<1> DEFINE v == process_vertex[d]
<1>1. /\ v \in Vertex /\ Holding(d) /\ popped \in [Device -> SUBSET Operation]
      /\ Lots /\ InTurn /\ Accounted /\ Strays /\ Flow /\ LastTaken
  BY DEF IInv, Typing, TypeOK, Holding, Working, Progress
<1>2. Begun
  BY DEF Begun
<1>3. PICK i \in DOMAIN InEdges[v] : ~ready_for_next_step[InEdges[v][i]]
  BY DEF GoesOn
<1> DEFINE e == InEdges[v][i]
           u == Source[e]
<1>4. e \in Edge
  BY <1>1, ScanAssumption
<1>5. ~IsPublished(u) /\ IsPublished(Start)
  BY <1>1, <1>2, <1>3, <1>4 DEF IsPublished, Lots
<1>6. u \in Producers(v) /\ u \in Operation
  <2>1. u # Start
    BY <1>5
  <2>2. u \in Producers(v)
    BY <2>1 DEF Producers
  <2>3. QED
    BY <1>1, <2>2, ProducersAreOperations
<1> HIDE DEF u, e
<1>7. u \in queued /\ ~IsQueued(u)
  <2>1. CASE popped[d] # {}
    <3>1. v \in popped[d]
      BY <1>1, <2>1 DEF Flow
    <3>2. v \in queued /\ ~IsQueued(u)
      BY <1>1, <1>6, <3>1 DEF InTurn
    <3>3. QED
      BY <1>1, <1>2, <1>6, <3>2 DEF Lots
  <2>2. CASE popped[d] = {}
    <3>1. v \in HeapGarbage /\ d \in missed
      BY <1>1, <2>2 DEF Strays
    <3>2. EverythingFits
      BY <1>1, <3>1, ExchangeAssumption DEF StraysAreServed
    <3>3. u \in queued
      BY <1>1, <1>2, <1>6, <3>2 DEF Lots
    <3>4. ex_processing_queue = <<>>
      BY <1>1, <3>1 DEF LastTaken
    <3>5. QED
      BY <3>3, <3>4 DEF IsQueued
  <2>3. QED
    BY <2>1, <2>2
<1>8. PICK c \in Device : u \in popped[c]
  BY <1>1, <1>2, <1>7 DEF Lots
<1>9. Holding(c) /\ process_vertex[c] = u
  BY <1>1, <1>5, <1>8 DEF Accounted
<1>10. pc[c] = "await"
  BY <1>9 DEF GoesOn, Holding, Working
<1>11. QED
  BY <1>6, <1>9, <1>10

\* The devices never wait in a circle: until all have ended there is one whose
\* next step does not depend on the others, whatever order the vertices were
\* taken in and whatever a failed pop repeats (exchange.cpp:163-172).  A stray
\* vertex is served if the queue took all operations (exchange.hpp:78).
THEOREM NoDeadlock ==
  ASSUME StraysAreServed
  PROVE  SafeSpec => []SomebodyGoesOn
<1>1. ASSUME IInv, Progress PROVE SomebodyGoesOn
  <2> SUFFICES ASSUME Begun, NEW d \in Device, pc[d] # "ended",
                      \A c \in Device : ~GoesOn(c)
               PROVE  FALSE
    BY DEF SomebodyGoesOn
  <2>1. PICK order \in TopologicalOrders(Operation) : TRUE
    BY <1>1 DEF Progress, Lots
  <2> DEFINE n == Cardinality(Operation)
             S == {i \in 1..n : \E c \in Device : pc[c] = "await" /\ process_vertex[c] = order[i]}
  <2>2. /\ n \in Nat
        /\ \A u \in Operation : \E i \in 1..n : order[i] = u
    <3>1. Operation \subseteq Vertex /\ IsFiniteSet(Vertex)
      BY ExchangeAssumption DEF Vertex
    <3>2. IsFiniteSet(Operation) /\ order \in Orders(Operation)
      BY <3>1, FS_Subset DEF TopologicalOrders
    <3>3. QED
      BY <3>2, OrderIsOnto
  <2>3. S # {}
    <3>1. pc[d] = "await"
      BY DEF GoesOn
    <3>2. PICK c \in Device : pc[c] = "await" /\ process_vertex[c] \in Producers(process_vertex[d])
      BY <1>1, <3>1, WaitsForAnother
    <3>3. process_vertex[d] \in Vertex
      BY <1>1, <3>1 DEF IInv, Typing, Holding, Working
    <3>4. process_vertex[c] \in Operation
      BY <3>2, <3>3, ProducersAreOperations
    <3>5. QED
      BY <2>2, <3>2, <3>4
  <2>4. PICK i \in S : \A j \in S : i <= j
    <3>1. S \in SUBSET Nat
      BY <2>2
    <3> HIDE DEF S
    <3>2. QED
      BY <2>3, <3>1, LeastOf
  <2>5. PICK c \in Device : pc[c] = "await" /\ process_vertex[c] = order[i]
    BY <2>4
  <2>6. PICK b \in Device : pc[b] = "await" /\ process_vertex[b] \in Producers(order[i])
    BY <1>1, <2>5, WaitsForAnother
  <2>7. i \in 1..n
    BY <2>4
  <2>8. PICK j \in 1..(i - 1) : order[j] = process_vertex[b]
    BY <2>6, <2>7, ComesEarlier
  <2>9. j \in S /\ j < i
    BY <2>2, <2>6, <2>7, <2>8
  <2>10. QED
    BY <2>2, <2>4, <2>7, <2>9
<1>2. QED
  BY AlwaysProgress, <1>1, PTL

\* When all devices have ended, nothing that was put in the queue is left: each
\* of its vertices was executed (exchange.cpp:87-137).
THEOREM AllWasExecuted == SafeSpec => []NothingIsLeft
<1>1. ASSUME IInv, Progress PROVE NothingIsLeft
  <2> SUFFICES ASSUME \A d \in Device : pc[d] = "ended",
                      NEW v \in IF EverythingFits THEN Operation ELSE queued
               PROVE  runs[v] > 0
    BY DEF NothingIsLeft
  <2>1. FirstDevice \in Device
    BY ScanAssumption
  <2>2. Begun /\ Lots /\ Accounted /\ Strays
    BY <1>1, <2>1 DEF Begun, Progress
  <2>3. v \in queued
    BY <2>2 DEF Lots
  <2>4. ~IsQueued(v)
    BY <2>1, <2>2 DEF Strays, IsQueued
  <2>5. PICK d \in Device : v \in popped[d]
    BY <2>2, <2>3, <2>4 DEF Lots
  <2>6. QED
    BY <2>2, <2>5 DEF Accounted, Holding, Working
<1>2. QED
  BY AlwaysProgress, <1>1, PTL

-----------------------------------------------------------------------------
(* Nobody goes on for ever: how many steps are left.                       *)

\* How far a device has to go in its round, at the least.
StagesLeft ==
  [unborn |-> 9, pop |-> 8, await |-> 7, input |-> 6, output |-> 5,
   execute |-> 4, publish |-> 3, check |-> 2, ended |-> 0]

\* What device d has left: vertices in the queue, stages of its round, rounds
\* of set_input.  A device that is about to pop a vertex has its round before
\* it, but the vertex is gone from the queue then; one that is about to miss
\* has a whole round to go.
DeviceRank(d) ==
  <<Len(ex_processing_queue),
    IF pc[d] = "pop" /\ ex_processing_queue # <<>> THEN 1 ELSE StagesLeft[pc[d]],
    IF pc[d] = "input" /\ InputsLeft(d)
    THEN Len(InEdges[process_vertex[d]]) + 1 - cursor[d]
    ELSE 0>>

\* The main thread: the columns to load and the queue to form; after that the
\* devices, until the process crashes.
MainRank == IF crashed THEN 0 ELSE IF Begun THEN 1 ELSE Cardinality(to_load) + 2

StepsLeft == <<MainRank, [d \in Device |-> DeviceRank(d)]>>

\* The first place counts most, then the family of the devices' ranks.
Fewer == LexPairOrdering(OpToRel(<, Nat), FamilyDescent(Device), Nat, [Device -> Triples])

StepsGoDown == <<StepsLeft', StepsLeft>> \in Fewer

\* Loading is over when the devices start, and only they crash.
Phases ==
  /\ to_load \subseteq Columns
  /\ Begun => to_load = {}
  /\ crashed => Begun

LEMMA AlwaysPhases == SafeSpec => []Phases
<1>1. Init => Phases
  BY ScanAssumption DEF Init, ScanInit, Phases, Begun
<1>2. ASSUME IInv, Phases, [Next]_vars PROVE Phases'
  <2>1. CASE Load
    <3>1. PICK k \in Columns : LoadColumn(k)
      BY <2>1 DEF Load, ScanNext
    <3>2. ~Begun /\ ~Begun' /\ crashed' = crashed
      BY <1>2, <2>1, <3>1 DEF Phases, LoadColumn, Load, Begun
    <3>3. QED
      BY <1>2, <3>1, <3>2 DEF Phases, LoadColumn
  <2>2. CASE FormQueue
    <3>1. Begun' /\ to_load' = to_load /\ to_load = {}
      BY <1>2, <2>2, StartStep DEF FormQueue, graphVars, scanVars, Begun
    <3>2. QED
      BY <3>1 DEF Phases
  <2>3. ASSUME NEW d \in Device, Step(d) PROVE Phases'
    <3>1. Begun
      BY <2>3 DEF Step, CheckQueue, Pop, AwaitInputs, Input, ReadAlias, Output, Execute,
                  Publish, At, Begun
    <3>2. to_load' = to_load
      BY <2>3 DEF Step, CheckQueue, Pop, AwaitInputs, Input, ReadAlias, Output, Execute,
                  Publish, SetInput, PrepareOutput, ExecuteOnDevice, graphVars, scanVars
    <3>3. ~FormQueue
      BY <1>2, <3>1, StartStep DEF Begun
    <3>4. Begun'
      BY <1>2, <3>1, <3>3, BegunStays
    <3>5. QED
      BY <1>2, <3>1, <3>2, <3>4 DEF Phases
  <2>4. CASE UNCHANGED vars
    BY <1>2, <2>4 DEF vars, graphVars, scanVars, Phases, Begun
  <2>5. QED
    BY <1>2, <2>1, <2>2, <2>3, <2>4 DEF Next
<1>3. QED
  BY <1>1, <1>2, AlwaysIInv, PTL DEF SafeSpec

LEMMA RanksAreRanks == IInv => \A d \in Device : DeviceRank(d) \in Triples
<1> SUFFICES ASSUME IInv, NEW d \in Device PROVE DeviceRank(d) \in Triples
  OBVIOUS
<1>1. /\ ex_processing_queue \in Seq(Operation) /\ pc[d] \in Labels /\ cursor[d] \in Nat
      /\ pc[d] = "input" => process_vertex[d] \in Vertex
  BY DEF IInv, Typing, TypeOK, Holding, Working
<1>2. Len(ex_processing_queue) \in Nat
  BY <1>1
<1>3. StagesLeft[pc[d]] \in 0..9
  BY <1>1 DEF Labels, StagesLeft
<1>4. pc[d] = "input" /\ InputsLeft(d) =>
        Len(InEdges[process_vertex[d]]) + 1 - cursor[d] \in Nat
  BY <1>1, Dag DEF InputsLeft
<1>5. QED
  BY <1>2, <1>3, <1>4 DEF DeviceRank, Triples

\* A device that has not popped leaves the others what they had.
LEMMA OthersKeepRank ==
  ASSUME UNCHANGED ex_processing_queue, NEW c \in Device,
         pc'[c] = pc[c], process_vertex'[c] = process_vertex[c], cursor'[c] = cursor[c]
  PROVE  DeviceRank(c)' = DeviceRank(c)
  BY DEF DeviceRank, InputsLeft

LEMMA DeviceGetsOn ==
  ASSUME IInv, NEW d \in Device, Step(d), ~crashed'
  PROVE  /\ Smaller(DeviceRank(d)', DeviceRank(d))
         /\ \A c \in Device \ {d} : NotLarger(DeviceRank(c)', DeviceRank(c))
<1>1. /\ pc \in [Device -> Labels] /\ cursor \in [Device -> Nat]
      /\ process_vertex \in [Device -> Vertex \cup {NoVertex}]
      /\ ex_processing_queue \in Seq(Operation)
  BY DEF IInv, Typing, TypeOK
<1>2. Len(ex_processing_queue) \in Nat
  BY <1>1
<1>3. CASE Pop(d) /\ ex_processing_queue # <<>>
  <2>1. Len(ex_processing_queue') < Len(ex_processing_queue)
    BY <1>1, <1>3, TakeStep
  <2>2. QED
    BY <2>1 DEF DeviceRank, Smaller, NotLarger
<1>4. CASE ~(Pop(d) /\ ex_processing_queue # <<>>)
  <2>1. UNCHANGED ex_processing_queue
    BY <1>4 DEF Step, CheckQueue, Pop, AwaitInputs, Input, ReadAlias, Output, Execute,
                Publish
  <2>2. \A c \in Device \ {d} : /\ pc'[c] = pc[c] /\ cursor'[c] = cursor[c]
                                /\ process_vertex'[c] = process_vertex[c]
    BY <1>1, <1>4 DEF Step, CheckQueue, Pop, AwaitInputs, Input, ReadAlias, Output, Execute,
                      Publish, Goto, Place
  <2>3. \A c \in Device \ {d} : DeviceRank(c)' = DeviceRank(c)
    BY <2>1, <2>2, OthersKeepRank
  <2>4. CASE Input(d)
    <3>1. /\ pc[d] = "input" /\ pc'[d] = "input" /\ process_vertex' = process_vertex
          /\ cursor'[d] = cursor[d] + 1 /\ cursor[d] \in Nat
          /\ process_vertex[d] \in Vertex /\ InputsLeft(d)
      BY <1>1, <2>4 DEF Input, At, IInv, Typing, Holding, Working
    <3>2. PICK n \in Nat : n = Len(InEdges[process_vertex[d]])
      BY <3>1, Dag
    <3>3. cursor[d] <= n
      BY <3>1, <3>2 DEF InputsLeft
    <3>4. DeviceRank(d)[3] = n + 1 - cursor[d]
      BY <3>1, <3>2 DEF DeviceRank
    <3>5. DeviceRank(d)'[3] = IF cursor[d] + 1 <= n THEN n + 1 - (cursor[d] + 1) ELSE 0
      BY <3>1, <3>2 DEF DeviceRank, InputsLeft
    <3>6. DeviceRank(d)'[3] < DeviceRank(d)[3]
      BY <3>1, <3>3, <3>4, <3>5
    <3>7. DeviceRank(d)'[1] = DeviceRank(d)[1] /\ DeviceRank(d)'[2] = DeviceRank(d)[2]
      BY <2>1, <3>1 DEF DeviceRank
    <3>8. QED
      BY <2>3, <3>6, <3>7 DEF Smaller, NotLarger
  <2>5. CASE ~Input(d)
    <3>1. DeviceRank(d)'[2] < DeviceRank(d)[2]
      <4>1. CASE CheckQueue(d)
        BY <1>1, <2>1, <4>1 DEF CheckQueue, At, Goto, DeviceRank, StagesLeft
      <4>2. CASE Pop(d)
        <5>1. pc[d] = "pop" /\ pc'[d] = "await" /\ ex_processing_queue = <<>>
          BY <1>1, <1>4, <4>2 DEF Pop, Place, At, Goto
        <5>2. QED
          BY <2>1, <5>1 DEF DeviceRank, StagesLeft
      <4>3. CASE AwaitInputs(d) \/ ReadAlias(d) \/ Output(d)
        BY <1>1, <2>1, <4>3 DEF AwaitInputs, ReadAlias, Output, At, Goto, DeviceRank, StagesLeft
      <4>4. CASE Execute(d)
        <5>1. pc[d] = "execute" /\ pc'[d] = "publish"
          BY <4>4, ExecuteStep
        <5>2. QED
          BY <2>1, <5>1 DEF DeviceRank, StagesLeft
      <4>5. CASE Publish(d)
        <5>1. pc[d] = "publish" /\ pc'[d] = "check"
          BY <4>5, PublishStep
        <5>2. QED
          BY <2>1, <5>1 DEF DeviceRank, StagesLeft
      <4>6. QED
        BY <2>5, <4>1, <4>2, <4>3, <4>4, <4>5 DEF Step
    <3>2. DeviceRank(d)'[1] = DeviceRank(d)[1]
      BY <2>1 DEF DeviceRank
    <3>3. QED
      BY <2>3, <3>1, <3>2 DEF Smaller, NotLarger
  <2>6. QED
    BY <2>4, <2>5
<1>5. QED
  BY <1>3, <1>4

\* A run of the exchange has only finitely many steps, whatever the graph, the
\* devices and what a failed pop repeats (exchange.cpp:87-137): each of them
\* lowers StepsLeft, and no sequence of its values goes down for ever.
THEOREM RunsEnd ==
  ASSUME IsFiniteSet(Columns)
  PROVE  /\ IsWellFoundedOn(Fewer, Nat \X [Device -> Triples])
         /\ SafeSpec => [][StepsGoDown]_vars
<1>1. IsWellFoundedOn(Fewer, Nat \X [Device -> Triples])
  BY ExchangeAssumption, FamiliesEnd, NatLessThanWellFounded, WFLexPairOrdering DEF Fewer
<1>2. ASSUME IInv, IInv', Phases, Phases', [Next]_vars
      PROVE  [StepsGoDown]_vars
  <2> SUFFICES ASSUME Next PROVE StepsGoDown
    BY <1>2
  <2>1. /\ Cardinality(to_load) \in Nat /\ IsFiniteSet(to_load)
        /\ Cardinality(to_load') \in Nat
    BY <1>2, FS_Subset, FS_CardinalityType DEF Phases
  <2>2. MainRank \in Nat /\ MainRank' \in Nat
    BY <2>1 DEF MainRank
  <2> DEFINE f == [d \in Device |-> DeviceRank(d)]
             g == [d \in Device |-> DeviceRank(d)']
  <2>3. f \in [Device -> Triples] /\ g \in [Device -> Triples]
    <3>1. \A d \in Device : DeviceRank(d) \in Triples
      BY <1>2, RanksAreRanks
    <3>2. (IInv => \A d \in Device : DeviceRank(d) \in Triples)'
      BY RanksAreRanks, PTL
    <3>3. QED
      BY <1>2, <3>1, <3>2
  <2>4. StepsLeft = <<MainRank, f>> /\ StepsLeft' = <<MainRank', g>>
    BY DEF StepsLeft
  <2>5. \/ MainRank' < MainRank
        \/ MainRank' = MainRank /\ Lower(g, f)
    <3>1. CASE Load
      <4>1. PICK k \in Columns : LoadColumn(k)
        BY <3>1 DEF Load, ScanNext
      <4>2. ~Begun /\ ~Begun' /\ ~crashed /\ ~crashed'
        BY <1>2, <3>1, <4>1 DEF Phases, LoadColumn, Load, Begun
      <4>3. k \in to_load /\ to_load' = to_load \ {k}
        BY <4>1 DEF LoadColumn
      <4>4. Cardinality(to_load') = Cardinality(to_load) - 1
        BY <2>1, <4>3, FS_RemoveElement
      <4>5. QED
        BY <2>1, <4>2, <4>4 DEF MainRank
    <3>2. CASE FormQueue
      <4>1. ~Begun /\ Begun' /\ ~crashed
        BY <1>2, <3>2, StartStep DEF Phases, Begun
      <4>2. QED
        BY <2>1, <4>1 DEF MainRank
    <3>3. ASSUME NEW d \in Device, Step(d)
          PROVE  \/ MainRank' < MainRank
                 \/ MainRank' = MainRank /\ Lower(g, f)
      <4>1. Begun /\ ~crashed
        BY <3>3 DEF Step, CheckQueue, Pop, AwaitInputs, Input, ReadAlias, Output, Execute,
                    Publish, At, Begun
      <4>2. ~FormQueue
        BY <1>2, <4>1, StartStep DEF Begun
      <4>3. Begun'
        BY <1>2, <4>1, <4>2, BegunStays
      <4>4. CASE crashed'
        BY <4>1, <4>4 DEF MainRank
      <4>5. CASE ~crashed'
        <5>1. /\ Smaller(DeviceRank(d)', DeviceRank(d))
              /\ \A c \in Device \ {d} : NotLarger(DeviceRank(c)', DeviceRank(c))
          BY <1>2, <3>3, <4>5, DeviceGetsOn
        <5>2. Smaller(g[d], f[d]) /\ \A c \in Device : NotLarger(g[c], f[c])
          BY <5>1 DEF NotLarger
        <5>3. Lower(g, f)
          BY <5>2 DEF Lower
        <5>4. QED
          BY <4>1, <4>3, <4>5, <5>3 DEF MainRank
      <4>6. QED
        BY <4>4, <4>5
    <3>4. QED
      BY <3>1, <3>2, <3>3 DEF Next
  <2> HIDE DEF f, g
  <2>6. QED
    BY <2>2, <2>3, <2>4, <2>5 DEF StepsGoDown, Fewer, LexPairOrdering, OpToRel, FamilyDescent
<1>3. SafeSpec => [][StepsGoDown]_vars
  BY <1>2, AlwaysIInv, AlwaysPhases, PTL DEF SafeSpec
<1>4. QED
  BY <1>1, <1>3
=============================================================================
