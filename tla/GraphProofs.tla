---------------------------- MODULE GraphProofs ----------------------------
(***************************************************************************)
(* What holds of execute_graph for every query graph, every placement on   *)
(* devices, either layer, and whatever earlier queries left.               *)
(*                                                                         *)
(* Shape says where the loop is and which variables follow from that; it   *)
(* needs nothing of the aliases.  Content says what is in the buffers of   *)
(* both layers; it needs that loading was right.                           *)
(***************************************************************************)
EXTENDS GraphExecutor, QueryGraphProofs, SequenceTheorems

\* The vertices the loop is through with.
Done(u) == \E i \in 1..visited : process_queue[i] = u

\* The vertices whose out-edges lead to a buffer.
Produced(u) == Done(u) \/ (stage = "execute" /\ u = Current)

AtVertex == stage \in {"inputs", "execute"}

-----------------------------------------------------------------------------
(* Where the loop is.                                                      *)

Ordered ==
  /\ stage = "form" => process_queue = <<>> /\ visited = 0
  /\ stage # "form" => process_queue \in TopologicalOrders(Vertex)
  /\ stage \notin {"form", "visit"} => visited < Cardinality(Vertex)
  /\ stage = "load" => Current = Start
  /\ stage = "display" => Current = End
  /\ AtVertex => Current \in Operation
  /\ visited > 0 => to_load = {}
  /\ cursor \in Nat \ {0}
  /\ execution_environment \in {0, 1}
  /\ device[Start] = FirstDevice

\* Every edge that leaves a vertex the loop came to leads to a buffer; the
\* edges of the scan do or are to be rewritten.
Pointers ==
  /\ to_load \subseteq Columns
  /\ \A e \in Edge :
       /\ Source[e] = Start => data_pointer[e] \in 1..total_data_set_in_device \cup to_load
       /\ Source[e] # Start /\ Produced(Source[e]) =>
            data_pointer[e] \in 1..total_data_set_in_device

\* A vertex the loop has not come to has neither inputs nor outputs.
Untouched ==
  stage # "crashed" => \A v \in Operation : ~Done(v) /\ ~(AtVertex /\ v = Current) =>
    input_data[v] = <<>> /\ output_data[v] = <<>>

\* The current vertex has the inputs set_input has been through, and, once
\* they are complete, the newest buffer as its output.
InHand ==
  AtVertex =>
    /\ cursor <= Len(InEdges[Current]) + 1
    /\ Len(input_data[Current]) = cursor - 1
    /\ \A n \in 1..(cursor - 1) : input_data[Current][n] = data_pointer[InEdges[Current][n]]
    /\ stage = "inputs" => output_data[Current] = <<>>
    /\ stage = "execute" =>
         /\ cursor = Len(InEdges[Current]) + 1
         /\ output_data[Current] = <<total_data_set_in_device>>
         /\ <<total_data_set_in_device, device[Current]>> \in DOMAIN device_data
         /\ total_data_set_in_device > 0
         /\ \A e \in Edge : Source[e] = Current => data_pointer[e] = total_data_set_in_device
         /\ \A e \in Edge : Source[e] # Current /\ Produced(Source[e]) =>
              data_pointer[e] # total_data_set_in_device

Shape == TypeOK /\ Ordered /\ Pointers /\ Untouched /\ InHand

-----------------------------------------------------------------------------
(* What is in the buffers.                                                 *)

\* While columns are loaded, every buffer is on the first device.
Loading ==
  visited = 0 =>
    /\ ScanInv
    /\ DOMAIN device_data \subseteq (1..total_data_set_in_device) \X {FirstDevice}

\* Edges lead to one buffer only when they have one source.
Distinct ==
  visited > 0 =>
    \A e, f \in Edge :
      Produced(Source[e]) /\ Produced(Source[f]) /\ data_pointer[e] = data_pointer[f]
        => SameBuffer(e, f)

\* set_input of operation v has been through its n-th in-edge.
Through(v, n) == Done(v) \/ (AtVertex /\ v = Current /\ n < cursor)

Taken(e) ==
  \E v \in Operation : \E n \in DOMAIN InEdges[v] : InEdges[v][n] = e /\ Through(v, n)

\* An edge that was taken leads to the buffer of e and took it elsewhere.
MovedAway(e) ==
  \E v \in Operation : \E n \in DOMAIN InEdges[v] :
    /\ Through(v, n) /\ SameBuffer(e, InEdges[v][n])
    /\ device[v] # device[Source[InEdges[v][n]]]

\* Until an operation takes an edge its buffer is on the device of its
\* source and nowhere else, unless another reader took it away.
Waiting ==
  \A e \in Edge : Produced(Source[e]) /\ ~Taken(e) /\ ~MovedAway(e) =>
    /\ AtSource(e) \in DOMAIN device_data
    /\ \A d \in Device : <<data_pointer[e], d>> \in DOMAIN device_data => d = device[Source[e]]
    /\ NoneDeprived /\ execution_environment = 0 /\ Done(Source[e]) =>
         device_data[AtSource(e)] = Expected(e)

\* The inputs the current vertex has taken are on its device.
Arrived ==
  AtVertex /\ ~Deprived(visited + 1) =>
    \A n \in 1..(cursor - 1) :
      LET e == InEdges[Current][n]
          x == <<data_pointer[e], device[Current]>>
      IN  /\ x \in DOMAIN device_data
          /\ NoneDeprived /\ execution_environment = 0 => device_data[x] = Expected(e)

\* The host has every buffer, filled as soon as its vertex was executed there.
HostCopies ==
  execution_environment = 1 /\ visited > 0 =>
    \A e \in Edge : Done(Source[e]) => host_data[data_pointer[e]] = Expected(e)

\* display_result has fetched what it should.
Shown ==
  LET count == IF stage = "display" THEN cursor - 1 ELSE Len(InEdges[End])
  IN  IF Done(End) \/ stage = "display"
      THEN /\ count <= Len(InEdges[End])
           /\ results = [i \in 1..count |-> Expected(InEdges[End][i])]
      ELSE results = <<>>

Moves ==
  IF stage = "crashed" THEN Deprived(visited + 1) ELSE Waiting /\ Arrived

Content ==
  /\ Loading /\ Distinct /\ Moves /\ HostCopies
  /\ (NoneDeprived \/ execution_environment = 1) /\ stage # "crashed" => Shown

-----------------------------------------------------------------------------
(* The place in the queue.                                                 *)

Vertices == Cardinality(Vertex)

LEMMA QueueFacts ==
  ASSUME Shape, stage # "form"
  PROVE  /\ Vertices \in Nat /\ Vertices > 0
         /\ process_queue \in Seq(Vertex) /\ Len(process_queue) = Vertices
         /\ \A i, j \in 1..Vertices : process_queue[i] = process_queue[j] => i = j
         /\ \A v \in Vertex : \E i \in 1..Vertices : process_queue[i] = v
         /\ \A j \in 1..Vertices : \A n \in DOMAIN InEdges[process_queue[j]] :
              \E i \in 1..(j - 1) : process_queue[i] = Source[InEdges[process_queue[j]][n]]
         /\ process_queue[1] = Start
  BY ExecutorAssumption, TopologicalOrder DEF Shape, Ordered, Vertices

\* The vertex in hand is not done, and the sources of its inputs are.
LEMMA CurrentFacts ==
  ASSUME Shape, stage \notin {"form", "visit"}
  PROVE  /\ Current \in Vertex /\ ~Done(Current)
         /\ visited \in Nat /\ visited + 1 <= Vertices
         /\ (Current = Start) <=> (visited = 0)
         /\ Current # Start => Done(Start)
         /\ InEdges[Current] \in Seq(Edge)
         /\ \A n \in DOMAIN InEdges[Current] :
              /\ InEdges[Current][n] \in Edge
              /\ Done(Source[InEdges[Current][n]])
              /\ Source[InEdges[Current][n]] \in Vertex \ {Current}
<1>1. visited \in 0..Vertices /\ visited < Vertices
  BY DEF Shape, TypeOK, Ordered, Vertices
<1>2. /\ Vertices \in Nat
      /\ process_queue \in Seq(Vertex) /\ Len(process_queue) = Vertices
      /\ \A i, j \in 1..Vertices : process_queue[i] = process_queue[j] => i = j
      /\ \A j \in 1..Vertices : \A n \in DOMAIN InEdges[process_queue[j]] :
           \E i \in 1..(j - 1) : process_queue[i] = Source[InEdges[process_queue[j]][n]]
      /\ process_queue[1] = Start
  BY QueueFacts
<1>3. visited + 1 \in 1..Vertices /\ Current = process_queue[visited + 1]
  BY <1>1, <1>2 DEF Current
<1>4. Current \in Vertex
  BY <1>2, <1>3
<1>5. ~Done(Current)
  BY <1>1, <1>2, <1>3 DEF Done
<1>6. InEdges[Current] \in Seq(Edge)
  BY <1>4, ScanAssumption
<1>7. ASSUME NEW n \in DOMAIN InEdges[Current]
      PROVE  /\ InEdges[Current][n] \in Edge
             /\ Done(Source[InEdges[Current][n]])
             /\ Source[InEdges[Current][n]] \in Vertex
  <2>1. InEdges[Current][n] \in Edge
    BY <1>6
  <2>2. Source[InEdges[Current][n]] \in Vertex
    BY <2>1, ScanAssumption
  <2>3. \E i \in 1..visited : process_queue[i] = Source[InEdges[Current][n]]
    BY <1>1, <1>2, <1>3
  <2>4. QED
    BY <2>1, <2>2, <2>3 DEF Done
<1>8. (Current = Start) <=> (visited = 0)
  BY <1>1, <1>2, <1>3
<1>9. visited # 0 => Done(Start)
  BY <1>1, <1>2 DEF Done
<1>10. QED
  BY <1>1, <1>2, <1>4, <1>5, <1>6, <1>7, <1>8, <1>9

\* A step that stays at its place in the queue, and one that goes on.
LEMMA SamePlace ==
  ASSUME UNCHANGED <<process_queue, visited>>
  PROVE  Current' = Current /\ \A u : Done(u)' <=> Done(u)
  BY DEF Current, Done

LEMMA NextPlace ==
  ASSUME Shape, stage \notin {"form", "visit"}, NextVertex
  PROVE  /\ stage' = "visit" /\ visited' > 0
         /\ \A u : Done(u)' <=> Done(u) \/ u = Current
         /\ \A u : Produced(u)' <=> Done(u) \/ u = Current
<1>1. /\ visited' = visited + 1 /\ stage' = "visit"
      /\ process_queue' = process_queue
  BY DEF NextVertex
<1>2. visited \in Nat
  BY CurrentFacts
<1>3. \A i : i \in 1..visited' <=> i \in 1..visited \/ i = visited + 1
  BY <1>1, <1>2
<1>4. \A u : Done(u)' <=> Done(u) \/ u = Current
  BY <1>1, <1>3 DEF Done, Current
<1>5. QED
  BY <1>1, <1>2, <1>4 DEF Produced

-----------------------------------------------------------------------------
(* Every step keeps Shape.                                                 *)

LEMMA InitShape == Init => Shape
<1> SUFFICES ASSUME Init PROVE Shape
  OBVIOUS
<1>1. /\ Start \in Vertex /\ Start \notin Operation /\ FirstDevice \in Device
      /\ Key \in [Edge -> Nat]
  BY ScanAssumption DEF Vertex
<1>2. PICK placement \in Placements :
        device = [v \in Vertex |-> IF v \in Operation THEN placement[v] ELSE FirstDevice]
  BY DEF Init
<1>3. device \in [Vertex -> Device] /\ device[Start] = FirstDevice
  BY <1>1, <1>2, ExecutorAssumption
<1>4. total_data_set_in_device \in Nat
  BY ScanAssumption DEF Init, ScanInit
<1>5. TypeOK
  <2>1. Vertices \in Nat
    BY ExecutorAssumption, FS_CardinalityType DEF Vertices
  <2>2. QED
    BY <1>1, <1>3, <1>4, <2>1 DEF Init, ScanInit, TypeOK, Vertices
<1>6. Ordered
  BY <1>3, ExecutorAssumption DEF Init, Ordered, AtVertex
<1>7. \A u : ~Produced(u)
  BY DEF Init, Produced, Done
<1>8. Pointers
  BY <1>7, GraphAssumption DEF Init, ScanInit, Pointers
<1>9. Untouched /\ InHand
  BY DEF Init, ScanInit, Untouched, InHand, AtVertex, Vertex
<1>10. QED
  BY <1>5, <1>6, <1>8, <1>9 DEF Shape

LEMMA FormShape == ASSUME Shape, FormQueue PROVE Shape'
<1>1. /\ process_queue' \in TopologicalOrders(Vertex) /\ stage' = "visit"
      /\ stage = "form"
      /\ UNCHANGED <<graphVars, execution_environment, visited, cursor, results>>
  BY DEF FormQueue
<1>2. visited = 0
  BY <1>1 DEF Shape, Ordered
<1>3. \A u : ~Produced(u)' /\ ~Done(u)' /\ ~Done(u)
  BY <1>1, <1>2 DEF Produced, Done
<1>4. TypeOK'
  BY <1>1 DEF Shape, TypeOK, graphVars, scanVars
<1>5. Ordered'
  BY <1>1, <1>2 DEF Shape, Ordered, AtVertex, graphVars, scanVars
<1>6. Pointers'
  BY <1>1, <1>3 DEF Shape, Pointers, graphVars, scanVars
<1>7. Untouched' /\ InHand'
  BY <1>1, <1>3 DEF Shape, Untouched, InHand, AtVertex, graphVars, scanVars
<1>8. QED
  BY <1>4, <1>5, <1>6, <1>7 DEF Shape

\* The vertex the loop comes to next.
LEMMA ToVisit ==
  ASSUME Shape, stage = "visit", visited < Len(process_queue)
  PROVE  Current \in Vertex /\ ~Done(Current) /\ visited < Vertices
<1>1. /\ Vertices \in Nat /\ Len(process_queue) = Vertices
      /\ process_queue \in Seq(Vertex)
      /\ \A i, j \in 1..Vertices : process_queue[i] = process_queue[j] => i = j
      /\ visited \in Nat /\ visited < Vertices
  <2>1. visited \in 0..Vertices
    BY DEF Shape, TypeOK, Vertices
  <2>2. QED
    BY <2>1, QueueFacts
<1>2. Current \in Vertex
  BY <1>1 DEF Current
<1>3. ~Done(Current)
  BY <1>1 DEF Done, Current
<1>4. QED
  BY <1>1, <1>2, <1>3

LEMMA VisitShape == ASSUME Shape, Visit PROVE Shape'
<1>1. /\ stage = "visit" /\ visited < Len(process_queue) /\ cursor' = 1
      /\ stage' = CASE Current = Start -> "load"
                    [] Current = End   -> "display"
                    [] OTHER           -> "inputs"
      /\ UNCHANGED <<graphVars, execution_environment, process_queue, visited, results>>
  BY DEF Visit
<1>2. Start # End
  BY ScanAssumption
<1>3. \/ Current = Start /\ stage' = "load"
      \/ Current = End /\ stage' = "display"
      \/ Current \notin {Start, End} /\ stage' = "inputs"
  BY <1>1, <1>2
<1>4. /\ Current' = Current /\ \A u : Done(u)' <=> Done(u)
      /\ \A u : Produced(u)' <=> Done(u)
  BY <1>1, <1>3, SamePlace DEF Produced
<1>5. /\ Current \in Vertex /\ ~Done(Current)
      /\ visited < Vertices
  BY <1>1, ToVisit
<1>6. TypeOK'
  BY <1>1, <1>3 DEF Shape, TypeOK, graphVars, scanVars
<1>7. Ordered'
  BY <1>1, <1>3, <1>4, <1>5 DEF Shape, Ordered, AtVertex, graphVars, scanVars, Vertex, Vertices
<1>8. Pointers'
  BY <1>1, <1>4 DEF Shape, Pointers, graphVars, scanVars, Produced
<1>9. Untouched'
  BY <1>1, <1>4 DEF Shape, Untouched, AtVertex, graphVars, scanVars
<1>10. InHand'
  <2> SUFFICES ASSUME AtVertex' PROVE InHand'
    BY DEF InHand
  <2>1. stage' = "inputs" /\ Current \in Operation
    BY <1>3, <1>5 DEF AtVertex, Vertex
  <2>2. input_data[Current] = <<>> /\ output_data[Current] = <<>>
    BY <1>1, <1>5, <2>1 DEF Shape, Untouched, AtVertex
  <2>3. InEdges[Current] \in Seq(Edge)
    BY <1>5, ScanAssumption
  <2>4. Len(InEdges[Current]) \in Nat
    BY <2>3
  <2>5. UNCHANGED <<input_data, output_data>>
    BY <1>1 DEF graphVars, scanVars
  <2>6. QED
    BY <1>1, <1>4, <2>1, <2>2, <2>4, <2>5 DEF InHand
<1>11. QED
  BY <1>6, <1>7, <1>8, <1>9, <1>10 DEF Shape

LEMMA LoadShape == ASSUME Shape, Load PROVE Shape'
<1>1. stage = "load" /\ Current = Start
  BY DEF Load, Shape, Ordered
<1>2. /\ visited = 0 /\ \A u : ~Done(u)
      /\ \A v \in Operation : input_data[v] = <<>> /\ output_data[v] = <<>>
  BY <1>1, CurrentFacts DEF Done, Shape, Untouched, AtVertex
<1>3. CASE to_load = {}
  <2>1. /\ NextVertex /\ UNCHANGED <<graphVars, results>>
        /\ UNCHANGED <<execution_environment, process_queue, cursor>>
    BY <1>3 DEF Load, NextVertex
  <2>2. /\ stage' = "visit" /\ visited' = 1
        /\ \A u : Done(u)' <=> u = Start
        /\ \A u : Produced(u)' <=> u = Start
    BY <1>1, <1>2, <2>1, NextPlace DEF NextVertex
  <2>3. TypeOK'
    BY <1>1, <1>2, <2>1, <2>2, CurrentFacts DEF Shape, TypeOK, graphVars, scanVars, Vertices
  <2>4. Ordered'
    BY <1>1, <1>3, <2>1, <2>2 DEF Shape, Ordered, AtVertex, graphVars, scanVars
  <2>5. Pointers'
    BY <2>1, <2>2 DEF Shape, Pointers, graphVars, scanVars
  <2>6. Untouched' /\ InHand'
    BY <1>2, <2>1, <2>2 DEF Untouched, InHand, AtVertex, graphVars, scanVars
  <2>7. QED
    BY <2>3, <2>4, <2>5, <2>6 DEF Shape
<1>4. CASE to_load # {}
  <2> DEFINE alias == total_data_set_in_device + 1
  <2>1. PICK k \in Columns : LoadColumn(k)
    BY <1>4 DEF Load, ScanNext
  <2>2. UNCHANGED <<device, output_data, execution_environment, process_queue,
                    visited, stage, cursor, results>>
    BY <1>4 DEF Load
  <2>3. /\ Current' = Current /\ \A u : Done(u)' <=> Done(u)
        /\ \A u : ~Produced(u)'
    BY <1>1, <1>2, <2>2, SamePlace DEF Produced
  <2>4. /\ total_data_set_in_device \in Nat /\ alias \in Nat
        /\ total_data_set_in_device' = alias
        /\ k \in to_load /\ to_load' = to_load \ {k}
        /\ data_pointer' = [e \in Edge |->
             IF e \in OutEdges(Start) /\ data_pointer[e] = k THEN alias ELSE data_pointer[e]]
        /\ DOMAIN device_data' = DOMAIN device_data \cup {<<alias, FirstDevice>>}
        /\ DOMAIN host_data' = DOMAIN host_data \cup {alias}
        /\ input_data' = [input_data EXCEPT ![Start] = Append(@, alias)]
    <3>1. /\ device_data' = Insert(device_data, <<alias, FirstDevice>>, Column(k))
          /\ host_data' = Assign(host_data, alias, Column(k))
      BY <2>1 DEF LoadColumn, PlaceData
    <3>2. /\ DOMAIN device_data' = DOMAIN device_data \cup {<<alias, FirstDevice>>}
          /\ DOMAIN host_data' = DOMAIN host_data \cup {alias}
      <4>1. DOMAIN device_data' = DOMAIN device_data \cup {<<alias, FirstDevice>>}
        BY <3>1 DEF Insert
      <4>2. DOMAIN host_data' = DOMAIN host_data \cup {alias}
        BY <3>1 DEF Assign
      <4>3. QED
        BY <4>1, <4>2
    <3>3. total_data_set_in_device \in Nat
      BY DEF Shape, TypeOK
    <3>4. QED
      BY <2>1, <3>2, <3>3 DEF LoadColumn, PlaceData, Shape, TypeOK
  <2>5. TypeOK'
    <3>1. /\ 1..alias = 1..total_data_set_in_device \cup {alias}
          /\ FirstDevice \in Device
      BY <2>4, ScanAssumption
    <3>2. /\ DOMAIN device_data' \subseteq (1..alias) \X Device
          /\ DOMAIN host_data' = 1..alias
      BY <2>4, <3>1 DEF Shape, TypeOK
    <3>3. data_pointer' \in [Edge -> Nat]
      BY <2>4 DEF Shape, TypeOK
    <3> HIDE DEF alias
    <3>4. input_data' \in [Vertex -> Seq(Nat)]
      <4>1. \A s \in Seq(Nat) : Append(s, alias) \in Seq(Nat)
        BY <2>4
      <4>2. QED
        BY <2>4, <4>1 DEF Shape, TypeOK
    <3>5. QED
      BY <2>2, <2>4, <3>2, <3>3, <3>4 DEF Shape, TypeOK
  <2>6. Ordered'
    BY <1>1, <1>2, <2>2, <2>3 DEF Shape, Ordered, AtVertex
  <2>7. Pointers'
    <3>1. ASSUME NEW e \in Edge, Source[e] = Start
          PROVE  data_pointer'[e] \in 1..alias \cup to_load'
      BY <2>4, <3>1 DEF Shape, Pointers, OutEdges
    <3>2. QED
      BY <2>3, <2>4, <3>1 DEF Shape, Pointers
  <2>8. Untouched'
    BY <1>2, <2>2, <2>4, ScanAssumption DEF Untouched, Shape, TypeOK, Vertex
  <2>9. InHand'
    BY <1>1, <2>2 DEF InHand, AtVertex
  <2>10. QED
    BY <2>5, <2>6, <2>7, <2>8, <2>9 DEF Shape
<1>5. QED
  BY <1>3, <1>4

\* An edge that leaves a vertex the loop came to leads to a buffer.
LEMMA PointerFacts ==
  ASSUME Shape, NEW e \in Edge, Produced(Source[e])
  PROVE  data_pointer[e] \in 1..total_data_set_in_device
<1>1. CASE Source[e] = Start
  <2>1. Done(Start)
    BY <1>1, ScanAssumption DEF Produced, Shape, Ordered, AtVertex
  <2>2. visited > 0
    BY <2>1 DEF Done, Shape, TypeOK
  <2>3. QED
    BY <1>1, <2>2 DEF Shape, Ordered, Pointers
<1>2. CASE Source[e] # Start
  BY <1>2 DEF Shape, Pointers
<1>3. QED
  BY <1>1, <1>2

\* The edge a round of set_input is about.
LEMMA InputFacts ==
  ASSUME Shape, Input
  PROVE  LET e == InEdges[Current][cursor] IN
         /\ stage = "inputs" /\ Current \in Operation /\ Current \in Vertex
         /\ cursor \in DOMAIN InEdges[Current]
         /\ e \in Edge /\ Done(Source[e]) /\ Source[e] \in Vertex \ {Current}
         /\ data_pointer[e] \in 1..total_data_set_in_device
         /\ input_data' = [input_data EXCEPT ![Current] = Append(@, data_pointer[e])]
         /\ cursor' = cursor + 1 /\ stage' \in {"inputs", "crashed"}
         /\ device[Source[e]] = device[Current] => device_data' = device_data
         /\ device[Source[e]] # device[Current] =>
              device_data' = Transfer(device_data, data_pointer[e], device[Source[e]], device[Current])
         /\ UNCHANGED <<data_pointer, total_data_set_in_device, host_data, to_load, device,
                        output_data, execution_environment, process_queue, visited, results>>
<1> DEFINE e == InEdges[Current][cursor]
<1>1. stage = "inputs" /\ cursor <= Len(InEdges[Current])
  BY DEF Input
<1>2. Current \in Operation /\ cursor \in Nat \ {0}
  BY <1>1 DEF Shape, Ordered, AtVertex
<1>3. cursor \in DOMAIN InEdges[Current]
  BY <1>1, <1>2, CurrentFacts
<1>4. e \in Edge /\ Done(Source[e]) /\ Source[e] \in Vertex \ {Current} /\ Current \in Vertex
  BY <1>1, <1>3, CurrentFacts
<1>5. data_pointer[e] \in 1..total_data_set_in_device
  BY <1>4, PointerFacts DEF Produced
<1>6. QED
  BY <1>1, <1>2, <1>3, <1>4, <1>5 DEF Input, SetInput

LEMMA InputShape == ASSUME Shape, Input PROVE Shape'
<1> DEFINE e == InEdges[Current][cursor]
           v == Current
<1>1. /\ stage = "inputs" /\ v \in Operation /\ v \in Vertex
      /\ cursor \in DOMAIN InEdges[v]
      /\ e \in Edge /\ Done(Source[e]) /\ Source[e] \in Vertex \ {v}
      /\ data_pointer[e] \in 1..total_data_set_in_device
      /\ input_data' = [input_data EXCEPT ![v] = Append(@, data_pointer[e])]
      /\ cursor' = cursor + 1 /\ stage' \in {"inputs", "crashed"}
      /\ UNCHANGED <<data_pointer, total_data_set_in_device, host_data, to_load, device,
                     output_data, execution_environment, process_queue, visited, results>>
  BY InputFacts
<1>2. /\ Current' = Current /\ \A u : Done(u)' <=> Done(u)
      /\ \A u : Produced(u)' <=> Done(u)
      /\ \A u : Produced(u) <=> Done(u)
  BY <1>1, SamePlace DEF Produced
<1>3. DOMAIN device_data' \subseteq (1..total_data_set_in_device) \X Device
  <2>1. CASE device[Source[e]] = device[v]
    BY <2>1, InputFacts DEF Shape, TypeOK
  <2>2. CASE device[Source[e]] # device[v]
    <3>1. device_data' = Transfer(device_data, data_pointer[e], device[Source[e]], device[v])
      BY <2>2, InputFacts
    <3>2. DOMAIN device_data' \subseteq DOMAIN device_data \cup {<<data_pointer[e], device[v]>>}
      BY <2>2, <3>1 DEF Transfer, Erase, Insert, Fetched
    <3>3. <<data_pointer[e], device[v]>> \in (1..total_data_set_in_device) \X Device
      BY <1>1 DEF Shape, TypeOK
    <3>4. QED
      BY <3>2, <3>3 DEF Shape, TypeOK
  <2>3. QED
    BY <2>1, <2>2
<1>4. TypeOK'
  <2>1. data_pointer[e] \in Nat
    BY <1>1 DEF Shape, TypeOK
  <2>2. \A s \in Seq(Nat) : Append(s, data_pointer[e]) \in Seq(Nat)
    BY <2>1
  <2>3. input_data' \in [Vertex -> Seq(Nat)]
    BY <1>1, <2>2 DEF Shape, TypeOK
  <2>4. QED
    BY <1>1, <1>3, <2>3 DEF Shape, TypeOK
<1>5. Ordered'
  BY <1>1, <1>2 DEF Shape, Ordered, AtVertex
<1>6. Pointers'
  BY <1>1, <1>2 DEF Shape, Pointers
<1>7. Untouched'
  BY <1>1, <1>2 DEF Shape, Untouched, AtVertex, TypeOK
<1>8. InHand'
  <2> SUFFICES ASSUME AtVertex' PROVE InHand'
    BY DEF InHand
  <2>1. stage' = "inputs"
    BY <1>1 DEF AtVertex
  <2>2. /\ input_data[v] \in Seq(Nat) /\ Len(input_data[v]) = cursor - 1
        /\ \A n \in 1..(cursor - 1) : input_data[v][n] = data_pointer[InEdges[v][n]]
        /\ output_data[v] = <<>>
    BY <1>1 DEF Shape, TypeOK, InHand, AtVertex
  <2>3. cursor \in Nat \ {0} /\ Len(InEdges[v]) \in Nat /\ cursor <= Len(InEdges[v])
    BY <1>1, CurrentFacts
  <2>4. input_data'[v] = Append(input_data[v], data_pointer[e])
    BY <1>1 DEF Shape, TypeOK
  <2>5. Len(input_data'[v]) = cursor
    BY <2>2, <2>3, <2>4
  <2>6. \A n \in 1..cursor : input_data'[v][n] = data_pointer[InEdges[v][n]]
    BY <2>2, <2>3, <2>4
  <2>7. QED
    BY <1>1, <1>2, <2>1, <2>2, <2>3, <2>5, <2>6 DEF InHand
<1>9. QED
  BY <1>4, <1>5, <1>6, <1>7, <1>8 DEF Shape

\* What prepare_output_buffer leaves.
LEMMA OutputFacts ==
  ASSUME Shape, Output
  PROVE  LET alias == total_data_set_in_device + 1 IN
         /\ stage = "inputs" /\ stage' = "execute"
         /\ Current \in Operation /\ Current \in Vertex
         /\ total_data_set_in_device \in Nat /\ total_data_set_in_device' = alias
         /\ cursor = Len(InEdges[Current]) + 1 /\ Len(InEdges[Current]) \in Nat
         /\ output_data' = [output_data EXCEPT ![Current] = <<alias>>]
         /\ data_pointer' =
              [e \in Edge |-> IF Source[e] = Current THEN alias ELSE data_pointer[e]]
         /\ <<alias, device[Current]>> \notin DOMAIN device_data
         /\ DOMAIN device_data' = DOMAIN device_data \cup {<<alias, device[Current]>>}
         /\ \A x \in DOMAIN device_data : device_data'[x] = device_data[x]
         /\ DOMAIN host_data' = DOMAIN host_data \cup {alias}
         /\ \A x \in DOMAIN host_data \ {alias} : host_data'[x] = host_data[x]
         /\ UNCHANGED <<to_load, device, input_data, execution_environment, process_queue,
                        visited, cursor, results>>
<1> DEFINE alias == total_data_set_in_device + 1
<1>1. stage = "inputs" /\ stage' = "execute" /\ cursor > Len(InEdges[Current])
  BY DEF Output
<1>2. /\ Current \in Operation /\ Current \in Vertex /\ cursor \in Nat
      /\ Len(InEdges[Current]) \in Nat /\ cursor <= Len(InEdges[Current]) + 1
      /\ output_data[Current] = <<>>
  BY <1>1, CurrentFacts DEF Shape, Ordered, InHand, AtVertex
<1>3. total_data_set_in_device \in Nat
  BY DEF Shape, TypeOK
<1>4. <<alias, device[Current]>> \notin DOMAIN device_data
  BY <1>3 DEF Shape, TypeOK
<1>5. /\ device_data' = Insert(device_data, <<alias, device[Current]>>, Zeros)
      /\ host_data' = Assign(host_data, alias, Zeros)
  BY DEF Output, PrepareOutput
<1>6. /\ DOMAIN device_data' = DOMAIN device_data \cup {<<alias, device[Current]>>}
      /\ \A x \in DOMAIN device_data : device_data'[x] = device_data[x]
  BY <1>5 DEF Insert
<1>7. /\ DOMAIN host_data' = DOMAIN host_data \cup {alias}
      /\ \A x \in DOMAIN host_data \ {alias} : host_data'[x] = host_data[x]
  BY <1>5 DEF Assign
<1>8. output_data' = [output_data EXCEPT ![Current] = <<alias>>]
  <2>1. output_data' = [output_data EXCEPT ![Current] = Append(@, alias)]
    BY DEF Output, PrepareOutput
  <2>2. Append(output_data[Current], alias) = <<alias>>
    BY <1>2, <1>3
  <2>3. QED
    BY <2>1, <2>2
<1>9. QED
  BY <1>1, <1>2, <1>3, <1>4, <1>6, <1>7, <1>8 DEF Output, PrepareOutput

LEMMA OutputShape == ASSUME Shape, Output PROVE Shape'
<1> DEFINE alias == total_data_set_in_device + 1
           v     == Current
<1>1. /\ stage = "inputs" /\ stage' = "execute"
      /\ v \in Operation /\ v \in Vertex
      /\ total_data_set_in_device \in Nat /\ total_data_set_in_device' = alias
      /\ cursor = Len(InEdges[v]) + 1 /\ Len(InEdges[v]) \in Nat
      /\ output_data' = [output_data EXCEPT ![v] = <<alias>>]
      /\ data_pointer' = [e \in Edge |-> IF Source[e] = v THEN alias ELSE data_pointer[e]]
      /\ DOMAIN device_data' = DOMAIN device_data \cup {<<alias, device[v]>>}
      /\ DOMAIN host_data' = DOMAIN host_data \cup {alias}
      /\ UNCHANGED <<to_load, device, input_data, execution_environment, process_queue,
                     visited, cursor, results>>
  BY OutputFacts
<1>2. /\ Current' = v /\ \A u : Done(u)' <=> Done(u)
      /\ \A u : Produced(u)' <=> Done(u) \/ u = v
      /\ \A u : Produced(u) <=> Done(u)
      /\ ~Done(v)
  BY <1>1, SamePlace, CurrentFacts DEF Produced
<1>3. \A e \in Edge : Done(Source[e]) =>
        /\ data_pointer'[e] = data_pointer[e]
        /\ data_pointer[e] \in 1..total_data_set_in_device
  BY <1>1, <1>2, PointerFacts
<1>4. TypeOK'
  <2>1. /\ 1..alias = 1..total_data_set_in_device \cup {alias} /\ alias \in Nat
    BY <1>1
  <2>2. /\ device[v] \in Device /\ DOMAIN host_data = 1..total_data_set_in_device
        /\ DOMAIN device_data \subseteq (1..total_data_set_in_device) \X Device
    BY <1>1 DEF Shape, TypeOK
  <2> HIDE DEF alias
  <2>3. /\ DOMAIN device_data' \subseteq (1..alias) \X Device
        /\ DOMAIN host_data' = 1..alias
    BY <1>1, <2>1, <2>2
  <2>4. data_pointer' \in [Edge -> Nat] /\ output_data' \in [Vertex -> Seq(Nat)]
    BY <1>1, <2>1 DEF Shape, TypeOK
  <2>5. QED
    BY <1>1, <2>1, <2>3, <2>4 DEF Shape, TypeOK
<1>5. Ordered'
  BY <1>1, <1>2 DEF Shape, Ordered, AtVertex
<1>6. Pointers'
  <2>1. to_load' = {} /\ Done(Start)
    <3>1. visited # 0 /\ visited \in Nat /\ Done(Start)
      BY <1>1, CurrentFacts, ScanAssumption
    <3>2. QED
      BY <1>1, <3>1 DEF Shape, Ordered
  <2>2. v # Start /\ alias \in 1..alias
    BY <1>1, ScanAssumption
  <2>3. ASSUME NEW e \in Edge, Source[e] = v PROVE data_pointer'[e] = alias
    BY <1>1, <2>3
  <2>4. 1..total_data_set_in_device \subseteq 1..alias
    BY <1>1
  <2> HIDE DEF alias
  <2>5. QED
    BY <1>1, <1>2, <1>3, <2>1, <2>2, <2>3, <2>4 DEF Pointers
<1>7. Untouched'
  BY <1>1, <1>2 DEF Shape, Untouched, AtVertex, TypeOK
<1>8. InHand'
  <2>1. /\ Len(input_data[v]) = cursor - 1
        /\ \A n \in 1..(cursor - 1) : input_data[v][n] = data_pointer[InEdges[v][n]]
    BY <1>1 DEF Shape, InHand, AtVertex
  <2>2. \A n \in 1..(cursor - 1) : data_pointer'[InEdges[v][n]] = data_pointer[InEdges[v][n]]
    <3> SUFFICES ASSUME NEW n \in 1..(cursor - 1)
                 PROVE  data_pointer'[InEdges[v][n]] = data_pointer[InEdges[v][n]]
      OBVIOUS
    <3>1. n \in DOMAIN InEdges[v]
      BY <1>1, CurrentFacts
    <3>2. InEdges[v][n] \in Edge /\ Done(Source[InEdges[v][n]])
      BY <1>1, <3>1, CurrentFacts
    <3>3. QED
      BY <1>3, <3>2
  <2>3. output_data'[v] = <<alias>> /\ alias > 0
    BY <1>1 DEF Shape, TypeOK
  <2>4. \A e \in Edge : Source[e] = v => data_pointer'[e] = alias
    BY <1>1
  <2>5. \A e \in Edge : Source[e] # v /\ Produced(Source[e])' => data_pointer'[e] # alias
    BY <1>1, <1>2, <1>3
  <2>6. <<alias, device[v]>> \in DOMAIN device_data'
    BY <1>1
  <2>7. \A n \in 1..(cursor' - 1) : input_data'[v][n] = data_pointer'[InEdges[v][n]]
    BY <1>1, <2>1, <2>2
  <2> HIDE DEF alias, v
  <2>8. QED
    BY <1>1, <1>2, <2>1, <2>3, <2>4, <2>5, <2>6, <2>7 DEF InHand
<1>9. QED
  BY <1>4, <1>5, <1>6, <1>7, <1>8 DEF Shape

\* A step that ends the round of a vertex and leaves the aliases alone.
LEMMA NextShape ==
  ASSUME Shape, stage \in {"execute", "display"}, NextVertex,
         UNCHANGED <<data_pointer, total_data_set_in_device, input_data, to_load, device,
                     output_data, execution_environment>>,
         DOMAIN device_data' = DOMAIN device_data, DOMAIN host_data' = DOMAIN host_data
  PROVE  Shape'
<1>1. /\ stage' = "visit" /\ visited' > 0
      /\ \A u : Done(u)' <=> Done(u) \/ u = Current
      /\ \A u : Produced(u)' <=> Done(u) \/ u = Current
      /\ visited' = visited + 1 /\ visited \in Nat /\ visited + 1 <= Vertices
      /\ Current # Start /\ visited # 0
      /\ UNCHANGED <<process_queue, cursor>>
  BY NextPlace, CurrentFacts, ScanAssumption DEF NextVertex, Shape, Ordered, AtVertex
<1>2. TypeOK'
  <2>1. visited' \in 0..Cardinality(Vertex)
    <3>1. Cardinality(Vertex) \in Nat
      BY QueueFacts DEF Vertices
    <3>2. QED
      BY <1>1, <3>1 DEF Vertices
  <2>2. stage' = "visit"
    BY <1>1
  <2>3. QED
    BY <2>1, <2>2 DEF Shape, TypeOK
<1>3. Ordered'
  BY <1>1 DEF Shape, Ordered, AtVertex
<1>4. Pointers'
  <2>1. Current = End \/ (stage = "execute" /\ Produced(Current))
    BY DEF Shape, Ordered, Produced
  <2>2. \A e \in Edge : Produced(Source[e])' => Produced(Source[e])
    BY <1>1, <2>1, GraphAssumption DEF Produced
  <2>3. QED
    BY <2>2 DEF Shape, Pointers
<1>5. Untouched'
  BY <1>1 DEF Shape, Untouched, AtVertex
<1>6. InHand'
  BY <1>1 DEF InHand, AtVertex
<1>7. QED
  BY <1>2, <1>3, <1>4, <1>5, <1>6 DEF Shape

LEMMA ExecuteShape == ASSUME Shape, ExecuteOpenCL \/ ExecuteCPP PROVE Shape'
<1>1. /\ stage = "execute" /\ NextVertex
      /\ UNCHANGED <<data_pointer, total_data_set_in_device, input_data, to_load, device,
                     output_data, execution_environment>>
  BY DEF ExecuteOpenCL, ExecuteCPP, ExecuteOnDevice, ExecuteOnHost, NextVertex
<1>2. DOMAIN device_data' = DOMAIN device_data /\ DOMAIN host_data' = DOMAIN host_data
  BY DEF ExecuteOpenCL, ExecuteCPP, ExecuteOnDevice, ExecuteOnHost, Run
<1>3. QED
  BY <1>1, <1>2, NextShape

\* Undefined behaviour the process did not survive.
LEMMA CrashShape ==
  ASSUME Shape, stage \notin {"form", "visit"}, stage' = "crashed",
         UNCHANGED <<graphVars, execution_environment, process_queue, visited>>,
         cursor' \in Nat \ {0}
  PROVE  Shape'
<1>1. /\ Current' = Current /\ \A u : Done(u)' <=> Done(u)
      /\ \A u : Produced(u)' => Produced(u)
  BY SamePlace DEF Produced
<1>2. TypeOK' /\ Ordered'
  BY <1>1 DEF Shape, TypeOK, Ordered, AtVertex, graphVars, scanVars
<1>3. Pointers'
  BY <1>1 DEF Shape, Pointers, graphVars, scanVars
<1>4. Untouched' /\ InHand'
  BY DEF Untouched, InHand, AtVertex
<1>5. QED
  BY <1>2, <1>3, <1>4 DEF Shape

LEMMA DisplayShape == ASSUME Shape, Display PROVE Shape'
<1>1. stage = "display" /\ Current = End
  BY DEF Display, Shape, Ordered
<1>2. CASE cursor > Len(InEdges[End])
  BY <1>1, <1>2, NextShape DEF Display, NextVertex, graphVars, scanVars
<1>3. CASE ~(cursor > Len(InEdges[End]))
  <2>1. /\ cursor' = cursor + 1 /\ stage' \in {"display", "crashed"}
        /\ UNCHANGED <<graphVars, execution_environment, process_queue, visited>>
    BY <1>3 DEF Display
  <2>2. cursor' \in Nat \ {0}
    BY <2>1 DEF Shape, Ordered
  <2>3. CASE stage' = "crashed"
    BY <1>1, <2>1, <2>2, <2>3, CrashShape
  <2>4. CASE stage' = "display"
    <3>1. /\ Current' = Current /\ \A u : Done(u)' <=> Done(u)
          /\ \A u : Produced(u)' <=> Produced(u)
      BY <1>1, <2>1, <2>4, SamePlace DEF Produced
    <3>2. TypeOK' /\ Ordered'
      BY <1>1, <2>1, <2>2, <2>4, <3>1 DEF Shape, TypeOK, Ordered, AtVertex, graphVars, scanVars
    <3>3. Pointers'
      BY <2>1, <3>1 DEF Shape, Pointers, graphVars, scanVars
    <3>4. Untouched' /\ InHand'
      BY <1>1, <2>1, <2>4, <3>1 DEF Shape, Untouched, InHand, AtVertex, graphVars, scanVars
    <3>5. QED
      BY <3>2, <3>3, <3>4 DEF Shape
  <2>5. QED
    BY <2>1, <2>3, <2>4
<1>4. QED
  BY <1>2, <1>3

LEMMA StutterShape == ASSUME Shape, UNCHANGED vars PROVE Shape'
<1>1. /\ Current' = Current /\ \A u : Done(u)' <=> Done(u)
      /\ \A u : Produced(u)' <=> Produced(u)
  BY SamePlace DEF Produced, vars
<1>2. UNCHANGED <<data_pointer, total_data_set_in_device, device_data, host_data, input_data,
                  to_load, device, output_data, execution_environment, process_queue,
                  visited, stage, cursor>>
  BY DEF vars, graphVars, scanVars
<1>3. TypeOK' /\ Ordered'
  BY <1>1, <1>2 DEF Shape, TypeOK, Ordered, AtVertex
<1>4. Pointers' /\ Untouched' /\ InHand'
  BY <1>1, <1>2 DEF Shape, Pointers, Untouched, InHand, AtVertex
<1>5. QED
  BY <1>3, <1>4 DEF Shape

LEMMA KeepShape == Shape /\ [Next]_vars => Shape'
<1>1. ASSUME Shape, ExecuteCrash PROVE Shape'
  BY <1>1, CrashShape DEF ExecuteCrash, Shape, Ordered
<1>2. QED
  BY <1>1, FormShape, VisitShape, LoadShape, InputShape, OutputShape, ExecuteShape,
     DisplayShape, StutterShape DEF Next

-----------------------------------------------------------------------------
\* The variables of execute_graph keep their types, and no buffer has an
\* alias the counter has not reached: on any placement and whatever the
\* counter was, also when the process runs into missing buffers.
THEOREM TypeCorrect == Spec => []TypeOK
<1>1. Shape => TypeOK
  BY DEF Shape
<1>2. QED
  BY <1>1, InitShape, KeepShape, PTL DEF Spec

-----------------------------------------------------------------------------
(* Every step keeps Content.                                               *)

LEMMA InitContent == AliasesClearKeys /\ Init => Content
<1> SUFFICES ASSUME AliasesClearKeys, Init PROVE Content
  OBVIOUS
<1>1. /\ \A u : ~Done(u) /\ ~Produced(u)
      /\ visited = 0 /\ ~AtVertex /\ stage = "form" /\ results = <<>>
  BY DEF Init, Done, Produced, AtVertex
<1>2. Loading
  BY InitScanInv DEF Init, ScanInit, Loading
<1>3. Distinct /\ Moves /\ HostCopies
  BY <1>1 DEF Distinct, Moves, Waiting, Arrived, HostCopies
<1>4. Shown
  BY <1>1 DEF Shown
<1>5. QED
  BY <1>2, <1>3, <1>4 DEF Content

\* Scan edges when the last column was loaded.
LEMMA LoadedFacts ==
  ASSUME Shape, Content, stage = "load", to_load = {},
         NEW e \in Edge, Source[e] = Start
  PROVE  /\ HoldsItsColumn(e) /\ Expected(e) = Column(Key[e])
         /\ AtSource(e) = <<data_pointer[e], FirstDevice>>
         /\ \A d \in Device : <<data_pointer[e], d>> \in DOMAIN device_data => d = FirstDevice
<1>1. visited = 0 /\ device[Start] = FirstDevice
  BY CurrentFacts DEF Shape, Ordered
<1>2. /\ ScanInv
      /\ DOMAIN device_data \subseteq (1..total_data_set_in_device) \X {FirstDevice}
  BY <1>1 DEF Content, Loading
<1>3. HoldsItsColumn(e)
  BY <1>2, GraphAssumption DEF ScanInv, OutEdges
<1>4. QED
  BY <1>1, <1>2, <1>3 DEF Expected, AtSource

\* An in-edge of the current vertex that set_input has yet to go through.
LEMMA NotTaken ==
  ASSUME Shape, stage \notin {"form", "visit"}, NEW n \in DOMAIN InEdges[Current],
         AtVertex => n >= cursor
  PROVE  ~Taken(InEdges[Current][n])
<1> SUFFICES ASSUME NEW w \in Operation, NEW m \in DOMAIN InEdges[w],
                    InEdges[w][m] = InEdges[Current][n],
                    Done(w) \/ (AtVertex /\ w = Current /\ m < cursor)
             PROVE  FALSE
  BY DEF Taken, Through
<1>1. w = Current /\ m = n
  BY CurrentFacts, GraphAssumption DEF Vertex
<1>2. AtVertex /\ m < cursor /\ n >= cursor
  BY <1>1, CurrentFacts
<1>3. cursor \in Nat /\ n \in Nat
  BY CurrentFacts DEF Shape, Ordered
<1>4. QED
  BY <1>1, <1>2, <1>3

\* The arguments the current vertex is executed with.
LEMMA ArgumentFacts ==
  ASSUME Shape, stage = "execute"
  PROVE  /\ Len(InEdges[Current]) \in Nat /\ Arity(Current) = Len(InEdges[Current]) + 1
         /\ Arguments(Current) \in Seq(Nat) /\ Len(Arguments(Current)) = Arity(Current)
         /\ \A n \in 1..Len(InEdges[Current]) :
              Arguments(Current)[n] = data_pointer[InEdges[Current][n]]
         /\ Arguments(Current)[Arity(Current)] = total_data_set_in_device
<1> DEFINE v == Current
<1>1. /\ v \in Vertex /\ Len(InEdges[v]) \in Nat
  BY CurrentFacts
<1>2. /\ input_data[v] \in Seq(Nat) /\ Len(input_data[v]) = Len(InEdges[v])
      /\ \A n \in 1..Len(InEdges[v]) : input_data[v][n] = data_pointer[InEdges[v][n]]
      /\ output_data[v] = <<total_data_set_in_device>>
      /\ total_data_set_in_device \in Nat
  BY <1>1 DEF Shape, TypeOK, InHand, AtVertex
<1>3. /\ output_data[v] \in Seq(Nat) /\ Len(output_data[v]) = 1
      /\ output_data[v][1] = total_data_set_in_device
  BY <1>2
<1>4. Arguments(v) = input_data[v] \o output_data[v] /\ Arity(v) = Len(InEdges[v]) + 1
  BY DEF Arguments, Arity
<1> HIDE DEF v
<1>5. /\ Arguments(v) \in Seq(Nat) /\ Len(Arguments(v)) = Len(InEdges[v]) + 1
      /\ \A n \in 1..Len(InEdges[v]) : Arguments(v)[n] = input_data[v][n]
      /\ Arguments(v)[Len(InEdges[v]) + 1] = total_data_set_in_device
  <2> DEFINE s == input_data[v]
             t == output_data[v]
  <2>1. s \in Seq(Nat) /\ t \in Seq(Nat) /\ Len(s) = Len(InEdges[v]) /\ Len(t) = 1
        /\ t[1] = total_data_set_in_device
    BY <1>2, <1>3
  <2>2. Arguments(v) = s \o t
    BY <1>4
  <2> HIDE DEF s, t
  <2>3. /\ s \o t \in Seq(Nat) /\ Len(s \o t) = Len(s) + 1
        /\ \A n \in 1..Len(s) : (s \o t)[n] = s[n]
        /\ (s \o t)[Len(s) + 1] = t[1]
    <3>1. /\ s \o t \in Seq(Nat) /\ Len(s \o t) = Len(s) + Len(t)
          /\ \A i \in 1..Len(s) + Len(t) :
               (s \o t)[i] = IF i <= Len(s) THEN s[i] ELSE t[i - Len(s)]
      <4>1. s \in Seq(Nat) /\ t \in Seq(Nat)
        BY <2>1
      <4>2. QED
        BY ONLY <4>1, ConcatProperties
    <3>2. Len(s) \in Nat
      BY <2>1
    <3>3. QED
      BY <2>1, <3>1, <3>2
  <2>4. QED
    BY <2>1, <2>2, <2>3 DEF s
<1>6. QED
  BY <1>1, <1>2, <1>4, <1>5 DEF v

-----------------------------------------------------------------------------
(* Loading and Distinct.                                                   *)

LEMMA KeepLoading == Shape /\ Content /\ [Next]_vars => Loading'
<1> SUFFICES ASSUME Shape, Content, [Next]_vars, visited' = 0 PROVE Loading'
  BY DEF Loading
<1>1. CASE Load
  <2>1. stage = "load"
    BY <1>1 DEF Load
  <2>2. visited = 0
    BY <1>1, <2>1, CurrentFacts DEF Load, NextVertex, Shape, Ordered
  <2>3. /\ ScanInv /\ total_data_set_in_device \in Nat
        /\ DOMAIN device_data \subseteq (1..total_data_set_in_device) \X {FirstDevice}
    BY <2>2 DEF Content, Loading, ScanInv
  <2>4. to_load # {}
    BY <1>1, <2>2 DEF Load, NextVertex
  <2>5. PICK k \in Columns : LoadColumn(k)
    BY <1>1, <2>4 DEF Load, ScanNext
  <2>6. ScanInv'
    BY <2>3, <2>5, ScanStep
  <2> DEFINE alias == total_data_set_in_device + 1
  <2>7. /\ DOMAIN device_data' = DOMAIN device_data \cup {<<alias, FirstDevice>>}
        /\ total_data_set_in_device' = alias
    BY <2>5 DEF LoadColumn, PlaceData, Insert
  <2>8. 1..alias = 1..total_data_set_in_device \cup {alias}
    BY <2>3
  <2> HIDE DEF alias
  <2>9. DOMAIN device_data' \subseteq (1..alias) \X {FirstDevice}
    BY <2>3, <2>7, <2>8
  <2>10. QED
    BY <2>6, <2>7, <2>9 DEF Loading
<1>2. CASE UNCHANGED <<visited, scanVars>>
  <2>1. /\ ScanInv
        /\ DOMAIN device_data \subseteq (1..total_data_set_in_device) \X {FirstDevice}
    BY <1>2 DEF Content, Loading
  <2>2. ScanInv'
    BY <1>2, <2>1, NextScanInv DEF scanVars
  <2>3. QED
    BY <1>2, <2>1, <2>2 DEF Loading, scanVars
<1>3. CASE FormQueue \/ Visit \/ UNCHANGED vars
  BY <1>2, <1>3 DEF FormQueue, Visit, vars, graphVars
<1>4. CASE Input \/ Output \/ ExecuteOpenCL \/ ExecuteCPP \/ ExecuteCrash \/ Display
  <2>1. stage \in {"inputs", "execute", "display"}
    BY <1>4 DEF Input, Output, ExecuteOpenCL, ExecuteCPP, ExecuteCrash, Display
  <2>2. Current # Start
    BY <2>1, ScanAssumption DEF Shape, Ordered, AtVertex
  <2>3. visited # 0 /\ visited \in Nat
    BY <2>1, <2>2, CurrentFacts
  <2>4. visited' = visited \/ visited' = visited + 1
    BY <1>4 DEF Input, Output, ExecuteOpenCL, ExecuteCPP, ExecuteCrash, Display, NextVertex
  <2>5. QED
    BY <2>3, <2>4
<1>5. QED
  BY <1>1, <1>3, <1>4 DEF Next

\* The steps that neither make a buffer nor rename one.
LEMMA QuietSteps ==
  ASSUME Shape, Visit \/ Input \/ ExecuteOpenCL \/ ExecuteCPP \/ ExecuteCrash \/ Display
                  \/ UNCHANGED vars
  PROVE  /\ data_pointer' = data_pointer
         /\ visited' > 0 => visited > 0
         /\ \A e \in Edge : Produced(Source[e])' => Produced(Source[e])
<1>1. CASE Visit \/ Input \/ ExecuteCrash \/ UNCHANGED vars
  <2>1. UNCHANGED <<data_pointer, process_queue, visited>>
    BY <1>1 DEF Visit, Input, SetInput, ExecuteCrash, vars, graphVars, scanVars
  <2>2. /\ stage' = "execute" => UNCHANGED vars
    BY <1>1, ScanAssumption DEF Visit, Input, ExecuteCrash
  <2>3. \A u : Produced(u)' => Produced(u)
    BY <2>1, <2>2, SamePlace DEF Produced, vars
  <2>4. QED
    BY <2>1, <2>3
<1>2. CASE NextVertex /\ (ExecuteOpenCL \/ ExecuteCPP \/ Display)
  <2>1. stage \in {"execute", "display"} /\ (stage = "display" => Current = End)
    BY <1>2 DEF ExecuteOpenCL, ExecuteCPP, Display, Shape, Ordered
  <2>2. data_pointer' = data_pointer
    BY <1>2 DEF ExecuteOpenCL, ExecuteCPP, Display, ExecuteOnDevice, ExecuteOnHost,
                graphVars, scanVars
  <2>3. \A u : Produced(u)' <=> Done(u) \/ u = Current
    BY <1>2, <2>1, NextPlace
  <2>4. stage = "execute" \/ Current = End
    BY <2>1
  <2>5. visited > 0
    <3>1. Current # Start
      BY <2>1, ScanAssumption DEF Shape, Ordered, AtVertex
    <3>2. QED
      BY <2>1, <3>1, CurrentFacts
  <2>6. QED
    BY <2>2, <2>3, <2>4, <2>5, GraphAssumption DEF Produced
<1>3. CASE Display /\ ~(cursor > Len(InEdges[End]))
  <2>1. /\ UNCHANGED <<data_pointer, process_queue, visited>>
        /\ stage' # "execute"
    BY <1>3 DEF Display, graphVars, scanVars
  <2>2. QED
    BY <2>1, SamePlace DEF Produced
<1>4. QED
  BY <1>1, <1>2, <1>3 DEF ExecuteOpenCL, ExecuteCPP, Display

\* The scan is the first vertex with buffers, as soon as all columns are loaded.
LEMMA LoadedPlace ==
  ASSUME Shape, Load, visited' > 0
  PROVE  /\ stage = "load" /\ to_load = {} /\ stage' = "visit"
         /\ UNCHANGED <<graphVars, execution_environment, process_queue, results>>
         /\ \A u : Produced(u)' => u = Start
         /\ \A u : Done(u)' <=> u = Start
<1>1. stage = "load" /\ Current = Start
  BY DEF Load, Shape, Ordered
<1>2. visited = 0 /\ \A u : ~Done(u)
  BY <1>1, CurrentFacts DEF Done
<1>3. to_load = {}
  BY <1>2 DEF Load
<1>4. /\ NextVertex
      /\ UNCHANGED <<graphVars, execution_environment, process_queue, results>>
  BY <1>3 DEF Load, NextVertex
<1>5. QED
  BY <1>1, <1>2, <1>3, <1>4, NextPlace

LEMMA KeepDistinct == Shape /\ Content /\ [Next]_vars => Distinct'
<1> SUFFICES ASSUME Shape, Content, [Next]_vars, visited' > 0,
                    NEW e \in Edge, NEW f \in Edge,
                    Produced(Source[e])', Produced(Source[f])',
                    data_pointer'[e] = data_pointer'[f]
             PROVE  SameBuffer(e, f)
  BY DEF Distinct, SameBuffer
<1>1. CASE FormQueue
  BY <1>1 DEF FormQueue, Shape, Ordered
<1>2. CASE Visit \/ Input \/ ExecuteOpenCL \/ ExecuteCPP \/ ExecuteCrash \/ Display
             \/ UNCHANGED vars
  <2>1. data_pointer' = data_pointer /\ visited > 0
    BY <1>2, QuietSteps
  <2>2. Produced(Source[e]) /\ Produced(Source[f])
    BY <1>2, QuietSteps
  <2>3. QED
    BY <2>1, <2>2 DEF Content, Distinct
<1>3. CASE Load
  <2>1. /\ stage = "load" /\ to_load = {} /\ data_pointer' = data_pointer
        /\ Source[e] = Start /\ Source[f] = Start
    BY <1>3, LoadedPlace DEF graphVars, scanVars
  <2>2. HoldsItsColumn(e) /\ HoldsItsColumn(f)
    BY <2>1, LoadedFacts
  <2>3. Column(Key[e]) = Column(Key[f])
    BY <2>1, <2>2 DEF HoldsItsColumn
  <2>4. QED
    BY <2>1, <2>3 DEF SameBuffer, Column
<1>4. CASE Output
  <2> DEFINE alias == total_data_set_in_device + 1
  <2>1. /\ stage = "inputs" /\ Current \in Operation
        /\ total_data_set_in_device \in Nat
        /\ data_pointer' = [g \in Edge |-> IF Source[g] = Current THEN alias ELSE data_pointer[g]]
        /\ UNCHANGED <<process_queue, visited>>
    BY <1>4, OutputFacts
  <2>2. /\ Produced(Source[e]) \/ Source[e] = Current
        /\ Produced(Source[f]) \/ Source[f] = Current
    BY <2>1, SamePlace DEF Produced
  <2>3. /\ Source[e] # Current => data_pointer'[e] \in 1..total_data_set_in_device
        /\ Source[f] # Current => data_pointer'[f] \in 1..total_data_set_in_device
    BY <2>1, <2>2, PointerFacts
  <2>4. Source[e] = Current <=> Source[f] = Current
    BY <2>1, <2>3
  <2>5. CASE Source[e] = Current
    BY <2>1, <2>4, <2>5, ScanAssumption DEF SameBuffer
  <2>6. CASE Source[e] # Current
    BY <2>1, <2>2, <2>4, <2>6 DEF Content, Distinct
  <2>7. QED
    BY <2>5, <2>6
<1>5. QED
  BY <1>1, <1>2, <1>3, <1>4 DEF Next

-----------------------------------------------------------------------------
(* Moves.                                                                  *)

\* A query's placement stays as it is.
LEMMA PlacementStays == [Next]_vars => device' = device
  BY DEF Next, FormQueue, Visit, Load, Input, SetInput, Output, PrepareOutput,
         ExecuteOpenCL, ExecuteCPP, ExecuteOnDevice, ExecuteOnHost, ExecuteCrash,
         Display, vars, graphVars

\* What set_input has been through stays so.
LEMMA ThroughStays ==
  ASSUME Shape, [Next]_vars, stage' # "crashed",
         NEW v \in Operation, NEW n \in DOMAIN InEdges[v], Through(v, n)
  PROVE  Through(v, n)'
<1>1. Done(v) \/ (AtVertex /\ v = Current /\ n < cursor)
  BY DEF Through
<1> SUFFICES Done(v)' \/ (AtVertex' /\ v = Current' /\ n < cursor')
  BY DEF Through
<1>2. cursor \in Nat /\ n \in Nat
  BY ScanAssumption DEF Shape, Ordered, Vertex
<1>3. CASE FormQueue
  BY <1>1, <1>3 DEF FormQueue, Shape, Ordered, Done, AtVertex
<1>4. CASE Visit \/ ExecuteCrash
  <2>1. Done(v) /\ UNCHANGED <<process_queue, visited>>
    BY <1>1, <1>4 DEF Visit, ExecuteCrash, AtVertex
  <2>2. QED
    BY <2>1, SamePlace
<1>5. CASE NextVertex /\ stage \notin {"form", "visit"}
  BY <1>1, <1>5, NextPlace
<1>6. CASE /\ UNCHANGED <<process_queue, visited>>
           /\ AtVertex => AtVertex' /\ cursor' \in {cursor, cursor + 1}
  <2>1. n < cursor => n < cursor + 1
    BY <1>2
  <2>2. QED
    BY <1>1, <1>6, <2>1, SamePlace
<1>7. CASE Load
  BY <1>5, <1>6, <1>7 DEF Load, AtVertex
<1>8. CASE Input
  <2>1. /\ UNCHANGED <<process_queue, visited>> /\ cursor' = cursor + 1
        /\ stage' = "inputs"
    BY <1>8 DEF Input
  <2>2. QED
    BY <1>2, <1>6, <2>1 DEF AtVertex
<1>9. CASE Output
  BY <1>2, <1>6, <1>9 DEF Output, AtVertex
<1>10. CASE ExecuteOpenCL \/ ExecuteCPP
  BY <1>5, <1>10 DEF ExecuteOpenCL, ExecuteCPP
<1>11. CASE Display
  BY <1>5, <1>6, <1>11 DEF Display, AtVertex
<1>12. CASE UNCHANGED vars
  BY <1>2, <1>6, <1>12 DEF vars, AtVertex
<1>13. QED
  BY <1>3, <1>4, <1>7, <1>8, <1>9, <1>10, <1>11, <1>12 DEF Next

\* An edge that was taken, or deprived of its buffer, stays so.
LEMMA TakenStays ==
  ASSUME Shape, [Next]_vars, stage' # "crashed", NEW e \in Edge
  PROVE  /\ Taken(e) => Taken(e)'
         /\ MovedAway(e) => MovedAway(e)'
<1>1. ASSUME Taken(e) PROVE Taken(e)'
  BY <1>1, ThroughStays DEF Taken
<1>2. ASSUME MovedAway(e) PROVE MovedAway(e)'
  <2>1. PICK v \in Operation : \E n \in DOMAIN InEdges[v] :
          /\ Through(v, n) /\ SameBuffer(e, InEdges[v][n])
          /\ device[v] # device[Source[InEdges[v][n]]]
    BY <1>2 DEF MovedAway
  <2>2. PICK n \in DOMAIN InEdges[v] :
          /\ Through(v, n) /\ SameBuffer(e, InEdges[v][n])
          /\ device[v] # device[Source[InEdges[v][n]]]
    BY <2>1
  <2>3. Through(v, n)' /\ device' = device
    BY <2>2, ThroughStays, PlacementStays
  <2>4. QED
    BY <2>2, <2>3 DEF MovedAway, SameBuffer
<1>3. QED
  BY <1>1, <1>2

\* Which vertices read in vain depends on the queue and the placement.
LEMMA DeprivedStays ==
  ASSUME UNCHANGED <<process_queue, device>>
  PROVE  \A j : Deprived(j)' <=> Deprived(j)
  BY DEF Deprived, InVain, SameBuffer

LEMMA NoneStays ==
  ASSUME Shape, [Next]_vars, NoneDeprived'
  PROVE  NoneDeprived
<1>1. CASE FormQueue
  BY <1>1 DEF FormQueue, Shape, Ordered, NoneDeprived
<1>2. CASE ~FormQueue
  <2>1. process_queue' = process_queue /\ visited' \in {visited, visited + 1}
    BY <1>2 DEF Next, Visit, Load, Input, Output, ExecuteOpenCL, ExecuteCPP, ExecuteCrash,
                Display, NextVertex, vars
  <2>2. \A j : Deprived(j)' <=> Deprived(j)
    BY <2>1, PlacementStays, DeprivedStays
  <2>3. visited \in Nat
    BY ExecutorAssumption, FS_CardinalityType DEF Shape, TypeOK
  <2>4. stage # "form" => process_queue \in Seq(Vertex)
    BY QueueFacts
  <2>5. stage = "form" => process_queue = <<>>
    BY DEF Shape, Ordered
  <2>6. QED
    BY <2>1, <2>2, <2>3, <2>4, <2>5 DEF NoneDeprived
<1>3. QED
  BY <1>1, <1>2

\* An input that was moved away is read in vain.
LEMMA ReadInVain ==
  ASSUME Shape, stage \notin {"form", "visit"}, NEW m \in DOMAIN InEdges[Current],
         AtVertex => m >= cursor, MovedAway(InEdges[Current][m])
  PROVE  Deprived(visited + 1)
<1> DEFINE e == InEdges[Current][m]
<1>1. /\ visited \in Nat /\ visited + 1 <= Vertices
      /\ Current = process_queue[visited + 1]
      /\ cursor \in Nat /\ m \in Nat
  BY CurrentFacts DEF Shape, Ordered, Current
<1>2. PICK v \in Operation : \E n \in DOMAIN InEdges[v] :
        /\ Through(v, n) /\ SameBuffer(e, InEdges[v][n])
        /\ device[v] # device[Source[InEdges[v][n]]]
  BY DEF MovedAway
<1>3. PICK n \in DOMAIN InEdges[v] :
        /\ Through(v, n) /\ SameBuffer(e, InEdges[v][n])
        /\ device[v] # device[Source[InEdges[v][n]]]
  BY <1>2
<1>4. n \in Nat
  BY ScanAssumption DEF Vertex
<1>5. PICK i \in 1..(visited + 1) :
        process_queue[i] = v /\ (i < visited + 1 \/ n < m)
  <2>1. CASE Done(v)
    BY <1>1, <2>1 DEF Done
  <2>2. CASE AtVertex /\ v = Current /\ n < cursor
    BY <1>1, <1>4, <2>2
  <2>3. QED
    BY <1>3, <2>1, <2>2 DEF Through
<1>6. InVain(visited + 1, m)
  BY <1>1, <1>3, <1>5 DEF InVain
<1>7. QED
  BY <1>1, <1>6 DEF Deprived

LEMMA CurrentNotDeprived ==
  ASSUME Shape, stage \notin {"form", "visit"}, NoneDeprived
  PROVE  ~Deprived(visited + 1)
<1>1. /\ visited \in Nat /\ visited + 1 <= Vertices
      /\ process_queue \in Seq(Vertex) /\ Len(process_queue) = Vertices
      /\ Vertices \in Nat
  BY CurrentFacts, QueueFacts
<1>2. visited + 1 \in DOMAIN process_queue
  BY <1>1
<1>3. QED
  BY <1>1, <1>2 DEF NoneDeprived

\* What a round of set_input does with its buffer: unless that was moved away
\* before, it is on the device of the current vertex afterwards.  Other
\* buffers stay where they are, and with an input in place all do.
LEMMA InputMoves ==
  ASSUME Shape, Content, Input,
         NEW v \in Operation, v = Current, NEW e \in Edge, e = InEdges[v][cursor]
  PROVE  LET x == <<data_pointer[e], device[v]>>
         IN  /\ ~Taken(e)
             /\ Taken(e)' \/ stage' = "crashed"
             /\ MovedAway(e) => Deprived(visited + 1)
             /\ stage' = "crashed" => MovedAway(e)
             /\ ~MovedAway(e) =>
                  /\ x \in DOMAIN device_data'
                  /\ NoneDeprived /\ execution_environment = 0 => device_data'[x] = Expected(e)
             /\ \A f \in Edge : /\ Produced(Source[f])
                                /\ device[Source[e]] = device[v] \/ ~SameBuffer(e, f)
                  => \A d \in Device : LET y == <<data_pointer[f], d>> IN
                       /\ y \in DOMAIN device_data' <=> y \in DOMAIN device_data
                       /\ y \in DOMAIN device_data => device_data'[y] = device_data[y]
<1> DEFINE p == data_pointer[e]
           s == device[Source[e]]
           d == device[v]
           x == <<p, d>>
<1>1. /\ stage = "inputs" /\ v \in Vertex
      /\ cursor \in DOMAIN InEdges[v]
      /\ Done(Source[e]) /\ Source[e] \in Vertex
      /\ cursor' = cursor + 1 /\ stage' \in {"inputs", "crashed"}
      /\ s = d => device_data' = device_data
      /\ s # d => device_data' = Transfer(device_data, p, s, d)
      /\ UNCHANGED <<process_queue, visited>>
  BY InputFacts
<1>2. /\ s \in Device /\ d \in Device /\ cursor \in Nat
  BY <1>1 DEF Shape, TypeOK, Ordered
<1>3. ~Taken(e) /\ (MovedAway(e) => Deprived(visited + 1))
  BY <1>1, <1>2, NotTaken, ReadInVain
<1>4. ~MovedAway(e) =>
        /\ <<p, s>> \in DOMAIN device_data
        /\ \A c \in Device : <<p, c>> \in DOMAIN device_data => c = s
        /\ NoneDeprived /\ execution_environment = 0 => device_data[<<p, s>>] = Expected(e)
  BY <1>1, <1>3 DEF Content, Moves, Waiting, AtSource, Produced
<1>5. stage' = "crashed" => MovedAway(e)
  BY <1>1, <1>4 DEF Input, MissesInput, AtSource
<1>6. Taken(e)' \/ stage' = "crashed"
  <2>1. CASE stage' = "inputs"
    <3>1. AtVertex' /\ v = Current' /\ cursor < cursor'
      BY <1>1, <1>2, <2>1, SamePlace DEF AtVertex
    <3>2. QED
      BY <1>1, <3>1 DEF Taken, Through
  <2>2. QED
    BY <1>1, <2>1
<1> HIDE DEF s, d, p
<1>7. CASE s # d
  <2>1. device_data' = Transfer(device_data, p, s, d)
    BY <1>1, <1>7
  <2>2. /\ DOMAIN device_data' = (DOMAIN device_data \cup {x}) \ {<<p, s>>}
        /\ \A y \in DOMAIN device_data \ {<<p, s>>} : device_data'[y] = device_data[y]
    BY <1>7, <2>1 DEF Transfer, Erase, Insert
  <2>3. ~MovedAway(e) => x \notin DOMAIN device_data
    BY <1>2, <1>4, <1>7
  <2>4. ~MovedAway(e) => device_data'[x] = device_data[<<p, s>>]
    BY <1>4, <1>7, <2>1, <2>3 DEF Transfer, Erase, Insert, Fetched
  <2>5. x \in DOMAIN device_data'
    BY <1>7, <2>2
  <2>6. ASSUME NEW f \in Edge, Produced(Source[f]), ~SameBuffer(e, f)
        PROVE  data_pointer[f] # p
    <3>1. visited > 0
      BY <1>1, CurrentFacts, ScanAssumption
    <3>2. QED
      BY <1>1, <2>6, <3>1 DEF Content, Distinct, Produced, p
  <2>7. \A f \in Edge : Produced(Source[f]) /\ (s = d \/ ~SameBuffer(e, f)) =>
          \A c \in Device :
            /\ <<data_pointer[f], c>> \in DOMAIN device_data' <=>
                 <<data_pointer[f], c>> \in DOMAIN device_data
            /\ <<data_pointer[f], c>> \in DOMAIN device_data =>
                 device_data'[<<data_pointer[f], c>>] = device_data[<<data_pointer[f], c>>]
    BY <1>7, <2>2, <2>6
  <2>8. QED
    BY <1>3, <1>4, <1>5, <1>6, <2>4, <2>5, <2>7 DEF p, d, s
<1>8. CASE s = d
  <2>1. device_data' = device_data
    BY <1>1, <1>8
  <2>2. QED
    BY <1>3, <1>4, <1>5, <1>6, <1>8, <2>1 DEF p, d
<1>9. QED
  BY <1>7, <1>8

LEMMA InputKeepsMoves ==
  ASSUME Shape, Content, Input
  PROVE  Moves'
<1> PICK v \in Operation : v = Current
  BY InputFacts
<1> PICK e \in Edge : e = InEdges[v][cursor]
  BY InputFacts
<1>1. /\ v \in Vertex /\ cursor \in DOMAIN InEdges[v]
      /\ stage = "inputs" /\ cursor' = cursor + 1
      /\ UNCHANGED <<data_pointer, device, execution_environment, process_queue, visited>>
  BY InputFacts
<1>2. /\ Taken(e)' \/ stage' = "crashed"
      /\ MovedAway(e) => Deprived(visited + 1)
      /\ stage' = "crashed" => MovedAway(e)
      /\ ~MovedAway(e) =>
           /\ <<data_pointer[e], device[v]>> \in DOMAIN device_data'
           /\ NoneDeprived /\ execution_environment = 0 =>
                device_data'[<<data_pointer[e], device[v]>>] = Expected(e)
      /\ \A f \in Edge : Produced(Source[f]) /\ (device[Source[e]] = device[v] \/ ~SameBuffer(e, f)) =>
           \A d \in Device :
             /\ <<data_pointer[f], d>> \in DOMAIN device_data' <=>
                  <<data_pointer[f], d>> \in DOMAIN device_data
             /\ <<data_pointer[f], d>> \in DOMAIN device_data =>
                  device_data'[<<data_pointer[f], d>>] = device_data[<<data_pointer[f], d>>]
  BY InputMoves
<1>3. /\ Deprived(visited + 1)' <=> Deprived(visited + 1)
      /\ NoneDeprived' <=> NoneDeprived
  BY <1>1, DeprivedStays DEF NoneDeprived
<1>4. CASE stage' = "crashed"
  BY <1>2, <1>3, <1>4 DEF Moves
<1>5. CASE stage' # "crashed"
  <2>1. stage' = "inputs"
    BY <1>5 DEF Input
  <2>2. /\ Current' = v /\ \A u : Done(u)' <=> Done(u)
        /\ \A u : Produced(u)' <=> Produced(u)
    BY <1>1, <2>1, SamePlace DEF Produced
  <2>3. device \in [Vertex -> Device] /\ cursor \in Nat
    BY DEF Shape, TypeOK, Ordered
  <2>4. Waiting'
    <3> SUFFICES ASSUME NEW f \in Edge, Produced(Source[f])', ~Taken(f)', ~MovedAway(f)'
                 PROVE  /\ AtSource(f)' \in DOMAIN device_data'
                        /\ \A d \in Device :
                             <<data_pointer'[f], d>> \in DOMAIN device_data' => d = device'[Source[f]]
                        /\ NoneDeprived' /\ execution_environment' = 0 /\ Done(Source[f])' =>
                             device_data'[AtSource(f)'] = Expected(f)
      BY DEF Waiting, Expected
    <3>1. Produced(Source[f])
      BY <2>2
    <3>2. ~Taken(f) /\ ~MovedAway(f)
      BY <1>5, TakenStays DEF Next
    <3>3. /\ AtSource(f) \in DOMAIN device_data
          /\ \A d \in Device : <<data_pointer[f], d>> \in DOMAIN device_data => d = device[Source[f]]
          /\ NoneDeprived /\ execution_environment = 0 /\ Done(Source[f]) =>
               device_data[AtSource(f)] = Expected(f)
      BY <1>1, <3>1, <3>2 DEF Content, Moves, Waiting
    <3>4. device[Source[e]] = device[v] \/ ~SameBuffer(e, f)
      <4> SUFFICES ASSUME device[Source[e]] # device[v], SameBuffer(e, f) PROVE FALSE
        OBVIOUS
      <4>1. PICK k \in DOMAIN InEdges[v] : k = cursor /\ InEdges[v][k] = e
        BY <1>1
      <4>2. Through(v, k)'
        BY <1>1, <2>1, <2>2, <2>3, <4>1 DEF Through, AtVertex
      <4>3. SameBuffer(f, e)' /\ device'[v] # device'[Source[e]]
        BY <1>1 DEF SameBuffer
      <4>4. QED
        BY <1>1, <4>1, <4>2, <4>3 DEF MovedAway
    <3>5. Source[f] \in Vertex /\ device[Source[f]] \in Device
      BY <2>3, ScanAssumption
    <3>6. AtSource(f)' = AtSource(f) /\ AtSource(f) = <<data_pointer[f], device[Source[f]]>>
      BY <1>1 DEF AtSource
    <3>7. /\ AtSource(f) \in DOMAIN device_data'
          /\ device_data'[AtSource(f)] = device_data[AtSource(f)]
          /\ \A d \in Device : <<data_pointer[f], d>> \in DOMAIN device_data' => d = device[Source[f]]
      BY <1>2, <3>1, <3>3, <3>4, <3>5, <3>6
    <3>8. QED
      BY <1>1, <1>3, <2>2, <3>3, <3>6, <3>7
  <2>5. Arrived'
    <3> SUFFICES ASSUME ~Deprived(visited + 1), NEW n \in 1..cursor
                 PROVE  LET f == InEdges[v][n] IN
                        /\ <<data_pointer[f], device[v]>> \in DOMAIN device_data'
                        /\ NoneDeprived /\ execution_environment = 0 =>
                             device_data'[<<data_pointer[f], device[v]>>] = Expected(f)
      BY <1>1, <1>3, <2>2, <2>3 DEF Arrived, Expected
    <3> DEFINE f == InEdges[v][n]
    <3>1. CASE n = cursor
      BY <1>2, <3>1
    <3>2. CASE n # cursor
      <4>1. n \in 1..(cursor - 1) /\ n \in DOMAIN InEdges[v]
        BY <1>1, <2>3, <3>2, CurrentFacts
      <4>2. f \in Edge /\ Done(Source[f])
        BY <1>1, <4>1, CurrentFacts
      <4>3. /\ <<data_pointer[f], device[v]>> \in DOMAIN device_data
            /\ NoneDeprived /\ execution_environment = 0 =>
                 device_data[<<data_pointer[f], device[v]>>] = Expected(f)
        BY <1>1, <4>1 DEF Content, Moves, Arrived, AtVertex
      <4>4. Produced(Source[f]) /\ device[v] \in Device
        BY <1>1, <2>3, <4>2 DEF Produced
      <4>5. device[Source[e]] = device[v] \/ ~SameBuffer(e, f)
        <5> SUFFICES ASSUME device[Source[e]] # device[v], SameBuffer(e, f) PROVE FALSE
          OBVIOUS
        <5>1. SameBuffer(f, e) /\ device[v] # device[Source[f]]
          BY DEF SameBuffer
        <5>2. SameBuffer(e, f) /\ n < cursor /\ Through(v, n)
          BY <1>1, <2>3, <4>1 DEF Through, AtVertex
        <5>3. MovedAway(e)
          BY <4>1, <5>1, <5>2 DEF MovedAway
        <5>4. QED
          BY <1>2, <5>3
      <4>6. QED
        BY <1>2, <4>2, <4>3, <4>4, <4>5
    <3>3. QED
      BY <3>1, <3>2
  <2>6. QED
    BY <1>5, <2>4, <2>5 DEF Moves
<1>6. QED
  BY <1>4, <1>5

LEMMA OutputKeepsMoves ==
  ASSUME Shape, Content, Output
  PROVE  Moves'
<1> PICK v \in Operation : v = Current
  BY OutputFacts
<1> DEFINE alias == total_data_set_in_device + 1
<1>1. /\ v \in Vertex /\ stage = "inputs" /\ stage' = "execute"
      /\ total_data_set_in_device \in Nat
      /\ cursor = Len(InEdges[v]) + 1 /\ Len(InEdges[v]) \in Nat
      /\ data_pointer' = [e \in Edge |-> IF Source[e] = v THEN alias ELSE data_pointer[e]]
      /\ DOMAIN device_data' = DOMAIN device_data \cup {<<alias, device[v]>>}
      /\ \A x \in DOMAIN device_data : device_data'[x] = device_data[x]
      /\ UNCHANGED <<device, execution_environment, process_queue, visited, cursor>>
  BY OutputFacts
<1>2. /\ Current' = v /\ ~Done(v) /\ \A u : Done(u)' <=> Done(u)
      /\ \A u : Produced(u)' <=> Done(u) \/ u = v
  BY <1>1, CurrentFacts, SamePlace DEF Produced
<1>3. \A d : <<alias, d>> \notin DOMAIN device_data
  BY <1>1 DEF Shape, TypeOK
<1>4. ASSUME NEW f \in Edge, Done(Source[f])
      PROVE  data_pointer'[f] = data_pointer[f] /\ data_pointer[f] # alias
  BY <1>1, <1>2, <1>4, PointerFacts DEF Produced
<1>5. /\ Deprived(visited + 1)' <=> Deprived(visited + 1)
      /\ NoneDeprived' <=> NoneDeprived
  BY <1>1, DeprivedStays DEF NoneDeprived
<1>6. Waiting'
  <2> SUFFICES ASSUME NEW f \in Edge, Produced(Source[f])', ~Taken(f)', ~MovedAway(f)'
               PROVE  /\ AtSource(f)' \in DOMAIN device_data'
                      /\ \A d \in Device :
                           <<data_pointer'[f], d>> \in DOMAIN device_data' => d = device'[Source[f]]
                      /\ NoneDeprived' /\ execution_environment' = 0 /\ Done(Source[f])' =>
                           device_data'[AtSource(f)'] = Expected(f)
    BY DEF Waiting, Expected
  <2>1. CASE Source[f] = v
    <3>1. AtSource(f)' = <<alias, device[v]>>
      BY <1>1, <2>1 DEF AtSource
    <3>2. \A d : <<alias, d>> \in DOMAIN device_data' => d = device[v]
      BY <1>1, <1>3
    <3>3. data_pointer'[f] = alias
      BY <1>1, <2>1
    <3> HIDE DEF alias
    <3>4. QED
      BY <1>1, <1>2, <2>1, <3>1, <3>2, <3>3
  <2>2. CASE Source[f] # v
    <3>1. Done(Source[f]) /\ Produced(Source[f])
      BY <1>2, <2>2 DEF Produced
    <3>2. ~Taken(f) /\ ~MovedAway(f)
      BY <1>1, TakenStays DEF Next
    <3>3. /\ AtSource(f) \in DOMAIN device_data
          /\ \A d \in Device :
               <<data_pointer[f], d>> \in DOMAIN device_data => d = device[Source[f]]
          /\ NoneDeprived /\ execution_environment = 0 => device_data[AtSource(f)] = Expected(f)
      BY <1>1, <3>1, <3>2 DEF Content, Moves, Waiting
    <3>4. /\ data_pointer'[f] = data_pointer[f] /\ data_pointer[f] # alias
          /\ AtSource(f)' = AtSource(f)
      BY <1>1, <1>4, <3>1 DEF AtSource
    <3> HIDE DEF alias
    <3>5. \A d : <<data_pointer[f], d>> \in DOMAIN device_data' =>
                   <<data_pointer[f], d>> \in DOMAIN device_data
      BY <1>1, <3>4
    <3>6. QED
      BY <1>1, <1>5, <3>3, <3>4, <3>5
  <2>3. QED
    BY <2>1, <2>2
<1>7. Arrived'
  <2> SUFFICES ASSUME ~Deprived(visited + 1), NEW n \in 1..(cursor - 1)
               PROVE  LET f == InEdges[v][n] IN
                      /\ <<data_pointer'[f], device[v]>> \in DOMAIN device_data'
                      /\ NoneDeprived /\ execution_environment = 0 =>
                           device_data'[<<data_pointer'[f], device[v]>>] = Expected(f)
    BY <1>1, <1>2, <1>5 DEF Arrived, Expected
  <2> DEFINE f == InEdges[v][n]
  <2>1. n \in DOMAIN InEdges[v]
    BY <1>1, CurrentFacts
  <2>2. f \in Edge /\ Done(Source[f])
    BY <1>1, <2>1, CurrentFacts
  <2>3. /\ <<data_pointer[f], device[v]>> \in DOMAIN device_data
        /\ NoneDeprived /\ execution_environment = 0 =>
             device_data[<<data_pointer[f], device[v]>>] = Expected(f)
    BY <1>1 DEF Content, Moves, Arrived, AtVertex
  <2>4. data_pointer'[f] = data_pointer[f]
    BY <1>4, <2>2
  <2> HIDE DEF f
  <2>5. QED
    BY <1>1, <2>3, <2>4 DEF f
<1>8. QED
  BY <1>1, <1>6, <1>7 DEF Moves

\* A kernel is started on its right inputs, in either layer.
LEMMA KernelFacts ==
  ASSUME Shape, Content, stage = "execute", NEW v \in Operation, v = Current
  PROVE  /\ NoneDeprived => ~Deprived(visited + 1)
         /\ ~Deprived(visited + 1) =>
              /\ ~ExecuteIsUndefined(v)
              /\ \A n \in 1..Len(InEdges[v]) :
                   /\ OnDevice(v)[n] \in DOMAIN device_data
                   /\ NoneDeprived /\ execution_environment = 0 =>
                        device_data[OnDevice(v)[n]] = Expected(InEdges[v][n])
         /\ OnDevice(v)[Arity(v)] = <<total_data_set_in_device, device[v]>>
         /\ OnHost(v)[Arity(v)] = total_data_set_in_device
         /\ \A n \in 1..Len(InEdges[v]) :
              /\ OnHost(v)[n] \in DOMAIN host_data
              /\ execution_environment = 1 =>
                   host_data[OnHost(v)[n]] = Expected(InEdges[v][n])
<1>1. /\ Len(InEdges[v]) \in Nat /\ Arity(v) = Len(InEdges[v]) + 1
      /\ Arguments(v) \in Seq(Nat) /\ Len(Arguments(v)) = Arity(v)
      /\ \A n \in 1..Len(InEdges[v]) : Arguments(v)[n] = data_pointer[InEdges[v][n]]
      /\ Arguments(v)[Arity(v)] = total_data_set_in_device
  BY ArgumentFacts
<1>2. /\ cursor = Len(InEdges[v]) + 1 /\ AtVertex
      /\ <<total_data_set_in_device, device[v]>> \in DOMAIN device_data
  BY DEF Shape, InHand, AtVertex
<1>3. /\ DOMAIN OnDevice(v) = 1..Len(InEdges[v]) \cup {Arity(v)}
      /\ \A i \in DOMAIN OnDevice(v) : OnDevice(v)[i] = <<Arguments(v)[i], device[v]>>
  <2>1. DOMAIN Arguments(v) = 1..(Len(InEdges[v]) + 1)
    BY <1>1
  <2>2. 1..(Len(InEdges[v]) + 1) = 1..Len(InEdges[v]) \cup {Len(InEdges[v]) + 1}
    BY <1>1
  <2>3. QED
    BY <1>1, <2>1, <2>2 DEF OnDevice
<1>4. ASSUME NEW n \in 1..Len(InEdges[v])
      PROVE  /\ n \in 1..(cursor - 1) /\ InEdges[v][n] \in Edge
             /\ Done(Source[InEdges[v][n]]) /\ Produced(Source[InEdges[v][n]])
  <2>1. n \in DOMAIN InEdges[v] /\ n \in 1..(cursor - 1)
    BY <1>1, <1>2, CurrentFacts
  <2>2. QED
    BY <2>1, CurrentFacts DEF Produced
<1>5. ASSUME ~Deprived(visited + 1), NEW n \in 1..Len(InEdges[v])
      PROVE  /\ OnDevice(v)[n] \in DOMAIN device_data
             /\ NoneDeprived /\ execution_environment = 0 =>
                  device_data[OnDevice(v)[n]] = Expected(InEdges[v][n])
  <2>1. OnDevice(v)[n] = <<data_pointer[InEdges[v][n]], device[v]>>
    <3>1. n \in DOMAIN OnDevice(v)
      BY <1>3
    <3>2. Arguments(v)[n] = data_pointer[InEdges[v][n]]
      BY <1>1
    <3>3. QED
      BY <1>3, <3>1, <3>2
  <2>2. QED
    BY <1>2, <1>4, <1>5, <2>1 DEF Content, Moves, Arrived
<1>6. ~Deprived(visited + 1) => ~ExecuteIsUndefined(v)
  <2>1. ~LacksKernel(v)
    BY ScanAssumption DEF LacksKernel
  <2>2. OnDevice(v)[Arity(v)] \in DOMAIN device_data
    BY <1>1, <1>2, <1>3
  <2>3. QED
    BY <1>3, <1>5, <2>1, <2>2 DEF ExecuteIsUndefined, MissesArgument
<1>7. ASSUME NEW n \in 1..Len(InEdges[v])
      PROVE  /\ OnHost(v)[n] \in DOMAIN host_data
             /\ execution_environment = 1 =>
                  host_data[OnHost(v)[n]] = Expected(InEdges[v][n])
  <2>1. OnHost(v)[n] = data_pointer[InEdges[v][n]]
    BY <1>1 DEF OnHost
  <2>2. data_pointer[InEdges[v][n]] \in 1..total_data_set_in_device
    BY <1>4, PointerFacts
  <2>3. visited > 0
    BY CurrentFacts, ScanAssumption
  <2>4. QED
    BY <1>4, <2>1, <2>2, <2>3 DEF Shape, TypeOK, Content, HostCopies
<1>8. OnDevice(v)[Arity(v)] = <<total_data_set_in_device, device[v]>>
  BY <1>1, <1>3
<1>9. OnHost(v)[Arity(v)] = total_data_set_in_device
  BY <1>1 DEF OnHost
<1>10. NoneDeprived => ~Deprived(visited + 1)
  BY CurrentNotDeprived
<1>11. QED
  BY <1>5, <1>6, <1>7, <1>8, <1>9, <1>10

\* The result is where execute leaves it, and nothing else has changed.
LEMMA ExecuteFacts ==
  ASSUME Shape, Content, ExecuteOpenCL \/ ExecuteCPP
  PROVE  LET x == <<total_data_set_in_device, device[Current]>>
             a == total_data_set_in_device
         IN  /\ stage = "execute" /\ Current \in Operation
             /\ DOMAIN device_data' = DOMAIN device_data
             /\ \A y \in DOMAIN device_data \ {x} : device_data'[y] = device_data[y]
             /\ execution_environment = 0 /\ NoneDeprived =>
                  device_data'[x] = Result(Current)
             /\ \A y \in DOMAIN host_data \ {a} : host_data'[y] = host_data[y]
             /\ execution_environment = 1 => host_data'[a] = Result(Current)
             /\ UNCHANGED <<data_pointer, device, execution_environment, results>>
<1> DEFINE v == Current
           x == <<total_data_set_in_device, device[v]>>
           a == total_data_set_in_device
<1>1. /\ stage = "execute"
      /\ UNCHANGED <<data_pointer, device, execution_environment, results>>
  BY DEF ExecuteOpenCL, ExecuteCPP, ExecuteOnDevice, ExecuteOnHost, NextVertex
<1>2. v \in Operation /\ x \in DOMAIN device_data /\ a \in DOMAIN host_data
  BY <1>1 DEF Shape, Ordered, InHand, AtVertex, TypeOK
<1>3. /\ OnDevice(v)[Arity(v)] = x /\ OnHost(v)[Arity(v)] = a
      /\ NoneDeprived => ~ExecuteIsUndefined(v)
      /\ \A n \in 1..Len(InEdges[v]) :
           /\ NoneDeprived /\ execution_environment = 0 =>
                device_data[OnDevice(v)[n]] = Expected(InEdges[v][n])
           /\ execution_environment = 1 =>
                host_data[OnHost(v)[n]] = Expected(InEdges[v][n])
  BY <1>1, <1>2, KernelFacts
<1>4. Len(Arguments(v)) = Arity(v)
  BY <1>1, ArgumentFacts
<1> HIDE DEF v, x, a
<1>5. CASE ExecuteOpenCL
  <2>1. /\ host_data' = host_data /\ execution_environment = 0
        /\ device_data' = IF ExecuteIsUndefined(v)
                          THEN device_data
                          ELSE [device_data EXCEPT ![x] = Computed(v, device_data, OnDevice(v))]
    BY <1>3, <1>4, <1>5 DEF ExecuteOpenCL, ExecuteOnDevice, Run, v
  <2>2. NoneDeprived => Computed(v, device_data, OnDevice(v)) = Result(v)
    BY <1>3, <2>1 DEF Computed
  <2>3. /\ DOMAIN device_data' = DOMAIN device_data
        /\ \A y \in DOMAIN device_data \ {x} : device_data'[y] = device_data[y]
    BY <2>1
  <2>4. NoneDeprived => device_data'[x] = Result(v)
    BY <1>2, <1>3, <2>1, <2>2
  <2>5. QED
    BY <1>1, <1>2, <2>1, <2>3, <2>4 DEF v, x, a
<1>6. CASE ExecuteCPP
  <2>1. /\ device_data' = device_data /\ execution_environment = 1
        /\ host_data' = [host_data EXCEPT ![a] = Computed(v, host_data, OnHost(v))]
    BY <1>3, <1>6 DEF ExecuteCPP, ExecuteOnHost, Run, v
  <2>2. Computed(v, host_data, OnHost(v)) = Result(v)
    BY <1>3, <2>1 DEF Computed
  <2>3. /\ host_data'[a] = Result(v)
        /\ \A y \in DOMAIN host_data \ {a} : host_data'[y] = host_data[y]
    BY <1>2, <2>1, <2>2
  <2>4. QED
    BY <1>1, <1>2, <2>1, <2>3 DEF v, x, a
<1>7. QED
  BY <1>5, <1>6

LEMMA ExecuteKeepsMoves ==
  ASSUME Shape, Content, ExecuteOpenCL \/ ExecuteCPP
  PROVE  Moves'
<1> PICK v \in Operation : v = Current
  BY ExecuteFacts
<1> DEFINE x == <<total_data_set_in_device, device[v]>>
<1>1. /\ stage = "execute" /\ NextVertex
      /\ DOMAIN device_data' = DOMAIN device_data
      /\ \A y \in DOMAIN device_data \ {x} : device_data'[y] = device_data[y]
      /\ NoneDeprived /\ execution_environment = 0 => device_data'[x] = Result(v)
      /\ UNCHANGED <<data_pointer, device, execution_environment>>
  BY ExecuteFacts DEF ExecuteOpenCL, ExecuteCPP
<1>2. /\ stage' = "visit"
      /\ \A u : Done(u)' <=> Done(u) \/ u = v
      /\ \A u : Produced(u)' <=> Produced(u)
      /\ \A u : Produced(u) <=> Done(u) \/ u = v
  BY <1>1, NextPlace DEF Produced
<1>3. Waiting'
  <2> SUFFICES ASSUME NEW f \in Edge, Produced(Source[f])', ~Taken(f)', ~MovedAway(f)'
               PROVE  /\ AtSource(f)' \in DOMAIN device_data'
                      /\ \A d \in Device :
                           <<data_pointer'[f], d>> \in DOMAIN device_data' => d = device'[Source[f]]
                      /\ NoneDeprived' /\ execution_environment' = 0 /\ Done(Source[f])' =>
                           device_data'[AtSource(f)'] = Expected(f)
    BY DEF Waiting, Expected
  <2>1. /\ ~Taken(f) /\ ~MovedAway(f) /\ Produced(Source[f])
        /\ NoneDeprived' => NoneDeprived
    BY <1>2, TakenStays, NoneStays DEF Next
  <2>2. /\ AtSource(f) \in DOMAIN device_data
        /\ \A d \in Device : <<data_pointer[f], d>> \in DOMAIN device_data => d = device[Source[f]]
        /\ NoneDeprived /\ execution_environment = 0 /\ Done(Source[f]) =>
             device_data[AtSource(f)] = Expected(f)
        /\ AtSource(f)' = AtSource(f)
    BY <1>1, <2>1 DEF Content, Moves, Waiting, AtSource
  <2>3. CASE Source[f] = v
    <3>1. AtSource(f) = x
      BY <1>1, <2>3 DEF Shape, InHand, AtVertex, AtSource
    <3>2. Expected(f) = Result(v)
      BY <2>3, ScanAssumption DEF Expected
    <3>3. QED
      BY <1>1, <2>1, <2>2, <3>1, <3>2
  <2>4. CASE Source[f] # v
    <3>1. data_pointer[f] # total_data_set_in_device
      BY <1>1, <2>1, <2>4 DEF Shape, InHand, AtVertex
    <3>2. AtSource(f) # x
      BY <3>1 DEF AtSource
    <3>3. Done(Source[f])
      BY <1>2, <2>1, <2>4
    <3>4. QED
      BY <1>1, <2>1, <2>2, <3>2, <3>3
  <2>5. QED
    BY <2>3, <2>4
<1>4. QED
  BY <1>2, <1>3 DEF Moves, Arrived, AtVertex

\* What a round of display_result finds.
LEMMA DisplayFacts ==
  ASSUME Shape, Content, stage = "display", cursor <= Len(InEdges[End])
  PROVE  LET e == InEdges[End][cursor] IN
         /\ cursor \in DOMAIN InEdges[End] /\ e \in Edge
         /\ NoneDeprived => ~Deprived(visited + 1)
         /\ ~Deprived(visited + 1) =>
              /\ AtSource(e) \in DOMAIN device_data
              /\ NoneDeprived /\ execution_environment = 0 => device_data[AtSource(e)] = Expected(e)
         /\ execution_environment = 1 => host_data[data_pointer[e]] = Expected(e)
<1> DEFINE e == InEdges[End][cursor]
<1>1. Current = End /\ ~AtVertex /\ cursor \in Nat \ {0}
  BY DEF Shape, Ordered, AtVertex
<1>2. cursor \in DOMAIN InEdges[End]
  BY <1>1, CurrentFacts
<1>3. e \in Edge /\ Done(Source[e]) /\ Produced(Source[e])
  BY <1>1, <1>2, CurrentFacts DEF Produced
<1>4. ~Taken(e) /\ (MovedAway(e) => Deprived(visited + 1))
  BY <1>1, <1>2, NotTaken, ReadInVain
<1>5. visited > 0
  BY <1>1, CurrentFacts, ScanAssumption
<1>6. ~Deprived(visited + 1) =>
        /\ AtSource(e) \in DOMAIN device_data
        /\ NoneDeprived /\ execution_environment = 0 => device_data[AtSource(e)] = Expected(e)
  BY <1>3, <1>4 DEF Content, Moves, Waiting
<1>7. execution_environment = 1 => host_data[data_pointer[e]] = Expected(e)
  BY <1>3, <1>5 DEF Content, HostCopies
<1>8. NoneDeprived => ~Deprived(visited + 1)
  BY CurrentNotDeprived
<1>9. QED
  BY <1>2, <1>3, <1>6, <1>7, <1>8

LEMMA KeepMoves == Shape /\ Content /\ [Next]_vars => Moves'
<1> SUFFICES ASSUME Shape, Content, [Next]_vars PROVE Moves'
  OBVIOUS
<1>1. NoneDeprived' => NoneDeprived
  BY NoneStays
<1>2. /\ stage # "crashed" => Waiting /\ Arrived
      /\ stage = "crashed" => Deprived(visited + 1)
      /\ stage' # "crashed" => stage # "crashed"
  BY DEF Content, Moves, Next, FormQueue, Visit, Load, Input, Output, ExecuteOpenCL, ExecuteCPP,
         ExecuteCrash, Display, vars
<1>3. ASSUME UNCHANGED <<data_pointer, device_data, device, execution_environment>>,
             stage' # "crashed",
             \A e \in Edge : Produced(Source[e])' => Produced(Source[e]),
             \A e \in Edge : Done(Source[e])' => Done(Source[e])
      PROVE  Waiting'
  <2> SUFFICES ASSUME NEW f \in Edge, Produced(Source[f])', ~Taken(f)', ~MovedAway(f)'
               PROVE  /\ AtSource(f)' \in DOMAIN device_data'
                      /\ \A d \in Device :
                           <<data_pointer'[f], d>> \in DOMAIN device_data' => d = device'[Source[f]]
                      /\ NoneDeprived' /\ execution_environment' = 0 /\ Done(Source[f])' =>
                           device_data'[AtSource(f)'] = Expected(f)
    BY DEF Waiting, Expected
  <2>1. /\ ~Taken(f) /\ ~MovedAway(f) /\ Produced(Source[f])
        /\ Done(Source[f])' => Done(Source[f])
        /\ AtSource(f)' = AtSource(f)
    BY <1>3, TakenStays DEF AtSource
  <2>2. QED
    BY <1>1, <1>2, <1>3, <2>1 DEF Waiting
<1>4. CASE FormQueue
  <2>1. /\ \A u : ~Produced(u)' /\ ~Done(u)'
        /\ stage' = "visit"
    BY <1>4 DEF FormQueue, Shape, Ordered, Done, Produced
  <2>2. QED
    BY <2>1 DEF Moves, Waiting, Arrived, AtVertex
<1>5. CASE Visit
  <2>1. /\ UNCHANGED <<data_pointer, device_data, device, execution_environment,
                       process_queue, visited>>
        /\ cursor' = 1 /\ stage' \in {"load", "display", "inputs"}
    BY <1>5, ScanAssumption DEF Visit, graphVars, scanVars
  <2>2. /\ \A u : Done(u)' <=> Done(u)
        /\ \A u : Produced(u)' => Produced(u)
    BY <2>1, SamePlace DEF Produced
  <2>3. Waiting'
    BY <1>3, <2>1, <2>2
  <2>4. Arrived'
    BY <2>1 DEF Arrived
  <2>5. QED
    BY <2>1, <2>3, <2>4 DEF Moves
<1>6. CASE Load
  <2>1. CASE visited' > 0
    <3>1. /\ stage = "load" /\ to_load = {} /\ stage' = "visit"
          /\ UNCHANGED <<data_pointer, device_data, device, execution_environment>>
          /\ \A u : Produced(u)' => u = Start
      BY <1>6, <2>1, LoadedPlace DEF graphVars, scanVars
    <3>2. ASSUME NEW f \in Edge, Produced(Source[f])'
          PROVE  /\ AtSource(f)' = AtSource(f)
                 /\ AtSource(f) \in DOMAIN device_data
                 /\ device_data[AtSource(f)] = Expected(f)
                 /\ \A d \in Device :
                      <<data_pointer[f], d>> \in DOMAIN device_data => d = device[Source[f]]
      <4>1. Source[f] = Start /\ device[Start] = FirstDevice
        BY <3>1, <3>2 DEF Shape, Ordered
      <4>2. AtSource(f)' = AtSource(f)
        BY <3>1 DEF AtSource
      <4>3. QED
        BY <3>1, <4>1, <4>2, LoadedFacts DEF HoldsItsColumn
    <3>3. Waiting'
      BY <3>1, <3>2 DEF Waiting, Expected
    <3>4. QED
      BY <3>1, <3>3 DEF Moves, Arrived, AtVertex
  <2>2. CASE ~(visited' > 0)
    <3>1. stage = "load" /\ visited = 0
      BY <1>6, CurrentFacts DEF Load, Shape, Ordered
    <3>2. UNCHANGED <<process_queue, visited, stage>>
      BY <1>6, <2>2, <3>1 DEF Load, NextVertex
    <3>3. \A u : ~Produced(u)'
      BY <3>1, <3>2 DEF Produced, Done
    <3>4. QED
      BY <3>1, <3>2, <3>3 DEF Moves, Waiting, Arrived, AtVertex
  <2>3. QED
    BY <2>1, <2>2
<1>7. CASE ExecuteCrash
  <2>1. Current \in Operation /\ stage = "execute"
    BY <1>7 DEF ExecuteCrash, Shape, Ordered, AtVertex
  <2>2. Deprived(visited + 1)
    BY <1>7, <2>1, KernelFacts DEF ExecuteCrash
  <2>3. UNCHANGED <<process_queue, visited, device>> /\ stage' = "crashed"
    BY <1>7 DEF ExecuteCrash, graphVars
  <2>4. QED
    BY <2>2, <2>3, DeprivedStays DEF Moves
<1>8. CASE Display
  <2>1. stage = "display" /\ Current = End
    BY <1>8 DEF Display, Shape, Ordered
  <2>2. UNCHANGED <<data_pointer, device_data, device, execution_environment>>
    BY <1>8 DEF Display, NextVertex, graphVars, scanVars
  <2>3. CASE cursor > Len(InEdges[End])
    <3>1. NextVertex
      BY <1>8, <2>3 DEF Display
    <3>2. /\ stage' = "visit"
          /\ \A u : Done(u)' <=> Done(u) \/ u = End
          /\ \A u : Produced(u)' <=> Done(u) \/ u = End
      BY <2>1, <3>1, NextPlace
    <3>3. \A e \in Edge : /\ Produced(Source[e])' => Produced(Source[e])
                          /\ Done(Source[e])' => Done(Source[e])
      BY <3>2, GraphAssumption DEF Produced
    <3>4. Waiting'
      BY <1>3, <2>2, <3>2, <3>3
    <3>5. QED
      BY <3>2, <3>4 DEF Moves, Arrived, AtVertex
  <2>4. CASE ~(cursor > Len(InEdges[End]))
    <3>1. cursor <= Len(InEdges[End])
      BY <2>1, <2>4, CurrentFacts DEF Shape, Ordered
    <3>2. ~Deprived(visited + 1) => AtSource(InEdges[End][cursor]) \in DOMAIN device_data
      BY <2>1, <3>1, DisplayFacts
    <3>3. /\ UNCHANGED <<process_queue, visited>> /\ stage' \in {"display", "crashed"}
          /\ stage' = "crashed" => Deprived(visited + 1)
      BY <1>8, <2>4, <3>2 DEF Display
    <3>4. \A e \in Edge : /\ Produced(Source[e])' => Produced(Source[e])
                          /\ Done(Source[e])' => Done(Source[e])
      BY <3>3, SamePlace DEF Produced
    <3>5. CASE stage' = "display"
      <4>1. Waiting'
        BY <1>3, <2>2, <3>4, <3>5
      <4>2. QED
        BY <3>5, <4>1 DEF Moves, Arrived, AtVertex
    <3>6. CASE stage' = "crashed"
      BY <2>2, <3>3, <3>6, DeprivedStays DEF Moves
    <3>7. QED
      BY <3>3, <3>5, <3>6
  <2>5. QED
    BY <2>3, <2>4
<1>9. CASE UNCHANGED vars
  <2>1. /\ UNCHANGED <<data_pointer, device_data, device, execution_environment, process_queue,
                       visited, stage, cursor>>
    BY <1>9 DEF vars, graphVars, scanVars
  <2>2. /\ Current' = Current /\ \A u : Done(u)' <=> Done(u)
        /\ \A u : Produced(u)' <=> Produced(u)
    BY <2>1, SamePlace DEF Produced
  <2>3. /\ Deprived(visited + 1)' <=> Deprived(visited + 1)
        /\ NoneDeprived' <=> NoneDeprived
    BY <2>1, DeprivedStays DEF NoneDeprived
  <2>4. CASE stage = "crashed"
    BY <1>2, <2>1, <2>3, <2>4 DEF Moves
  <2>5. CASE stage # "crashed"
    <3>1. Waiting'
      BY <1>3, <2>1, <2>2, <2>5
    <3>2. Arrived'
      BY <1>2, <2>1, <2>2, <2>3, <2>5 DEF Arrived, AtVertex, Expected
    <3>3. QED
      BY <2>1, <2>5, <3>1, <3>2 DEF Moves
  <2>6. QED
    BY <2>4, <2>5
<1>10. QED
  BY <1>4, <1>5, <1>6, <1>7, <1>8, <1>9, InputKeepsMoves, OutputKeepsMoves,
     ExecuteKeepsMoves DEF Next

-----------------------------------------------------------------------------
(* HostCopies.                                                             *)

LEMMA KeepHostCopies == Shape /\ Content /\ [Next]_vars => HostCopies'
<1> SUFFICES ASSUME Shape, Content, [Next]_vars, execution_environment' = 1, visited' > 0,
                    NEW e \in Edge, Done(Source[e])'
             PROVE  host_data'[data_pointer'[e]] = Expected(e)
  BY DEF HostCopies, Expected
<1>1. ASSUME visited > 0, execution_environment = 1, Done(Source[e]),
             data_pointer'[e] = data_pointer[e],
             host_data'[data_pointer[e]] = host_data[data_pointer[e]]
      PROVE  host_data'[data_pointer'[e]] = Expected(e)
  BY <1>1 DEF Content, HostCopies
<1>2. CASE FormQueue
  BY <1>2 DEF FormQueue, Shape, Ordered
<1>3. CASE Visit \/ Input \/ ExecuteCrash \/ UNCHANGED vars
             \/ (Display /\ ~(cursor > Len(InEdges[End])))
  <2>1. UNCHANGED <<data_pointer, host_data, execution_environment, process_queue, visited>>
    BY <1>3 DEF Visit, Input, SetInput, ExecuteCrash, Display, vars, graphVars, scanVars
  <2>2. QED
    BY <1>1, <2>1, SamePlace
<1>4. CASE Load
  <2>1. /\ stage = "load" /\ to_load = {} /\ Source[e] = Start
        /\ UNCHANGED <<data_pointer, host_data>>
    BY <1>4, LoadedPlace DEF graphVars, scanVars
  <2>2. HoldsItsColumn(e) /\ Expected(e) = Column(Key[e])
    BY <2>1, LoadedFacts
  <2>3. QED
    BY <2>1, <2>2 DEF HoldsItsColumn
<1>5. CASE Output
  <2> DEFINE alias == total_data_set_in_device + 1
  <2>1. /\ stage = "inputs" /\ total_data_set_in_device \in Nat
        /\ data_pointer' = [f \in Edge |-> IF Source[f] = Current THEN alias ELSE data_pointer[f]]
        /\ \A x \in DOMAIN host_data \ {alias} : host_data'[x] = host_data[x]
        /\ UNCHANGED <<execution_environment, process_queue, visited>>
    BY <1>5, OutputFacts
  <2>2. Done(Source[e]) /\ Source[e] # Current
    BY <2>1, SamePlace, CurrentFacts
  <2>3. data_pointer[e] \in 1..total_data_set_in_device
    BY <2>2, PointerFacts DEF Produced
  <2>4. data_pointer[e] \in DOMAIN host_data \ {alias}
    BY <2>1, <2>3 DEF Shape, TypeOK
  <2>5. QED
    BY <1>1, <2>1, <2>2, <2>4
<1>6. CASE ExecuteOpenCL \/ ExecuteCPP
  <2> DEFINE a == total_data_set_in_device
  <2>1. /\ stage = "execute" /\ NextVertex /\ Current \in Operation
        /\ \A x \in DOMAIN host_data \ {a} : host_data'[x] = host_data[x]
        /\ execution_environment = 1 => host_data'[a] = Result(Current)
        /\ UNCHANGED <<data_pointer, execution_environment>>
    BY <1>6, ExecuteFacts DEF ExecuteOpenCL, ExecuteCPP
  <2>2. visited > 0
    BY <2>1, CurrentFacts, ScanAssumption
  <2>3. Done(Source[e]) \/ Source[e] = Current
    BY <2>1, NextPlace
  <2>4. CASE Source[e] = Current
    <3>1. data_pointer[e] = a
      BY <2>1, <2>4 DEF Shape, InHand, AtVertex
    <3>2. Expected(e) = Result(Current)
      BY <2>1, <2>4, ScanAssumption DEF Expected
    <3>3. QED
      BY <2>1, <3>1, <3>2
  <2>5. CASE Source[e] # Current
    <3>1. Done(Source[e]) /\ Produced(Source[e])
      BY <2>3, <2>5 DEF Produced
    <3>2. data_pointer[e] # a
      BY <2>1, <2>5, <3>1 DEF Shape, InHand, AtVertex
    <3>3. data_pointer[e] \in DOMAIN host_data
      BY <3>1, PointerFacts DEF Shape, TypeOK
    <3>4. QED
      BY <1>1, <2>1, <2>2, <3>1, <3>2, <3>3
  <2>6. QED
    BY <2>4, <2>5
<1>7. CASE Display /\ cursor > Len(InEdges[End])
  <2>1. /\ stage = "display" /\ Current = End /\ NextVertex
        /\ UNCHANGED <<data_pointer, host_data, execution_environment>>
    BY <1>7 DEF Display, Shape, Ordered, NextVertex, graphVars, scanVars
  <2>2. Done(Source[e])
    BY <2>1, NextPlace, GraphAssumption
  <2>3. visited > 0
    BY <2>1, CurrentFacts, ScanAssumption
  <2>4. QED
    BY <1>1, <2>1, <2>2, <2>3
<1>8. QED
  BY <1>2, <1>3, <1>4, <1>5, <1>6, <1>7 DEF Next

-----------------------------------------------------------------------------
(* Shown.                                                                  *)

LEMMA KeepShown ==
  ASSUME Shape, Content, [Next]_vars, stage' # "crashed",
         NoneDeprived' \/ execution_environment' = 1
  PROVE  Shown'
<1>1. stage # "crashed"
  BY DEF Next, FormQueue, Visit, Load, Input, Output, ExecuteOpenCL, ExecuteCPP, ExecuteCrash,
         Display, vars
<1>2. NoneDeprived \/ execution_environment = 1
  <2>1. execution_environment' = execution_environment
    BY DEF Next, FormQueue, Visit, Load, Input, Output, ExecuteOpenCL, ExecuteCPP,
           ExecuteCrash, Display, NextVertex, vars
  <2>2. NoneDeprived' => NoneDeprived
    BY NoneStays
  <2>3. QED
    BY <2>1, <2>2
<1>3. Shown
  BY <1>1, <1>2 DEF Content
<1>4. Len(InEdges[End]) \in Nat /\ cursor \in Nat \ {0}
  BY ScanAssumption DEF Shape, Ordered, Vertex
<1>5. ASSUME results' = results, stage # "display", stage' # "display", Done(End)' <=> Done(End)
      PROVE  Shown'
  BY <1>3, <1>5 DEF Shown, Expected
<1>6. CASE FormQueue
  <2>1. ~Done(End) /\ ~Done(End)'
    BY <1>6 DEF FormQueue, Shape, Ordered, Done
  <2>2. QED
    BY <1>5, <1>6, <2>1 DEF FormQueue
<1>7. CASE Visit
  <2>1. /\ UNCHANGED <<process_queue, visited, results>> /\ cursor' = 1 /\ stage = "visit"
        /\ stage' = "display" => Current = End
    BY <1>7, ScanAssumption DEF Visit
  <2>2. CASE stage' = "display"
    <3>1. ~Done(End)
      BY <1>7, <2>1, <2>2, ToVisit DEF Visit
    <3>2. results = <<>>
      BY <1>3, <2>1, <3>1 DEF Shown
    <3>3. QED
      BY <1>4, <2>1, <2>2, <3>2 DEF Shown
  <2>3. CASE stage' # "display"
    BY <1>5, <2>1, <2>3, SamePlace
  <2>4. QED
    BY <2>2, <2>3
<1>8. CASE Load
  <2>1. stage = "load" /\ Current = Start /\ stage' \in {"load", "visit"} /\ results' = results
    BY <1>8 DEF Load, Shape, Ordered, NextVertex
  <2>2. Done(End)' <=> Done(End)
    BY <1>8, <2>1, NextPlace, SamePlace, ScanAssumption DEF Load
  <2>3. QED
    BY <1>5, <2>1, <2>2
<1>9. CASE Input \/ Output \/ ExecuteOpenCL \/ ExecuteCPP
  <2>1. /\ stage \in {"inputs", "execute"} /\ Current \in Operation
        /\ stage' # "display" /\ results' = results
        /\ NextVertex \/ UNCHANGED <<process_queue, visited>>
    BY <1>9 DEF Input, Output, ExecuteOpenCL, ExecuteCPP, NextVertex, Shape, Ordered, AtVertex
  <2>2. Done(End)' <=> Done(End)
    BY <2>1, NextPlace, SamePlace, ScanAssumption
  <2>3. QED
    BY <1>5, <2>1, <2>2
<1>10. CASE ExecuteCrash
  BY <1>10 DEF ExecuteCrash
<1>11. CASE Display
  <2>1. stage = "display" /\ Current = End
    BY <1>11 DEF Display, Shape, Ordered
  <2>2. /\ cursor - 1 <= Len(InEdges[End])
        /\ results = [i \in 1..(cursor - 1) |-> Expected(InEdges[End][i])]
    BY <1>3, <2>1 DEF Shown
  <2>3. CASE cursor > Len(InEdges[End])
    <3>1. NextVertex /\ results' = results
      BY <1>11, <2>3 DEF Display
    <3>2. stage' = "visit" /\ Done(End)'
      BY <2>1, <3>1, NextPlace
    <3>3. cursor - 1 = Len(InEdges[End])
      BY <1>4, <2>2, <2>3
    <3>4. QED
      BY <1>4, <2>2, <3>1, <3>2, <3>3 DEF Shown, Expected
  <2>4. CASE ~(cursor > Len(InEdges[End]))
    <3> DEFINE e == InEdges[End][cursor]
    <3>1. cursor <= Len(InEdges[End])
      BY <1>4, <2>4
    <3>2. /\ NoneDeprived => AtSource(e) \in DOMAIN device_data
          /\ NoneDeprived /\ execution_environment = 0 =>
               device_data[AtSource(e)] = Expected(e)
          /\ execution_environment = 1 => host_data[data_pointer[e]] = Expected(e)
      BY <2>1, <3>1, DisplayFacts
    <3>3. /\ stage' = "display" /\ cursor' = cursor + 1
          /\ results' = Append(results, IF execution_environment = 1
                                        THEN host_data[data_pointer[e]]
                                        ELSE Fetched(device_data, AtSource(e)))
      BY <1>11, <2>4 DEF Display
    <3>4. execution_environment \in {0, 1}
      BY DEF Shape, Ordered
    <3>5. results' = Append(results, Expected(e))
      BY <1>2, <3>2, <3>3, <3>4 DEF Fetched
    <3>6. results' = [i \in 1..cursor |-> Expected(InEdges[End][i])]
      BY <1>4, <2>2, <3>5
    <3>7. cursor' - 1 = cursor
      BY <1>4, <3>3
    <3>8. QED
      BY <3>1, <3>3, <3>6, <3>7 DEF Shown, Expected
  <2>5. QED
    BY <2>3, <2>4
<1>12. CASE UNCHANGED vars
  BY <1>3, <1>12, SamePlace DEF vars, Shown, Expected
<1>13. QED
  BY <1>6, <1>7, <1>8, <1>9, <1>10, <1>11, <1>12 DEF Next

-----------------------------------------------------------------------------
(* What follows for every query.                                           *)

LEMMA KeepContent == Shape /\ Content /\ [Next]_vars => Content'
<1> SUFFICES ASSUME Shape, Content, [Next]_vars PROVE Content'
  OBVIOUS
<1>1. Loading' /\ Distinct' /\ Moves' /\ HostCopies'
  BY KeepLoading, KeepDistinct, KeepMoves, KeepHostCopies
<1>2. (NoneDeprived' \/ execution_environment' = 1) /\ stage' # "crashed" => Shown'
  BY KeepShown
<1>3. QED
  BY <1>1, <1>2 DEF Content

LEMMA FinishedResults == Shape /\ Content => ResultsAreRight
<1> SUFFICES ASSUME Shape, Content, Finished,
                    NoneDeprived \/ execution_environment = 1
             PROVE  results = [i \in DOMAIN InEdges[End] |-> Expected(InEdges[End][i])]
  BY DEF ResultsAreRight
<1>1. stage = "visit" /\ visited = Len(process_queue)
  BY DEF Finished
<1>2. Done(End)
  BY <1>1, QueueFacts DEF Done, Vertex
<1>3. results = [i \in 1..Len(InEdges[End]) |-> Expected(InEdges[End][i])]
  BY <1>1, <1>2 DEF Content, Shown
<1>4. DOMAIN InEdges[End] = 1..Len(InEdges[End])
  BY ScanAssumption DEF Vertex
<1>5. QED
  BY <1>3, <1>4

LEMMA KernelInputs == Shape /\ Content => KernelsStartOnRightInputs
<1> SUFFICES ASSUME Shape, Content, stage = "execute",
                    NoneDeprived \/ execution_environment = 1
             PROVE  LET v    == Current
                        dict == IF execution_environment = 0 THEN device_data ELSE host_data
                        args == IF execution_environment = 0 THEN OnDevice(v) ELSE OnHost(v)
                    IN /\ Len(args) = Arity(v)
                       /\ \A i \in DOMAIN InEdges[v] :
                            args[i] \in DOMAIN dict /\ dict[args[i]] = Expected(InEdges[v][i])
  BY DEF KernelsStartOnRightInputs
<1> PICK v \in Operation : v = Current
  BY DEF Shape, Ordered, AtVertex
<1>1. /\ Len(InEdges[v]) \in Nat /\ Arity(v) = Len(InEdges[v]) + 1
      /\ Arguments(v) \in Seq(Nat) /\ Len(Arguments(v)) = Arity(v)
  BY ArgumentFacts
<1>2. DOMAIN InEdges[v] = 1..Len(InEdges[v])
  BY ScanAssumption DEF Vertex
<1>3. execution_environment \in {0, 1}
  BY DEF Shape, Ordered
<1>4. Len(OnDevice(v)) = Arity(v) /\ Len(OnHost(v)) = Arity(v)
  <2>1. OnDevice(v) = [i \in 1..Arity(v) |-> <<Arguments(v)[i], device[v]>>]
    BY <1>1 DEF OnDevice
  <2>2. Len(OnDevice(v)) = Arity(v)
    BY <1>1, <2>1
  <2>3. QED
    BY <1>1, <2>2 DEF OnHost
<1>5. /\ execution_environment = 0 => \A n \in 1..Len(InEdges[v]) :
           /\ OnDevice(v)[n] \in DOMAIN device_data
           /\ device_data[OnDevice(v)[n]] = Expected(InEdges[v][n])
      /\ \A n \in 1..Len(InEdges[v]) :
           /\ OnHost(v)[n] \in DOMAIN host_data
           /\ execution_environment = 1 =>
                host_data[OnHost(v)[n]] = Expected(InEdges[v][n])
  BY KernelFacts
<1>6. CASE execution_environment = 0
  BY <1>2, <1>4, <1>5, <1>6
<1>7. CASE execution_environment = 1
  BY <1>2, <1>4, <1>5, <1>7
<1>8. QED
  BY <1>3, <1>6, <1>7

\* display_result has fetched the result of every operation it shows, each
\* computed from its right inputs: for every query graph, every order
\* topological_sort may leave, and every history whose counter clears the
\* keys; with C++ of every placement that finishes, with OpenCL unless a vertex
\* was deprived of an input.
THEOREM ResultsRight ==
  ASSUME AliasesClearKeys
  PROVE  Spec => []ResultsAreRight
<1>1. Init => Shape /\ Content
  BY InitShape, InitContent
<1>2. Shape /\ Content /\ [Next]_vars => Shape' /\ Content'
  BY KeepShape, KeepContent
<1>3. Shape /\ Content => ResultsAreRight
  BY FinishedResults
<1>4. QED
  BY <1>1, <1>2, <1>3, PTL DEF Spec

\* Every kernel is given exactly its inputs, each in the layer it runs in, on
\* its own device and with what its producer left: with OpenCL up to the first
\* vertex that was deprived of an input, with C++ on all placements.
THEOREM KernelsStartRight ==
  ASSUME AliasesClearKeys
  PROVE  Spec => []KernelsStartOnRightInputs
<1>1. Init => Shape /\ Content
  BY InitShape, InitContent
<1>2. Shape /\ Content /\ [Next]_vars => Shape' /\ Content'
  BY KeepShape, KeepContent
<1>3. Shape /\ Content => KernelsStartOnRightInputs
  BY KernelInputs
<1>4. QED
  BY <1>1, <1>2, <1>3, PTL DEF Spec

\* No look-up of the dictionaries fails, in transfer_data, execute or get_data,
\* but at a vertex whose input an earlier reader has moved to another device.
THEOREM NothingIsMissing ==
  ASSUME AliasesClearKeys
  PROVE  Spec => [](stage = "crashed" => Deprived(visited + 1))
<1>1. Init => Shape /\ Content
  BY InitShape, InitContent
<1>2. Shape /\ Content /\ [Next]_vars => Shape' /\ Content'
  BY KeepShape, KeepContent
<1>3. Shape /\ Content => (stage = "crashed" => Deprived(visited + 1))
  BY DEF Content, Moves
<1>4. QED
  BY <1>1, <1>2, <1>3, PTL DEF Spec

-----------------------------------------------------------------------------
(* The loop does not go on for ever: how many steps are left.              *)

StagesLeft ==
  [form |-> 5, visit |-> 4, load |-> 3, inputs |-> 3, display |-> 3, execute |-> 2,
   crashed |-> 0]

\* The rounds that are left, the stages of this one, and what the loop inside
\* it has left: columns, inputs of the vertex, or inputs of the display.
StepsLeft ==
  <<IF stage = "form" THEN Vertices + 1 ELSE Vertices - visited,
    StagesLeft[stage],
    IF stage = "load"
    THEN Cardinality(to_load)
    ELSE IF stage \in {"inputs", "display"} /\ cursor <= Len(InEdges[Current])
    THEN Len(InEdges[Current]) + 1 - cursor
    ELSE 0>>

StepsGoDown == <<StepsLeft', StepsLeft>> \in Descent

\* The three places are what they are named for.
LEMMA StepsAreRanks ==
  IsFiniteSet(Columns) /\ Shape =>
    /\ StepsLeft \in Triples /\ Vertices \in Nat /\ visited \in 0..Vertices
    /\ IsFiniteSet(to_load) /\ Cardinality(to_load) \in Nat
<1> SUFFICES ASSUME IsFiniteSet(Columns), Shape
             PROVE  /\ StepsLeft \in Triples /\ Vertices \in Nat /\ visited \in 0..Vertices
                    /\ IsFiniteSet(to_load) /\ Cardinality(to_load) \in Nat
  OBVIOUS
<1>1. Vertices \in Nat /\ visited \in 0..Vertices
  BY ExecutorAssumption, FS_CardinalityType DEF Vertices, Shape, TypeOK
<1>2. IsFiniteSet(to_load) /\ Cardinality(to_load) \in Nat
  BY FS_Subset, FS_CardinalityType DEF Shape, Pointers
<1>3. StagesLeft[stage] \in Nat
  BY DEF Shape, TypeOK, StagesLeft
<1>4. stage \in {"inputs", "display"} /\ cursor <= Len(InEdges[Current]) =>
        Len(InEdges[Current]) + 1 - cursor \in Nat
  <2> SUFFICES ASSUME stage \in {"inputs", "display"}, cursor <= Len(InEdges[Current])
               PROVE  Len(InEdges[Current]) + 1 - cursor \in Nat
    OBVIOUS
  <2>1. InEdges[Current] \in Seq(Edge) /\ cursor \in Nat
    BY CurrentFacts DEF Shape, Ordered
  <2>2. PICK n \in Nat : n = Len(InEdges[Current])
    BY <2>1
  <2>3. QED
    BY <2>1, <2>2
<1>5. QED
  BY <1>1, <1>2, <1>3, <1>4 DEF StepsLeft, Triples

\* The end of a round.
LEMMA NextVertexGoesDown ==
  ASSUME IsFiniteSet(Columns), Shape, stage \notin {"form", "visit"}, NextVertex
  PROVE  Smaller(StepsLeft', StepsLeft)
<1>1. /\ Vertices \in Nat /\ visited \in 0..Vertices
      /\ visited' = visited + 1 /\ stage' = "visit"
  BY StepsAreRanks DEF NextVertex
<1>2. StepsLeft'[1] = Vertices - (visited + 1) /\ StepsLeft[1] = Vertices - visited
  BY <1>1 DEF StepsLeft, Vertices
<1>3. QED
  BY <1>1, <1>2 DEF Smaller

\* A round of set_input or of display_result.
LEMMA EdgeGoesDown ==
  ASSUME IsFiniteSet(Columns), Shape, stage \in {"inputs", "display"},
         cursor <= Len(InEdges[Current]), cursor' = cursor + 1,
         stage' \in {stage, "crashed"}, UNCHANGED <<process_queue, visited>>
  PROVE  Smaller(StepsLeft', StepsLeft)
<1>1. StepsLeft'[1] = StepsLeft[1]
  BY DEF StepsLeft, Vertices
<1>2. CASE stage' = "crashed"
  <2>1. StepsLeft'[2] < StepsLeft[2]
    BY <1>2 DEF StepsLeft, StagesLeft
  <2>2. QED
    BY <1>1, <2>1 DEF Smaller
<1>3. CASE stage' = stage
  <2>1. InEdges[Current] \in Seq(Edge) /\ cursor \in Nat
    BY CurrentFacts DEF Shape, Ordered
  <2>2. PICK n \in Nat : n = Len(InEdges[Current])
    BY <2>1
  <2>3. Current' = Current
    BY SamePlace
  <2>4. StepsLeft[3] = n + 1 - cursor
    BY <2>2 DEF StepsLeft
  <2>5. StepsLeft'[3] = IF cursor + 1 <= n THEN n + 1 - (cursor + 1) ELSE 0
    BY <1>3, <2>2, <2>3 DEF StepsLeft
  <2>6. StepsLeft'[3] < StepsLeft[3]
    <3>1. cursor <= n /\ cursor \in Nat /\ n \in Nat
      BY <2>1, <2>2
    <3>2. (IF cursor + 1 <= n THEN n + 1 - (cursor + 1) ELSE 0) < n + 1 - cursor
      BY ONLY <3>1
    <3>3. QED
      BY <2>4, <2>5, <3>2
  <2>7. StepsLeft'[2] = StepsLeft[2]
    BY <1>3 DEF StepsLeft
  <2>8. QED
    BY <1>1, <2>6, <2>7 DEF Smaller
<1>4. QED
  BY <1>2, <1>3

LEMMA StepGoesDown ==
  ASSUME IsFiniteSet(Columns), Shape, Next
  PROVE  Smaller(StepsLeft', StepsLeft)
<1>1. /\ Vertices \in Nat /\ visited \in 0..Vertices
      /\ IsFiniteSet(to_load) /\ Cardinality(to_load) \in Nat
  BY StepsAreRanks
<1>2. CASE FormQueue
  <2>1. StepsLeft[1] = Vertices + 1 /\ StepsLeft'[1] = Vertices - visited
    BY <1>2 DEF FormQueue, StepsLeft, Vertices
  <2>2. QED
    BY <1>1, <2>1 DEF Smaller
<1>3. CASE Visit
  <2>1. stage = "visit" /\ stage' \in {"load", "display", "inputs"} /\ visited' = visited
    BY <1>3 DEF Visit
  <2>2. StepsLeft'[1] = StepsLeft[1] /\ StepsLeft'[2] < StepsLeft[2]
    BY <2>1 DEF StepsLeft, StagesLeft, Vertices
  <2>3. QED
    BY <2>2 DEF Smaller
<1>4. CASE Load
  <2>1. stage = "load"
    BY <1>4 DEF Load
  <2>2. CASE to_load = {}
    BY <1>4, <2>1, <2>2, NextVertexGoesDown DEF Load
  <2>3. CASE to_load # {}
    <3>1. PICK k \in Columns : LoadColumn(k)
      BY <1>4, <2>3 DEF Load, ScanNext
    <3>2. k \in to_load /\ to_load' = to_load \ {k}
      BY <3>1 DEF LoadColumn
    <3>3. Cardinality(to_load') = Cardinality(to_load) - 1
      BY <1>1, <3>2, FS_RemoveElement
    <3>4. stage' = stage /\ visited' = visited
      BY <1>4, <2>3 DEF Load
    <3>5. /\ StepsLeft'[1] = StepsLeft[1] /\ StepsLeft'[2] = StepsLeft[2]
          /\ StepsLeft'[3] < StepsLeft[3]
      BY <1>1, <2>1, <3>3, <3>4 DEF StepsLeft, Vertices
    <3>6. QED
      BY <3>5 DEF Smaller
  <2>4. QED
    BY <2>2, <2>3
<1>5. CASE Input
  BY <1>5, EdgeGoesDown DEF Input
<1>6. CASE Output \/ ExecuteCrash
  <2>1. /\ visited' = visited
        /\ \/ stage = "inputs" /\ stage' = "execute"
           \/ stage = "execute" /\ stage' = "crashed"
    BY <1>6 DEF Output, ExecuteCrash
  <2>2. StepsLeft'[1] = StepsLeft[1] /\ StepsLeft'[2] < StepsLeft[2]
    BY <2>1 DEF StepsLeft, StagesLeft, Vertices
  <2>3. QED
    BY <2>2 DEF Smaller
<1>7. CASE ExecuteOpenCL \/ ExecuteCPP
  BY <1>7, NextVertexGoesDown DEF ExecuteOpenCL, ExecuteCPP
<1>8. CASE Display
  <2>1. stage = "display" /\ Current = End
    BY <1>8 DEF Display, Shape, Ordered
  <2>2. CASE cursor > Len(InEdges[End])
    BY <1>8, <2>1, <2>2, NextVertexGoesDown DEF Display
  <2>3. CASE ~(cursor > Len(InEdges[End]))
    <3>1. /\ cursor' = cursor + 1 /\ stage' \in {"display", "crashed"}
          /\ UNCHANGED <<process_queue, visited>>
      BY <1>8, <2>3 DEF Display
    <3>2. cursor <= Len(InEdges[Current])
      <4>1. InEdges[Current] \in Seq(Edge) /\ cursor \in Nat
        BY <2>1, CurrentFacts DEF Shape, Ordered
      <4>2. PICK n \in Nat : n = Len(InEdges[Current])
        BY <4>1
      <4>3. QED
        BY <2>1, <2>3, <4>1, <4>2
    <3>3. QED
      BY <2>1, <3>1, <3>2, EdgeGoesDown
  <2>4. QED
    BY <2>2, <2>3
<1>9. QED
  BY <1>2, <1>3, <1>4, <1>5, <1>6, <1>7, <1>8 DEF Next

\* execute_graph has only finitely many steps, whatever the graph, the columns
\* and the placement (primitive_graph.cpp:136-162): each lowers StepsLeft, and no
\* sequence of its values goes down for ever.
THEOREM LoopEnds ==
  ASSUME IsFiniteSet(Columns)
  PROVE  /\ IsWellFoundedOn(Descent, Triples)
         /\ Spec => [][StepsGoDown]_vars
<1>1. IsFiniteSet(Columns) /\ Shape => StepsLeft \in Triples
  BY StepsAreRanks
<1>2. (IsFiniteSet(Columns) /\ Shape => StepsLeft \in Triples)'
  BY <1>1, PTL
<1>3. ASSUME Shape, Shape', [Next]_vars PROVE [StepsGoDown]_vars
  <2>1. StepsLeft \in Triples /\ StepsLeft' \in Triples
    BY <1>1, <1>2, <1>3
  <2>2. Next => Smaller(StepsLeft', StepsLeft)
    BY <1>3, StepGoesDown
  <2>3. QED
    BY <1>3, <2>1, <2>2 DEF StepsGoDown, Descent
<1>4. Spec => [][StepsGoDown]_vars
  BY <1>3, InitShape, KeepShape, PTL DEF Spec
<1>5. QED
  BY <1>4, TriplesEnd

\* One of the guards of the loop is open: there is an order to form, a vertex
\* to visit, a column with the smallest key left, or a layer to execute in.
AGuardIsOpen ==
  \/ stage = "form" /\ TopologicalOrders(Vertex) # {}
  \/ stage = "visit" /\ visited < Len(process_queue)
  \/ stage = "load" /\ to_load = {}
  \/ stage = "load" /\ \E k \in Columns : k \in to_load /\ \A j \in to_load : k <= j
  \/ stage \in {"inputs", "display"}
  \/ stage = "execute" /\ execution_environment \in {0, 1}

\* The loop never stands still: on a graph without cycles, one of its guards is
\* open until it has been through the whole queue or the process crashed.  With
\* LoopEnds and NothingIsMissing that is QueryFinishes but for the scheduling
\* (primitive_graph.cpp:136-162).
THEOREM LoopNeverBlocks ==
  ASSUME TopologicalOrders(Vertex) # {}
  PROVE  Spec => [](Finished \/ stage = "crashed" \/ AGuardIsOpen)
<1>1. ASSUME Shape PROVE Finished \/ stage = "crashed" \/ AGuardIsOpen
  <2>1. stage \in {"form", "visit", "load", "inputs", "execute", "display", "crashed"}
    BY <1>1 DEF Shape, TypeOK
  <2>2. CASE stage = "visit"
    <3>1. visited \in 0..Vertices /\ Len(process_queue) = Vertices /\ Vertices \in Nat
      BY <1>1, <2>2, QueueFacts DEF Shape, TypeOK, Vertices
    <3>2. process_queue # <<>>
      BY <1>1, <2>2, <3>1, QueueFacts
    <3>3. QED
      BY <2>2, <3>1, <3>2 DEF Finished, AGuardIsOpen
  <2>3. CASE stage = "load" /\ to_load # {}
    <3>1. to_load \in SUBSET Nat /\ to_load \subseteq Columns
      BY <1>1, ScanAssumption DEF Shape, Pointers
    <3>2. PICK k \in to_load : \A j \in to_load : k <= j
      BY <2>3, <3>1, LeastOf
    <3>3. QED
      BY <2>3, <3>1, <3>2 DEF AGuardIsOpen
  <2>4. CASE stage = "execute"
    BY <1>1, <2>4 DEF Shape, Ordered, AGuardIsOpen
  <2>5. QED
    BY <2>1, <2>2, <2>3, <2>4 DEF AGuardIsOpen
<1>2. QED
  BY <1>1, InitShape, KeepShape, PTL DEF Spec
=============================================================================
