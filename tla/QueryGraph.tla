----------------------------- MODULE QueryGraph -----------------------------
(***************************************************************************)
(* What running one vertex of a query does to the shared state: set_input, *)
(* prepare_output_buffer and execute_node of query_graph and               *)
(* primitive_node, in the steps both executors take.  GraphExecutor takes  *)
(* them one after the other, ExchangeExecutor from one thread per device.  *)
(*                                                                         *)
(* compile_task builds the kernel execute_node then looks up and is taken  *)
(* to succeed; sizes, parameters and the values in a column are left out.  *)
(***************************************************************************)
EXTENDS ScanLoad, FiniteSets

\* The dag of a query: an edge enters one vertex, in one place; every vertex
\* but the scan has inputs; a scan edge names a column; nothing leaves the
\* display.
ASSUME GraphAssumption ==
  /\ \A v, w \in Vertex : \A i \in DOMAIN InEdges[v], j \in DOMAIN InEdges[w] :
       InEdges[v][i] = InEdges[w][j] => v = w /\ i = j
  /\ \A v \in Vertex \ {Start} : InEdges[v] # <<>>
  /\ \A e \in Edge : Source[e] = Start => Key[e] \in Columns
  /\ \A e \in Edge : Source[e] # End

VARIABLES
  device,         \* (pID, dID) of each vertex
  output_data     \* aliases of each vertex's outputs

graphVars == <<scanVars, device, output_data>>

\* The vertices of S in some order.
Orders(S) ==
  {order \in [1..Cardinality(S) -> S] :
     \A i, j \in 1..Cardinality(S) : order[i] = order[j] => i = j}

\* The n-th in-edge of the vertex at place j leaves an earlier one, or one
\* that is not in S.
SourceCame(S, order, j, n) ==
  LET u == Source[InEdges[order[j]][n]]
  IN  u \notin S \/ \E i \in 1..(j - 1) : order[i] = u

\* Mutant: bfs_flatten, which reaches a vertex by the first edge that leads
\* to it.
BreadthFirstOrders(S) ==
  {order \in Orders(S) : \A j \in 1..Cardinality(S) :
     \/ InEdges[order[j]] = <<>>
     \/ \E n \in DOMAIN InEdges[order[j]] : SourceCame(S, order, j, n)}

\* Every order topological_sort may leave the vertices of S in: a vertex comes
\* after the vertices its in-edges leave.
TopologicalOrders(S) ==
  {order \in Orders(S) : \A j \in 1..Cardinality(S) :
     \A n \in DOMAIN InEdges[order[j]] : SourceCame(S, order, j, n)}

\* What the reader of an edge is to find in its buffer.
Expected(e) == IF Source[e] = Start THEN Column(Key[e]) ELSE Result(Source[e])

\* Two edges lead to the same buffer: one producer, and one column of it.
SameBuffer(e, f) == Source[e] = Source[f] /\ (Source[e] = Start => Key[e] = Key[f])

\* The buffer of edge e is looked for on the device of the vertex it leaves.
AtSource(e) == <<data_pointer[e], device[Source[e]]>>

\* Mutant: the input is copied without a look at the device it is on.
SetInputInPlace(v, i) ==
  LET e == InEdges[v][i] IN
  /\ input_data' = [input_data EXCEPT ![v] = Append(@, data_pointer[e])]
  /\ UNCHANGED <<data_pointer, total_data_set_in_device, device_data,
                 host_data, to_load, device, output_data>>

\* Mutant: an input that is on the device of v already is transferred too.
SetInputEachMoved(v, i) ==
  LET e == InEdges[v][i] IN
  /\ input_data' = [input_data EXCEPT ![v] = Append(@, data_pointer[e])]
  /\ device_data' = Transfer(device_data, data_pointer[e], device[Source[e]], device[v])
  /\ UNCHANGED <<data_pointer, total_data_set_in_device, host_data, to_load,
                 device, output_data>>

\* The i-th round of the loop of set_input.  The alias is moved to the device
\* of v, if it is another one, and becomes the next argument of v.
SetInput(v, i) ==
  LET e == InEdges[v][i] IN
  /\ input_data' = [input_data EXCEPT ![v] = Append(@, data_pointer[e])]
  /\ device_data' =
       IF device[Source[e]] = device[v]
       THEN device_data
       ELSE Transfer(device_data, data_pointer[e], device[Source[e]], device[v])
  /\ UNCHANGED <<data_pointer, total_data_set_in_device, host_data, to_load,
                 device, output_data>>

\* set_input reads a buffer that is not there: undefined, see Fetched.
MissesInput(v, i) ==
  LET e == InEdges[v][i] IN
  /\ device[Source[e]] # device[v]
  /\ AtSource(e) \notin DOMAIN device_data

\* Mutant: get_alias does not keep the incremented counter.
PrepareOutputUncounted(v, alias) ==
  /\ device_data' = Insert(device_data, <<alias, device[v]>>, Zeros)
  /\ host_data' = Assign(host_data, alias, Zeros)
  /\ output_data' = [output_data EXCEPT ![v] = Append(@, alias)]
  /\ data_pointer' = [e \in Edge |-> IF Source[e] = v THEN alias ELSE data_pointer[e]]
  /\ UNCHANGED <<input_data, to_load, device, total_data_set_in_device>>

\* prepare_output_buffer with the alias get_alias gave: a buffer of zeros in
\* both layers, and all out-edges lead to it.
PrepareOutput(v, alias) ==
  /\ device_data' = Insert(device_data, <<alias, device[v]>>, Zeros)
  /\ host_data' = Assign(host_data, alias, Zeros)
  /\ output_data' = [output_data EXCEPT ![v] = Append(@, alias)]
  /\ data_pointer' = [e \in Edge |-> IF Source[e] = v THEN alias ELSE data_pointer[e]]
  /\ total_data_set_in_device' = alias
  /\ UNCHANGED <<input_data, to_load, device>>

-----------------------------------------------------------------------------
\* execute_node passes the inputs and then the outputs; the kernel of a
\* vertex takes one argument for each in-edge and one output.
Arguments(v) == input_data[v] \o output_data[v]

Arity(v) == Len(InEdges[v]) + 1

\* The arguments of v as keys of a dictionary.
OnDevice(v) == [i \in DOMAIN Arguments(v) |-> <<Arguments(v)[i], device[v]>>]

OnHost(v) == Arguments(v)

\* What the kernel of v computes from the arguments it is given.
Computed(v, dict, args) ==
  IF \A i \in 1..Len(InEdges[v]) : dict[args[i]] = Expected(InEdges[v][i])
  THEN Result(v)
  ELSE Wrong

Run(v, dict, args) ==
  [dict EXCEPT ![args[Arity(v)]] = Computed(v, dict, args)]

\* execute looks for an argument that is not on the device.
MissesArgument(v) ==
  \E i \in DOMAIN OnDevice(v) : OnDevice(v)[i] \notin DOMAIN device_data

\* start_vertex and end_vertex have the name of a kernel and no source: there
\* is nothing for compile_task to add, and nothing for execute to find.
LacksKernel(v) == v \in {Start, End}

\* Neither of the two look-ups of execute is compared with end().
ExecuteIsUndefined(v) == LacksKernel(v) \/ MissesArgument(v)

\* openCL_layer::execute.  With an argument too many, and with the garbage of
\* a failed look-up, clSetKernelArg fails and the kernel does not run.
ExecuteOnDevice(v) ==
  /\ device_data' =
       IF ExecuteIsUndefined(v) \/ Len(Arguments(v)) # Arity(v)
       THEN device_data
       ELSE Run(v, device_data, OnDevice(v))
  /\ UNCHANGED <<data_pointer, total_data_set_in_device, host_data, input_data,
                 to_load, device, output_data>>

\* cpp_layer::execute, on the copies of the host.
ExecuteOnHost(v) ==
  /\ host_data' = Run(v, host_data, OnHost(v))
  /\ UNCHANGED <<data_pointer, total_data_set_in_device, device_data,
                 input_data, to_load, device, output_data>>
=============================================================================
