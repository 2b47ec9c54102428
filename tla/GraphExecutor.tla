--------------------------- MODULE GraphExecutor ---------------------------
(***************************************************************************)
(* query_graph::execute_graph: the vertices of a query, one after the      *)
(* other in the order of the flattened graph, each on the device its query *)
(* gave it (set_device), in the layer execution_environment names.         *)
(***************************************************************************)
EXTENDS QueryGraph

CONSTANTS
  Placements,           \* devices a query may give its operations
  Environments          \* values of execution_environment: 0 OpenCL, 1 C++

ASSUME ExecutorAssumption ==
  /\ IsFiniteSet(Vertex)
  /\ Placements \subseteq [Operation -> Device]
  /\ Environments \subseteq {0, 1}

VARIABLES
  execution_environment,
  process_queue,    \* the flattened graph
  visited,          \* how many of its vertices are finished
  stage,            \* where in the round of the current vertex
  cursor,           \* index of the next in-edge in set_input, display_result
  results           \* what display_result fetched

vars == <<graphVars, execution_environment, process_queue, visited, stage,
          cursor, results>>

Init ==
  /\ ScanInit
  /\ \E placement \in Placements :
       device = [v \in Vertex |-> IF v \in Operation THEN placement[v] ELSE FirstDevice]
  /\ output_data = [v \in Vertex |-> <<>>]
  /\ execution_environment \in Environments
  /\ process_queue = <<>> /\ visited = 0
  /\ stage = "form" /\ cursor = 1 /\ results = <<>>

Current == process_queue[visited + 1]

\* form_processing_queue, the first vertex is next.
FormQueue ==
  /\ stage = "form"
  /\ process_queue' \in TopologicalOrders(Vertex)
  /\ stage' = "visit"
  /\ UNCHANGED <<graphVars, execution_environment, visited, cursor, results>>

\* The branches of the loop on the kernel's name.
Visit ==
  /\ stage = "visit" /\ visited < Len(process_queue)
  /\ stage' = CASE Current = Start -> "load"
                [] Current = End   -> "display"
                [] OTHER           -> "inputs"
  /\ cursor' = 1
  /\ UNCHANGED <<graphVars, execution_environment, process_queue, visited, results>>

NextVertex ==
  /\ visited' = visited + 1
  /\ stage' = "visit"
  /\ UNCHANGED <<execution_environment, process_queue, cursor>>

Load ==
  /\ stage = "load"
  /\ IF to_load = {}
     THEN NextVertex /\ UNCHANGED <<graphVars, results>>
     ELSE /\ ScanNext
          /\ UNCHANGED <<device, output_data, execution_environment,
                         process_queue, visited, stage, cursor, results>>

\* A round of set_input; one that reads a missing buffer may also crash.
Input ==
  /\ stage = "inputs" /\ cursor <= Len(InEdges[Current])
  /\ SetInput(Current, cursor)
  /\ cursor' = cursor + 1
  /\ stage' \in IF MissesInput(Current, cursor) THEN {"inputs", "crashed"} ELSE {"inputs"}
  /\ UNCHANGED <<execution_environment, process_queue, visited, results>>

Output ==
  /\ stage = "inputs" /\ cursor > Len(InEdges[Current])
  /\ PrepareOutput(Current, total_data_set_in_device + 1)
  /\ stage' = "execute"
  /\ UNCHANGED <<execution_environment, process_queue, visited, cursor, results>>

ExecuteOpenCL ==
  /\ stage = "execute" /\ execution_environment = 0
  /\ ExecuteOnDevice(Current)
  /\ NextVertex
  /\ UNCHANGED results

ExecuteCPP ==
  /\ stage = "execute" /\ execution_environment = 1
  /\ ExecuteOnHost(Current)
  /\ NextVertex
  /\ UNCHANGED results

\* A look-up that fails may also crash.
ExecuteCrash ==
  /\ stage = "execute" /\ execution_environment = 0
  /\ ExecuteIsUndefined(Current)
  /\ stage' = "crashed"
  /\ UNCHANGED <<graphVars, execution_environment, process_queue, visited,
                 cursor, results>>

\* A round of display_result; one that reads a missing buffer may also crash.
Display ==
  /\ stage = "display"
  /\ IF cursor > Len(InEdges[End])
     THEN NextVertex /\ UNCHANGED <<graphVars, results>>
     ELSE LET e == InEdges[End][cursor] IN
          /\ results' = Append(results,
               IF execution_environment = 1
               THEN host_data[data_pointer[e]]
               ELSE Fetched(device_data, AtSource(e)))
          /\ cursor' = cursor + 1
          /\ stage' \in IF execution_environment = 0 /\ AtSource(e) \notin DOMAIN device_data
                        THEN {"display", "crashed"}
                        ELSE {"display"}
          /\ UNCHANGED <<graphVars, execution_environment, process_queue, visited>>

Next ==
  \/ FormQueue \/ Visit \/ Load \/ Input \/ Output
  \/ ExecuteOpenCL \/ ExecuteCPP \/ ExecuteCrash \/ Display

Fairness == WF_vars(Next)

Spec == Init /\ [][Next]_vars /\ Fairness

-----------------------------------------------------------------------------
Finished == stage = "visit" /\ process_queue # <<>> /\ visited = Len(process_queue)

TypeOK ==
  /\ device \in [Vertex -> Device]
  /\ data_pointer \in [Edge -> Nat]
  /\ total_data_set_in_device \in Nat
  /\ input_data \in [Vertex -> Seq(Nat)]
  /\ output_data \in [Vertex -> Seq(Nat)]
  /\ DOMAIN device_data \subseteq (1..total_data_set_in_device) \X Device
  /\ DOMAIN host_data = 1..total_data_set_in_device
  /\ visited \in 0..Cardinality(Vertex)
  /\ stage \in {"form", "visit", "load", "inputs", "execute", "display", "crashed"}

\* transfer_data moves a buffer.  The vertex at place j of the queue reads its
\* m-th in-edge in vain if an edge that was read before leads to the same
\* buffer and took it to another device.
InVain(j, m) ==
  \E i \in 1..j : \E n \in DOMAIN InEdges[process_queue[i]] :
    LET w == process_queue[i]
        f == InEdges[w][n]
    IN  /\ i < j \/ n < m
        /\ w \in Operation /\ device[w] # device[Source[f]]
        /\ SameBuffer(InEdges[process_queue[j]][m], f)

Deprived(j) == \E m \in DOMAIN InEdges[process_queue[j]] : InVain(j, m)

\* No vertex the loop has come to reads in vain.
NoneDeprived == \A j \in DOMAIN process_queue : j <= visited + 1 => ~Deprived(j)

\* "executes the complete graph on the target devices of the respective
\* primitives" (primitive_graph.hpp:117): what display_result fetched are
\* the results of the operations the query asked for, each computed from the
\* right inputs, in either layer and whatever the order of the flattening.  In
\* the C++ layer that holds of every placement that finishes, for the host
\* keeps a copy of every buffer that moved; with OpenCL only an input another
\* reader has moved away may stand in the way.
ResultsAreRight ==
  Finished /\ (NoneDeprived \/ execution_environment = 1) =>
    results = [i \in DOMAIN InEdges[End] |-> Expected(InEdges[End][i])]

\* A kernel starts with exactly its own inputs, each holding what its
\* producer left, on its own device: with OpenCL every kernel up to the first
\* that reads in vain, on the host every one.
KernelsStartOnRightInputs ==
  stage = "execute" /\ (NoneDeprived \/ execution_environment = 1) =>
    LET v    == Current
        dict == IF execution_environment = 0 THEN device_data ELSE host_data
        args == IF execution_environment = 0 THEN OnDevice(v) ELSE OnHost(v)
    IN /\ Len(args) = Arity(v)
       /\ \A i \in DOMAIN InEdges[v] :
            args[i] \in DOMAIN dict /\ dict[args[i]] = Expected(InEdges[v][i])

\* The loop comes to its end.  It crashes at no other vertex than one whose
\* input an earlier reader has moved away.
QueryFinishes == <>(Finished \/ (stage = "crashed" /\ Deprived(visited + 1)))
=============================================================================
