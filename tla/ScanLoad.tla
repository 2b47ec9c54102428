------------------------------ MODULE ScanLoad ------------------------------
(***************************************************************************)
(* query_graph::load_data: the columns of data_scan are copied to the      *)
(* device of the scan vertex and the scan's out-edges, which the query     *)
(* wrote with a column's key in data_pointer, are rewritten to the alias   *)
(* under which the column was placed.  Keys and aliases are both plain     *)
(* integers in the same field.                                             *)
(***************************************************************************)
EXTENDS Integers, Sequences, DataDictionary

CONSTANTS
  Operation,        \* vertices that run a kernel
  Start,            \* start_vertex, the data_scan
  End,              \* end_vertex, the data_display
  Edge,             \* the edges of the dag
  Source,           \* Source[e]: the vertex edge e leaves
  InEdges,          \* InEdges[v]: the in-edges of v in the order they were added
  Key,              \* Key[e]: data_pointer as the query wrote it, 0 by default
  Columns,          \* the keys of data_scan
  Device,           \* the (platform, device) pairs
  FirstDevice,      \* (0, 0), where a vertex is until set_device
  EarlierAliases    \* values of total_data_set_in_device a query may find

Vertex == Operation \cup {Start, End}

ASSUME ScanAssumption ==
  /\ Start \notin Operation /\ End \notin Operation /\ Start # End
  /\ Source \in [Edge -> Vertex]
  /\ InEdges \in [Vertex -> Seq(Edge)]
  /\ Key \in [Edge -> Nat]
  /\ Columns \subseteq Nat \ {0}
  /\ FirstDevice \in Device
  /\ EarlierAliases \subseteq Nat

VARIABLES
  data_pointer,               \* of each edge: first a key, then an alias
  total_data_set_in_device,   \* the counter behind get_alias
  device_data,                \* openCL_layer::mDataDictionary
  host_data,                  \* cpp_layer::mDataDictionary
  input_data,                 \* aliases of each vertex's inputs
  to_load                     \* keys the loop of load_data has yet to visit

scanVars == <<data_pointer, total_data_set_in_device, device_data, host_data,
              input_data, to_load>>

OutEdges(v) == {e \in Edge : Source[e] = v}

\* A query starts on what earlier queries left: their buffers are never
\* deleted, and the counter goes on from where it was.
ScanInit ==
  /\ data_pointer = Key
  /\ total_data_set_in_device \in EarlierAliases
  /\ device_data = [x \in (1..total_data_set_in_device) \X {FirstDevice} |-> Stale]
  /\ host_data = [x \in 1..total_data_set_in_device |-> Stale]
  /\ input_data = [v \in Vertex |-> <<>>]
  /\ to_load = Columns

\* primitive_node::place_data with the next alias: one copy in each layer.
PlaceData(k) ==
  /\ total_data_set_in_device' = total_data_set_in_device + 1
  /\ device_data' = Insert(device_data, <<total_data_set_in_device', FirstDevice>>, Column(k))
  /\ host_data' = Assign(host_data, total_data_set_in_device', Column(k))
  /\ input_data' = [input_data EXCEPT ![Start] = Append(@, total_data_set_in_device')]

\* One round of the loop of load_data: the smallest key left, as std::map
\* orders them.  Every out-edge whose data_pointer equals the key now is
\* rewritten, also one that was rewritten before.
LoadColumn(k) ==
  /\ k \in to_load /\ \A j \in to_load : k <= j
  /\ to_load' = to_load \ {k}
  /\ PlaceData(k)
  /\ data_pointer' = [e \in Edge |->
       IF e \in OutEdges(Start) /\ data_pointer[e] = k
       THEN total_data_set_in_device'
       ELSE data_pointer[e]]

ScanNext == \E k \in Columns : LoadColumn(k)

ScanSpec == ScanInit /\ [][ScanNext]_scanVars

-----------------------------------------------------------------------------
\* The aliases that loading hands out do not meet keys that are still to be
\* loaded: either the columns are numbered from 1 and nothing was loaded
\* before, so that key and alias agree, or every key is below the counter.
AliasesClearKeys ==
  \A c \in EarlierAliases :
    \/ c = 0 /\ \E n \in Nat : Columns = 1..n
    \/ \A k \in Columns : k <= c

\* The edge leads to its own column in both layers.
HoldsItsColumn(e) ==
  /\ <<data_pointer[e], FirstDevice>> \in DOMAIN device_data
  /\ device_data[<<data_pointer[e], FirstDevice>>] = Column(Key[e])
  /\ data_pointer[e] \in DOMAIN host_data
  /\ host_data[data_pointer[e]] = Column(Key[e])

\* "Adds data into device tagged to the primitive node" (primitive_graph.hpp
\* :103): once everything is loaded, the alias on each scan edge names the
\* column whose key the query wrote on that edge.
ScanEdgesHoldTheirColumn ==
  to_load = {} =>
    \A e \in OutEdges(Start) : Key[e] \in Columns => HoldsItsColumn(e)
=============================================================================
