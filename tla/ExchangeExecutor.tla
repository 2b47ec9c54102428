-------------------------- MODULE ExchangeExecutor --------------------------
(***************************************************************************)
(* exchange_query_graph: one query run by all devices at once.  The        *)
(* operations of the flattened graph go through a shared lock-free queue;  *)
(* for every device a coordinator thread (process_in_device) takes one,    *)
(* waits until its inputs are ready, moves them and prepares the output    *)
(* (transfer_op), and has its worker (process_op) execute it.              *)
(*                                                                         *)
(* Coordinator and worker of a device take turns (DeviceHandshake), so a   *)
(* device has one program counter here.  Calls on the shared dictionaries  *)
(* are single steps; get_alias is a read and a write.                      *)
(***************************************************************************)
EXTENDS QueryGraph

CONSTANTS
  Capacity,         \* of ex_processing_queue, 20 in exchange.hpp
  NoVertex,         \* an index outside the dag
  HeapGarbage       \* what a fresh process_vertex[i] may hold

ASSUME ExchangeAssumption ==
  /\ IsFiniteSet(Vertex) /\ IsFiniteSet(Device)
  /\ Capacity \in Nat
  /\ NoVertex \notin Vertex
  /\ HeapGarbage \subseteq Vertex \cup {NoVertex}

VARIABLES
  ex_processing_queue,   \* operations not yet taken by a device
  ready_for_next_step,   \* of each edge: its data is available
  pc,                    \* where each device is
  process_vertex,        \* the vertex each device works on
  cursor,                \* next in-edge of that vertex in set_input
  alias_read,            \* what get_alias read and has not yet written back
  crashed,               \* the process met undefined behaviour it did not survive
  queued,                \* history: what was put in the queue
  runs,                  \* history: how often each vertex was executed
  popped,                \* history: the vertices each device got from the queue
  missed                 \* history: devices whose pop found the queue empty

history == <<queued, runs, popped, missed>>

vars == <<graphVars, ex_processing_queue, ready_for_next_step, pc,
          process_vertex, cursor, alias_read, crashed, history>>

Init ==
  /\ ScanInit
  /\ device = [v \in Vertex |-> FirstDevice]
  /\ output_data = [v \in Vertex |-> <<>>]
  /\ ex_processing_queue = <<>>
  /\ ready_for_next_step = [e \in Edge |-> FALSE]
  /\ pc = [d \in Device |-> "unborn"]
  /\ process_vertex \in [Device -> HeapGarbage]
  /\ cursor = [d \in Device |-> 1]
  /\ alias_read = [d \in Device |-> 0]
  /\ crashed = FALSE
  /\ queued = {} /\ runs = [v \in Vertex |-> 0]
  /\ popped = [d \in Device |-> {}] /\ missed = {}

-----------------------------------------------------------------------------
(* form_lockfree_processing_queue, then the threads start.                 *)

Load ==
  /\ ScanNext
  /\ UNCHANGED <<device, output_data, ex_processing_queue, ready_for_next_step,
                 pc, process_vertex, cursor, alias_read, crashed, history>>

\* What a queue of this capacity takes of the operations in their order: a
\* push on a full queue fails and nobody looks.
Pushed(order) ==
  SubSeq(order, 1, IF Len(order) < Capacity THEN Len(order) ELSE Capacity)

\* The flattened graph without its scan, loaded by now, and its display.
FormQueue ==
  /\ to_load = {} /\ \A d \in Device : pc[d] = "unborn"
  /\ \E order \in TopologicalOrders(Operation) :
       /\ ex_processing_queue' = Pushed(order)
       /\ queued' = {Pushed(order)[i] : i \in DOMAIN Pushed(order)}
  /\ ready_for_next_step' = [e \in Edge |-> Source[e] = Start]
  /\ pc' = [d \in Device |-> "check"]
  /\ UNCHANGED <<graphVars, process_vertex, cursor, alias_read, crashed,
                 runs, popped, missed>>

-----------------------------------------------------------------------------
(* The thread of device d.  A crash ends all of them.                      *)

At(d, label) == ~crashed /\ pc[d] = label

Goto(d, label) == pc' = [pc EXCEPT ![d] = label]

\* Mutant: a loop that does not ask whether the queue is empty.
CheckQueueUnguarded(d) ==
  /\ At(d, "check")
  /\ Goto(d, "pop")
  /\ UNCHANGED <<graphVars, ex_processing_queue, ready_for_next_step,
                 process_vertex, cursor, alias_read, crashed, history>>

\* The condition of the loop, and its end: the marker and both joins.
CheckQueue(d) ==
  /\ At(d, "check")
  /\ Goto(d, IF ex_processing_queue = <<>> THEN "ended" ELSE "pop")
  /\ UNCHANGED <<graphVars, ex_processing_queue, ready_for_next_step,
                 process_vertex, cursor, alias_read, crashed, history>>

\* transfer_op begins: the vertex is put on this device.  An index outside
\* the dag is not survived.
Place(d, v) ==
  IF v = NoVertex
  THEN /\ crashed' = TRUE
       /\ UNCHANGED <<device, pc>>
  ELSE /\ device' = [device EXCEPT ![v] = d]
       /\ Goto(d, "await")
       /\ UNCHANGED crashed

\* Mutant: the head of the queue is read and stays there.
PopKept(d) ==
  /\ At(d, "pop")
  /\ IF ex_processing_queue # <<>>
     THEN /\ process_vertex' = [process_vertex EXCEPT ![d] = Head(ex_processing_queue)]
          /\ popped' = [popped EXCEPT ![d] = @ \cup {Head(ex_processing_queue)}]
          /\ UNCHANGED missed
     ELSE /\ missed' = missed \cup {d}
          /\ UNCHANGED <<process_vertex, popped>>
  /\ Place(d, process_vertex'[d])
  /\ UNCHANGED <<scanVars, output_data, ex_processing_queue, ready_for_next_step,
                 cursor, alias_read, queued, runs>>

\* The pop, whose result is ignored: on an empty queue process_vertex keeps
\* what it had.
Pop(d) ==
  /\ At(d, "pop")
  /\ IF ex_processing_queue # <<>>
     THEN /\ process_vertex' = [process_vertex EXCEPT ![d] = Head(ex_processing_queue)]
          /\ ex_processing_queue' = Tail(ex_processing_queue)
          /\ popped' = [popped EXCEPT ![d] = @ \cup {Head(ex_processing_queue)}]
          /\ UNCHANGED missed
     ELSE /\ missed' = missed \cup {d}
          /\ UNCHANGED <<process_vertex, ex_processing_queue, popped>>
  /\ Place(d, process_vertex'[d])
  /\ UNCHANGED <<scanVars, output_data, ready_for_next_step, cursor, alias_read,
                 queued, runs>>

\* Mutant: the spin ends at the first in-edge that is ready.
AwaitAnyInput(d) ==
  /\ At(d, "await")
  /\ \E i \in DOMAIN InEdges[process_vertex[d]] :
       ready_for_next_step[InEdges[process_vertex[d]][i]]
  /\ cursor' = [cursor EXCEPT ![d] = 1]
  /\ Goto(d, "input")
  /\ UNCHANGED <<graphVars, ex_processing_queue, ready_for_next_step,
                 process_vertex, alias_read, crashed, history>>

\* The spin ends in a pass over the in-edges that finds them all ready.
AwaitInputs(d) ==
  /\ At(d, "await")
  /\ \A i \in DOMAIN InEdges[process_vertex[d]] :
       ready_for_next_step[InEdges[process_vertex[d]][i]]
  /\ cursor' = [cursor EXCEPT ![d] = 1]
  /\ Goto(d, "input")
  /\ UNCHANGED <<graphVars, ex_processing_queue, ready_for_next_step,
                 process_vertex, alias_read, crashed, history>>

InputsLeft(d) == cursor[d] <= Len(InEdges[process_vertex[d]])

Input(d) ==
  /\ At(d, "input") /\ InputsLeft(d)
  /\ SetInput(process_vertex[d], cursor[d])
  /\ cursor' = [cursor EXCEPT ![d] = @ + 1]
  /\ crashed' \in IF MissesInput(process_vertex[d], cursor[d]) THEN BOOLEAN ELSE {FALSE}
  /\ UNCHANGED <<ex_processing_queue, ready_for_next_step, pc, process_vertex,
                 alias_read, history>>

\* get_alias increments an unprotected counter: read here, written in Output.
ReadAlias(d) ==
  /\ At(d, "input") /\ ~InputsLeft(d)
  /\ alias_read' = [alias_read EXCEPT ![d] = total_data_set_in_device]
  /\ Goto(d, "output")
  /\ UNCHANGED <<graphVars, ex_processing_queue, ready_for_next_step,
                 process_vertex, cursor, crashed, history>>

Output(d) ==
  /\ At(d, "output")
  /\ PrepareOutput(process_vertex[d], alias_read[d] + 1)
  /\ Goto(d, "execute")
  /\ UNCHANGED <<ex_processing_queue, ready_for_next_step, process_vertex,
                 cursor, alias_read, crashed, history>>

\* The worker: execute_node.
Execute(d) ==
  /\ At(d, "execute")
  /\ ExecuteOnDevice(process_vertex[d])
  /\ crashed' \in IF ExecuteIsUndefined(process_vertex[d]) THEN BOOLEAN ELSE {FALSE}
  /\ runs' = [runs EXCEPT ![process_vertex[d]] = @ + 1]
  /\ Goto(d, "publish")
  /\ UNCHANGED <<ex_processing_queue, ready_for_next_step, process_vertex,
                 cursor, alias_read, queued, popped, missed>>

\* Mutant: the in-edges are marked in place of the out-edges.
PublishInEdges(d) ==
  /\ At(d, "publish")
  /\ ready_for_next_step' =
       [e \in Edge |-> \/ ready_for_next_step[e]
                       \/ \E i \in DOMAIN InEdges[process_vertex[d]] :
                            InEdges[process_vertex[d]][i] = e]
  /\ Goto(d, "check")
  /\ UNCHANGED <<graphVars, ex_processing_queue, process_vertex, cursor,
                 alias_read, crashed, history>>

\* The worker: the out-edges become ready, and the device is free again.
Publish(d) ==
  /\ At(d, "publish")
  /\ ready_for_next_step' =
       [e \in Edge |-> ready_for_next_step[e] \/ Source[e] = process_vertex[d]]
  /\ Goto(d, "check")
  /\ UNCHANGED <<graphVars, ex_processing_queue, process_vertex, cursor,
                 alias_read, crashed, history>>

Step(d) ==
  \/ CheckQueue(d) \/ Pop(d) \/ AwaitInputs(d) \/ Input(d)
  \/ ReadAlias(d) \/ Output(d) \/ Execute(d) \/ Publish(d)

Next ==
  \/ Load
  \/ FormQueue
  \/ \E d \in Device : Step(d)

\* The main thread and every device's thread run when they can.
Fairness ==
  /\ WF_vars(Load \/ FormQueue)
  /\ \A d \in Device : WF_vars(Step(d))

SafeSpec == Init /\ [][Next]_vars

Spec == SafeSpec /\ Fairness

-----------------------------------------------------------------------------
Labels == {"unborn", "check", "pop", "await", "input", "output", "execute",
           "publish", "ended"}

\* A device has inputs, outputs or a kernel of its vertex in hand.
Busy(d) == pc[d] \in {"input", "output", "execute", "publish"}

Producers(v) == {Source[InEdges[v][i]] : i \in DOMAIN InEdges[v]} \ {Start}

TypeOK ==
  /\ ex_processing_queue \in Seq(Operation)
  /\ ready_for_next_step \in [Edge -> BOOLEAN]
  /\ device \in [Vertex -> Device]
  /\ pc \in [Device -> Labels]
  /\ process_vertex \in [Device -> Vertex \cup {NoVertex}]
  /\ cursor \in [Device -> Nat]
  /\ alias_read \in [Device -> Nat]
  /\ total_data_set_in_device \in Nat
  /\ crashed \in BOOLEAN
  /\ queued \subseteq Operation
  /\ runs \in [Vertex -> Nat]
  /\ popped \in [Device -> SUBSET Operation]
  /\ missed \subseteq Device

\* "threads spin until the data is ready to be processed" (exchange.hpp:106):
\* a device touches the inputs of a vertex only after every operation that
\* produces one of them has been executed somewhere.
ProducersRanFirst ==
  \A d \in Device : Busy(d) => \A u \in Producers(process_vertex[d]) : runs[u] > 0

\* The gap between empty() and pop() is bounded: the device that takes the
\* last vertex has not missed, so at least one device never executes a vertex
\* it did not pop.
SomeDeviceNeverMisses == queued # {} => missed # Device

\* A device never works on a vertex another device popped, once it has popped
\* one itself: what a failed pop repeats is its own last vertex.
VertexKeepsItsDevice ==
  \A c, d \in Device :
    c # d /\ popped[d] # {} /\ pc[d] \notin {"unborn", "check", "ended"} =>
      process_vertex[d] \notin popped[c]

\* A repeated execution is the last thing the device does: it comes from a
\* queue that was empty, and the queue never fills again.
RepeatsComeLast ==
  \A v \in Operation : runs[v] > 1 => ex_processing_queue = <<>>

\* "Executes given graph in with parallelism" (exchange.hpp:89): no deadlock and
\* nothing left behind.  Every device comes to its end, and then every operation
\* of the graph was executed, unless the process crashed.
EveryOperationRuns ==
  <>(\/ crashed
     \/ (\A d \in Device : pc[d] = "ended") /\ (\A v \in Operation : runs[v] > 0))

-----------------------------------------------------------------------------
(* What the code promises in its comments.                                 *)

\* "pops a primitive node from shared queue and executes in respective
\* device" (exchange.hpp:94): a device executes what it popped, once.
ExecutesWhatItPopped ==
  \A v \in Vertex : runs[v] <= Cardinality({d \in Device : v \in popped[d]})

\* "This is set only after the data is pushed into the target device"
\* (exchange.hpp:73): when a vertex is handed to the worker, each input is on
\* the device and holds what its producer left.
InputsAreInTarget ==
  \A d \in Device : pc[d] = "execute" =>
    LET v == process_vertex[d] IN
    /\ Len(Arguments(v)) = Arity(v)
    /\ \A i \in DOMAIN InEdges[v] :
         /\ OnDevice(v)[i] \in DOMAIN device_data
         /\ device_data[OnDevice(v)[i]] = Expected(InEdges[v][i])

\* "provide alias ID that is not already available in any device"
\* (runtime_globals.hpp:17): no two vertices share the alias of an output.
AliasesAreDistinct ==
  \A v, w \in Vertex : \A i \in DOMAIN output_data[v], j \in DOMAIN output_data[w] :
    output_data[v][i] = output_data[w][j] => v = w /\ i = j

\* No buffer of the query has two readers.
OneReader == \A e, f \in Edge : SameBuffer(e, f) => e = f

\* With no repetition and no shared alias, and a graph in which no buffer has
\* two readers, the moves between the devices bring every input in place.
TreeInputsArrive ==
  missed = {} /\ AliasesAreDistinct => InputsAreInTarget
=============================================================================
