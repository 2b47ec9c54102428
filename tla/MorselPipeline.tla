--------------------------- MODULE MorselPipeline ---------------------------
(***************************************************************************)
(* morsel_driven of mapper-additional: a chain of selections and logical   *)
(* operations.  A device takes an operation from the queue and works on it *)
(* with two threads: transfer_data brings the inputs morsel by morsel,     *)
(* process_data runs the kernel on each morsel that has come.  run()       *)
(* switches work sharing off, and with it the one place that waits for the *)
(* operation that makes an input: whether that is far enough is a matter   *)
(* of timing, and "late" records where it was not.                         *)
(*                                                                         *)
(* Sizes are in morsels of the operation that reads.  A selection makes a  *)
(* bit of a row, so Pack (32) morsels of its own make one of its reader.   *)
(***************************************************************************)
EXTENDS Naturals, Sequences

CONSTANTS
  Devices,
  Selections,   \* how many, at least two
  Rows,         \* of the table, in morsels
  Pack,
  None

ASSUME MorselAssumption ==
  /\ Selections \in Nat /\ Selections >= 2
  /\ Pack \in Nat /\ Pack > 0 /\ Rows \in Nat /\ Rows > 0 /\ Rows % Pack = 0
  /\ None \notin Devices /\ None \notin Nat

VARIABLES
  queue,        \* ng_processing_queue
  at,           \* the operation of a device, or None
  transfer,     \* where its thread transfer_data is
  process,      \* where its thread process_data is
  edge,         \* number of the edge that transfer_data has in hand
  maxSize,      \* max_data_size of transfer_data
  where,        \* input_device_index and input_data_name of the edge out
  edgeSize,     \* data_size of the edge out
  dataSize,     \* of the operation
  limit,        \* rear_fetched_until and rear_processed_until
  fetched,      \* fetched_until of the operation
  edgeFetched,  \* fetched_until of an edge
  present,      \* the morsels of an edge that have a sub buffer at the reader
  right,        \* those that have been filled, and rightly
  processed,    \* processed_until
  good,         \* the morsels computed from right inputs
  ended,        \* the operations with input_EOD
  late,         \* history: taken before an operation they read had ended
  failed        \* the program has ended with an error

vars == <<queue, at, transfer, process, edge, maxSize, where, edgeSize, dataSize,
          limit, fetched, edgeFetched, present, right, processed, good, ended,
          late, failed>>

-----------------------------------------------------------------------------
(* create_execution_graph: selections 1..n, then logical operations, each  *)
(* of which joins what is before it with the next selection.  Edges are    *)
(* known by their reader and number.                                       *)

Operations == 1..(2 * Selections - 1)
IsSelection(o) == o <= Selections

\* The operations an operation reads; for a selection, the table.
Inputs(o) ==
  IF IsSelection(o) THEN <<None>>
  ELSE <<IF o = Selections + 1 THEN 1 ELSE o - 1, o - Selections + 1>>

Edges == {e \in Operations \X {1, 2} : e[2] <= Len(Inputs(e[1]))}
EdgesInto(o) == {e \in Edges : e[1] = o}
Producer(e) == Inputs(e[1])[e[2]]

\* create_edge; an edge between operations is later given its size by the
\* first of them.
SizeAtFirst(o) == IF IsSelection(o) THEN Rows ELSE 0
Size(e) == IF Producer(e) = None THEN Rows ELSE edgeSize[Producer(e)]
From(e) == IF Producer(e) = None THEN None ELSE where[Producer(e)]

\* Mutant: bits are given the room of the rows they are computed from.
ResultSizeInRows(o) == dataSize[o]

\* compute_result_size, in morsels of the reader.
ResultSize(o) == IF IsSelection(o) THEN dataSize[o] \div Pack ELSE dataSize[o]

\* The morsels of p of which its reader's morsel m is made.
Width(p) == IF IsSelection(p) THEN Pack ELSE 1
Source(p, m) == (m * Width(p))..(m * Width(p) + Width(p) - 1)

\* create_bfs_execution_pipeline: the search starts at the first selection; the
\* others, which it does not reach, are sorted before what it does.
Init ==
  /\ queue = [k \in Operations |-> k]
  /\ at = [d \in Devices |-> None]
  /\ transfer = [d \in Devices |-> "none"]
  /\ process = [d \in Devices |-> "none"]
  /\ edge = [d \in Devices |-> 1]
  /\ maxSize = [d \in Devices |-> 0]
  /\ where = [o \in Operations |-> None]
  /\ edgeSize = [o \in Operations |-> SizeAtFirst(o)]
  /\ dataSize = [o \in Operations |-> SizeAtFirst(o)]
  /\ limit = [o \in Operations |-> 0]
  /\ fetched = [o \in Operations |-> 0]
  /\ edgeFetched = [e \in Edges |-> 0]
  /\ present = [e \in Edges |-> {}]
  /\ right = [e \in Edges |-> {}]
  /\ processed = [o \in Operations |-> 0]
  /\ good = [o \in Operations |-> {}]
  /\ ended = {} /\ late = {} /\ failed = FALSE

\* checkError, get_buffer and an exception that nobody catches.
Fail == failed' = TRUE

-----------------------------------------------------------------------------
(* thread_processing.                                                      *)

\* empty() and pop(): a device whose pop comes too late stops like one that
\* finds the queue empty.
Pop(d) ==
  /\ ~failed /\ at[d] = None /\ queue # <<>>
  /\ at' = [at EXCEPT ![d] = Head(queue)]
  /\ queue' = Tail(queue)
  /\ transfer' = [transfer EXCEPT ![d] = "take"]
  /\ late' = IF \A e \in EdgesInto(Head(queue)) : Producer(e) \in ended \cup {None}
             THEN late ELSE late \cup {Head(queue)}
  /\ UNCHANGED <<process, edge, maxSize, where, edgeSize, dataSize, limit, fetched,
                 edgeFetched, present, right, processed, good, ended, failed>>

\* The size of the first edge that has one becomes that of an operation without,
\* and the two threads start.
Take(d) ==
  LET o == at[d]
      first == IF Size(<<o, 1>>) # 0 THEN <<o, 1>> ELSE <<o, 2>>
  IN
  /\ ~failed /\ transfer[d] = "take"
  /\ dataSize' = [dataSize EXCEPT ![o] = IF @ = 0 THEN Size(first) ELSE @]
  /\ transfer' = [transfer EXCEPT ![d] = "name"]
  /\ process' = [process EXCEPT ![d] = "run"]
  /\ UNCHANGED <<queue, at, edge, maxSize, where, edgeSize, limit, fetched,
                 edgeFetched, present, right, processed, good, ended, late, failed>>

\* join
Join(d) ==
  /\ ~failed /\ transfer[d] = "done" /\ process[d] = "done"
  /\ at' = [at EXCEPT ![d] = None]
  /\ transfer' = [transfer EXCEPT ![d] = "none"]
  /\ process' = [process EXCEPT ![d] = "none"]
  /\ maxSize' = [maxSize EXCEPT ![d] = 0]
  /\ UNCHANGED <<queue, edge, where, edgeSize, dataSize, limit, fetched,
                 edgeFetched, present, right, processed, good, ended, late, failed>>

-----------------------------------------------------------------------------
(* transfer_data.                                                          *)

\* The result buffer is there, and its device and name are at the edge out ...
Name(d) ==
  /\ ~failed /\ transfer[d] = "name"
  /\ where' = [where EXCEPT ![at[d]] = d]
  /\ transfer' = [transfer EXCEPT ![d] = "size"]
  /\ UNCHANGED <<queue, at, process, edge, maxSize, edgeSize, dataSize, limit, fetched,
                 edgeFetched, present, right, processed, good, ended, late, failed>>

\* ... and then its size.
SetSize(d) ==
  /\ ~failed /\ transfer[d] = "size"
  /\ edgeSize' = [edgeSize EXCEPT ![at[d]] = ResultSize(at[d])]
  /\ transfer' = [transfer EXCEPT ![d] = "inspect"]
  /\ UNCHANGED <<queue, at, process, edge, maxSize, where, dataSize, limit, fetched,
                 edgeFetched, present, right, processed, good, ended, late, failed>>

\* On to the next edge, or from the last one to what comes after the loop.
NextEdge(d, after) ==
  LET last == edge[d] = Len(Inputs(at[d])) IN
  /\ edge' = [edge EXCEPT ![d] = IF last THEN 1 ELSE @ + 1]
  /\ transfer' = [transfer EXCEPT ![d] = IF last THEN after ELSE @]

\* The input buffers.  An input of this device needs none.  One of an operation
\* that has no name yet has none to make a name of.
Inspect(d) ==
  LET o == at[d]
      e == <<o, edge[d]>>
      larger == IF Size(e) > maxSize[d] THEN Size(e) ELSE maxSize[d]
  IN
  /\ ~failed /\ transfer[d] = "inspect"
  /\ IF From(e) = None /\ Producer(e) # None
     THEN Fail /\ UNCHANGED <<transfer, edge, maxSize, limit, edgeFetched>>
     ELSE /\ edgeFetched' = [edgeFetched EXCEPT ![e] = IF From(e) = d THEN Size(e) ELSE @]
          /\ maxSize' = [maxSize EXCEPT ![d] = larger]
          /\ limit' = [limit EXCEPT ![o] = IF edge[d] = Len(Inputs(o)) THEN larger ELSE @]
          /\ NextEdge(d, "sub")
          /\ UNCHANGED failed
  /\ UNCHANGED <<queue, at, process, where, edgeSize, dataSize, fetched,
                 present, right, processed, good, ended, late>>

IsInitialized(d) == transfer[d] \in {"sub", "copy", "done"}

\* The morsel in hand comes from elsewhere and has not come yet.
ToFetch(d, e) == edgeFetched[e] < Size(e) /\ From(e) # d

\* Mutant: one morsel too many.
MoreToFetchYet(d) == fetched[at[d]] <= limit[at[d]]

MoreToFetch(d) == fetched[at[d]] < limit[at[d]]

\* After the last edge of a morsel the operation's fetched_until goes on.
Fetched(d) ==
  fetched' = [fetched EXCEPT ![at[d]] = IF edge[d] = Len(Inputs(at[d])) THEN @ + 1 ELSE @]

TransferEnds(d) ==
  /\ ~failed /\ transfer[d] = "sub" /\ edge[d] = 1 /\ ~MoreToFetch(d)
  /\ transfer' = [transfer EXCEPT ![d] = "done"]
  /\ UNCHANGED <<queue, at, process, edge, maxSize, where, edgeSize, dataSize, limit, fetched,
                 edgeFetched, present, right, processed, good, ended, late, failed>>

\* create_sub_buffer, from now on present under its name and still empty.
SubBuffer(d) ==
  LET o == at[d]
      e == <<o, edge[d]>>
      m == fetched[o]
  IN
  /\ ~failed /\ transfer[d] = "sub" /\ MoreToFetch(d) /\ ToFetch(d, e)
  /\ IF m >= dataSize[o]
     THEN Fail /\ UNCHANGED <<transfer, present>>
     ELSE /\ present' = [present EXCEPT ![e] = @ \cup {m}]
          /\ transfer' = [transfer EXCEPT ![d] = "copy"]
          /\ UNCHANGED failed
  /\ UNCHANGED <<queue, at, process, edge, maxSize, where, edgeSize, dataSize, limit, fetched,
                 edgeFetched, right, processed, good, ended, late>>

\* copy_data_from_memory, copy_data_from_device_memory: what has been computed
\* so far.  Reading behind the buffer of the other device is an error.
Copy(d) ==
  LET o == at[d]
      e == <<o, edge[d]>>
      p == Producer(e)
      m == fetched[o]
  IN
  /\ ~failed /\ transfer[d] = "copy"
  /\ IF p # None /\ m >= ResultSize(p)
     THEN Fail /\ UNCHANGED <<transfer, edge, fetched, edgeFetched, right>>
     ELSE /\ right' = [right EXCEPT ![e] =
                         IF p = None \/ Source(p, m) \subseteq good[p] THEN @ \cup {m} ELSE @]
          /\ edgeFetched' = [edgeFetched EXCEPT ![e] = m + 1]
          /\ edge' = [edge EXCEPT ![d] = IF @ = Len(Inputs(o)) THEN 1 ELSE @ + 1]
          /\ transfer' = [transfer EXCEPT ![d] = "sub"]
          /\ Fetched(d)
          /\ UNCHANGED failed
  /\ UNCHANGED <<queue, at, process, maxSize, where, edgeSize, dataSize, limit,
                 present, processed, good, ended, late>>

\* Nothing to fetch at this edge.
SkipEdge(d) ==
  LET o == at[d] IN
  /\ ~failed /\ transfer[d] = "sub" /\ MoreToFetch(d) /\ ~ToFetch(d, <<o, edge[d]>>)
  /\ NextEdge(d, "sub")
  /\ Fetched(d)
  /\ UNCHANGED <<queue, at, process, maxSize, where, edgeSize, dataSize, limit,
                 edgeFetched, present, right, processed, good, ended, late, failed>>

-----------------------------------------------------------------------------
(* process_data.                                                           *)

\* Whether the sub buffer of morsel m is there: copied, or that of the operation
\* of this device that made it.
IsPresent(d, e, m) ==
  IF From(e) = d THEN m * Width(Producer(e)) < processed[Producer(e)] ELSE m \in present[e]

\* Mutants: a morsel is there as soon as its sub buffers are; only when the next
\* one is, too.
AvailablePresent(d, m) == \A e \in EdgesInto(at[d]) : IsPresent(d, e, m)

AvailableBehind(d, m) ==
  /\ \A e \in EdgesInto(at[d]) : IsPresent(d, e, m)
  /\ m + 1 < fetched[at[d]]

Available(d, m) ==
  /\ \A e \in EdgesInto(at[d]) : IsPresent(d, e, m)
  /\ m < fetched[at[d]]

IsRight(d, e, m) ==
  IF From(e) = d THEN Source(Producer(e), m) \subseteq good[Producer(e)] ELSE m \in right[e]

\* The kernel, which the device has finished when execute returns.
ProcessMorsel(d) ==
  LET o == at[d]
      m == processed[o]
  IN
  /\ ~failed /\ process[d] = "run" /\ IsInitialized(d)
  /\ m < limit[o] /\ m < dataSize[o] /\ Available(d, m)
  /\ good' = [good EXCEPT ![o] =
                IF \A e \in EdgesInto(o) : IsRight(d, e, m) THEN @ \cup {m} ELSE @]
  /\ processed' = [processed EXCEPT ![o] = m + 1]
  /\ UNCHANGED <<queue, at, transfer, process, edge, maxSize, where, edgeSize, dataSize,
                 limit, fetched, edgeFetched, present, right, ended, late, failed>>

\* The result buffer is too small for the sub buffer of the next morsel.
ProcessFails(d) ==
  LET o == at[d] IN
  /\ ~failed /\ process[d] = "run" /\ IsInitialized(d)
  /\ processed[o] < limit[o] /\ processed[o] >= dataSize[o]
  /\ Fail
  /\ UNCHANGED <<queue, at, transfer, process, edge, maxSize, where, edgeSize, dataSize, limit,
                 fetched, edgeFetched, present, right, processed, good, ended, late>>

ProcessEnds(d) ==
  LET o == at[d] IN
  /\ ~failed /\ process[d] = "run" /\ IsInitialized(d) /\ processed[o] >= limit[o]
  /\ process' = [process EXCEPT ![d] = "done"]
  /\ ended' = ended \cup {o}
  /\ UNCHANGED <<queue, at, transfer, edge, maxSize, where, edgeSize, dataSize, limit,
                 fetched, edgeFetched, present, right, processed, good, late, failed>>

-----------------------------------------------------------------------------
Transfers(d) ==
  Name(d) \/ SetSize(d) \/ Inspect(d) \/ SubBuffer(d) \/ Copy(d) \/ SkipEdge(d) \/ TransferEnds(d)
Processes(d) == ProcessMorsel(d) \/ ProcessFails(d) \/ ProcessEnds(d)
Executes(d) == Pop(d) \/ Take(d) \/ Join(d)

Next == \E d \in Devices : Executes(d) \/ Transfers(d) \/ Processes(d)

\* The threads of a device run; process_data spins without stopping the others.
Fairness ==
  \A d \in Devices :
    WF_vars(Executes(d)) /\ WF_vars(Transfers(d)) /\ WF_vars(Processes(d))

Spec == Init /\ [][Next]_vars /\ Fairness

-----------------------------------------------------------------------------
(* Properties.                                                             *)

TypeOK ==
  /\ queue \in Seq(Operations)
  /\ at \in [Devices -> Operations \cup {None}]
  /\ transfer \in [Devices -> {"none", "take", "name", "size", "inspect", "sub", "copy", "done"}]
  /\ process \in [Devices -> {"none", "run", "done"}]
  /\ edge \in [Devices -> {1, 2}]
  /\ maxSize \in [Devices -> 0..Rows]
  /\ where \in [Operations -> Devices \cup {None}]
  /\ edgeSize \in [Operations -> 0..Rows] /\ dataSize \in [Operations -> 0..Rows]
  /\ limit \in [Operations -> 0..Rows]
  /\ fetched \in [Operations -> 0..Rows] /\ edgeFetched \in [Edges -> 0..Rows]
  /\ present \in [Edges -> SUBSET (0..(Rows - 1))] /\ right \in [Edges -> SUBSET (0..(Rows - 1))]
  /\ processed \in [Operations -> 0..Rows] /\ good \in [Operations -> SUBSET (0..(Rows - 1))]
  /\ ended \subseteq Operations /\ late \subseteq Operations
  /\ failed \in BOOLEAN

\* Morsels of an operation, as the table has them.
TrueSize(o) == IF IsSelection(o) THEN Rows ELSE Rows \div Pack

\* Neither the operation nor one before it in the chain was taken too early.
InTime(o) == \A p \in late : p > o

\* While operations are taken only after those they read, no buffer is missed or
\* too small; and an operation that has ended, and up to which all were taken in
\* time, has computed all its morsels from right inputs, whatever the late ones
\* after it do: the transfer of a morsel and its processing, two threads with no
\* lock between them, keep their order (data_parallelism.h:475-640).
TimelyResultsAreRight ==
  /\ late = {} => ~failed
  /\ \A o \in ended : InTime(o) => good[o] = 0..(TrueSize(o) - 1)

\* A size that was read too early does not go unnoticed: an operation, however
\* late, ends with as many morsels as it should have or does not end.  The size
\* of an edge is that of the rows until its operation sets the packed one
\* (data_parallelism.h:560), and what reads it in between goes on to morsels that
\* do not exist: it must spin for them or fail, never take them for done.
EndedAreWhole == \A o \in ended : processed[o] = TrueSize(o)

\* What is timely comes to its end, in spite of two threads that wait for each
\* other's fields.
TimelyOperationsEnd == <>(late # {} \/ ended = Operations)
=============================================================================
