----------------------------- MODULE MCScanLoad -----------------------------
(***************************************************************************)
(* The second graph of query_1 (query1.cpp 268-478): fifteen columns, keys *)
(* 1 to 15, one scan edge for each, on eight aggregations.                 *)
(***************************************************************************)
EXTENDS ScanLoad, FiniteSets

CONSTANTS gpu, cpu

\* vertex descriptors as add_vertex gives them out: start, end, ag1 to ag8
MCStart     == 0
MCEnd       == 1
MCOperation == 2..9
MCColumns   == 1..15

\* edge k carries column k; edge 14 + v is the result of vertex v
MCEdge   == 1..23
MCSource == [e \in MCEdge |-> IF e <= 15 THEN MCStart ELSE e - 14]
MCKey    == [e \in MCEdge |-> IF e <= 15 THEN e ELSE 0]

\* ag2, vertex 3, is the only one with a single input
MCInEdges ==
  [v \in MCOperation \cup {MCStart, MCEnd} |->
     CASE v = MCStart -> <<>>
       [] v = MCEnd   -> [i \in 1..8 |-> 15 + i]
       [] v = 2       -> <<1, 2>>
       [] v = 3       -> <<3>>
       [] OTHER       -> <<2 * v - 4, 2 * v - 3>>]

MCDevice == {gpu, cpu}

\* What the counter holds after the first graph of query_1: seven columns
\* and one output of each of its seven operations.
AfterFirstGraph == {14}
=============================================================================
