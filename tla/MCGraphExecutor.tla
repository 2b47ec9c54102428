-------------------------- MODULE MCGraphExecutor --------------------------
(***************************************************************************)
(* The shape of query_6 (query6.cpp 158-188) in small: a selection on one  *)
(* column, two materialisations of other columns with the same selection,  *)
(* and an operation on both, whose result is displayed.                    *)
(***************************************************************************)
EXTENDS GraphExecutor

CONSTANTS gpu, cpu

MCStart == 0
MCEnd   == 1
select  == 2
mate1   == 3
mate2   == 4
arith   == 5

MCOperation == {select, mate1, mate2, arith}
MCColumns   == 1..3

\* edges in the order the query adds them
MCEdge   == 1..8
MCSource == <<MCStart, MCStart, MCStart, select, select, mate1, mate2, arith>>
MCKey    == <<1, 2, 3, 0, 0, 0, 0, 0>>
MCInEdges ==
  [v \in MCOperation \cup {MCStart, MCEnd} |->
     CASE v = MCStart -> <<>>
       [] v = select  -> <<1>>
       [] v = mate1   -> <<2, 4>>
       [] v = mate2   -> <<3, 5>>
       [] v = arith   -> <<6, 7>>
       [] v = MCEnd   -> <<8>>]

MCDevice == {gpu, cpu}

AllPlacements  == [MCOperation -> MCDevice]

BothLayers     == {0, 1}

\* counters that clear the three keys
SafeCounters == {0, 3, 8}
Fresh        == {0}
=============================================================================
