----------------------------- MODULE MCExchange -----------------------------
(***************************************************************************)
(* Two graphs for the exchange.  The tree is that of                       *)
(* test_heroDB_exchange_graphs (test_exchange_graph.cpp 67-75): two        *)
(* selections and a logical operation.  The test leaves data_pointer of    *)
(* its scan edges at 0; here they carry the keys 1 and 2 of its columns,   *)
(* as the queries under tpch_queries do.  The diamond has one selection    *)
(* that two materialisations read, as in query_6.                          *)
(***************************************************************************)
EXTENDS ExchangeExecutor

CONSTANTS gpu, cpu

MCStart == 0
MCEnd   == 1

TreeOperation == {2, 3, 4}
TreeEdge      == 1..5
TreeSource    == <<MCStart, MCStart, 2, 3, 4>>
TreeKey       == <<1, 2, 0, 0, 0>>
TreeInEdges   == [v \in TreeOperation \cup {MCStart, MCEnd} |->
                    CASE v = MCStart -> <<>>
                      [] v = 2       -> <<1>>
                      [] v = 3       -> <<2>>
                      [] v = 4       -> <<3, 4>>
                      [] v = MCEnd   -> <<5>>]

DiamondOperation == {2, 3, 4, 5}
DiamondEdge      == 1..8
DiamondSource    == <<MCStart, MCStart, MCStart, 2, 2, 3, 4, 5>>
DiamondKey       == <<1, 2, 3, 0, 0, 0, 0, 0>>
DiamondInEdges   == [v \in DiamondOperation \cup {MCStart, MCEnd} |->
                       CASE v = MCStart -> <<>>
                         [] v = 2       -> <<1>>
                         [] v = 3       -> <<2, 4>>
                         [] v = 4       -> <<3, 5>>
                         [] v = 5       -> <<6, 7>>
                         [] v = MCEnd   -> <<8>>]

TwoDevices == {gpu, cpu}

TwoColumns   == 1..2
ThreeColumns == 1..3
Fresh        == {0}

\* The first page of a fresh heap is zero, the descriptor of start_vertex, or
\* the memory was used before and holds some other number.
Heap     == {MCStart, NoVertex}
AnyHeap  == Vertex \cup {NoVertex}
=============================================================================
