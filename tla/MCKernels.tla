----------------------------- MODULE MCKernels -----------------------------
(***************************************************************************)
(* The kernels of two queries, query_hashJoin and query_6, in one run: a   *)
(* behaviour is one of the query that Init chooses.                        *)
(*                                                                         *)
(* The join: three work items with two keys each, as main has 96 with 32.  *)
(* The probe side of four has a work item too many, as in main; the one of *)
(* five has a position that nobody probes; a build side of four is too     *)
(* short.  The keys of the last item may run behind the buffer or not.     *)
(* Query 6: two blocks of four rows, and a row in no block.                *)
(***************************************************************************)
EXTENDS HashJoin, Query6

CONSTANTS Top

MCValues == 0..Top
MCBuildArrays ==
  {b \in [0..5 -> MCValues] : b[4] \in {1, 2} /\ b[5] \in {2, 3}} \cup [0..3 -> MCValues]
MCProbeArrays == {[p \in 0..3 |-> p], [p \in 0..4 |-> (p + 1) % 3]}

\* A row passes all tests of the code, or only those of the statement, or not
\* that on the quantity; the product of the first overflows.
Items6 ==
  {[discount |-> d, quantity |-> q, extendedprice |-> p] :
     <<d, q, p>> \in {<<5, 1, 7>>, <<2, 1, 7>>, <<5, 3, 3>>, <<5, 1, 1>>}}

\* The columns of numbers are read from the first four rows, that of dates
\* from eight; 3 lies within the year, 5 behind it.
Table(items, dates) ==
  [r \in 1..9 |->
     LET item == IF r \in DOMAIN items THEN items[r] ELSE items[1] IN
     [shipdate |-> IF r \in DOMAIN dates THEN dates[r] ELSE 5,
      discount |-> item.discount, quantity |-> item.quantity,
      extendedprice |-> item.extendedprice]]

MCTables ==
  {Table(items, dates) : items \in [1..4 -> Items6], dates \in [{1, 3, 5, 7} -> {3, 5}]}

\* of any item
OneTable ==
  Table([r \in 1..4 |-> CHOOSE item \in Items6 : TRUE], [r \in {1} |-> 3])

VARIABLE part   \* the query that runs

kernelVars == <<joinVars, part, queryVars>>

JoinPart ==
  /\ part = "join"
  /\ lineitem = OneTable /\ layer = 0
  /\ QueryInit /\ JoinInit

QueryPart ==
  /\ part = "query"
  /\ build = [p \in 0..3 |-> 0] /\ probe = [p \in 0..3 |-> p]
  /\ JoinInit /\ QueryInit

KernelsNext ==
  \/ part = "join" /\ JoinNext /\ UNCHANGED <<queryVars, part>>
  \/ part = "query" /\ QueryNext /\ UNCHANGED <<joinVars, part>>

KernelsSpec == (JoinPart \/ QueryPart) /\ [][KernelsNext]_kernelVars

\* Query 6 alone.
StatementSpec == QueryPart /\ [][KernelsNext]_kernelVars

-----------------------------------------------------------------------------
\* The type invariants of both parts.
KernelsTypeOK == JoinTypeOK /\ QueryTypeOK
=============================================================================
