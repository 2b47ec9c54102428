------------------------------- MODULE Query6 -------------------------------
(***************************************************************************)
(* query_6: three selections, two conjunctions, two materialisations, a    *)
(* product and a sum over the columns of lineitem, by the kernels of the   *)
(* OpenCL layer or by the primitives of the C++ layer.                     *)
(*                                                                         *)
(* A kernel whose work items write only words of their own is one step;    *)
(* the items of aggregate_block add to one word and are steps of their own.*)
(* A word that holds a bitmap is the set of its bits, any other a number   *)
(* below 2^Block.  QueryGraph has the order and the placement of kernels.  *)
(***************************************************************************)
EXTENDS Integers, Sequences

CONSTANTS
  Block,          \* 32: the bits of a word, and the rows of one word of a bitmap
  Tables,         \* what lineitem may hold: sequences of rows
  Layers,         \* values of execution_environment: 0 OpenCL, 1 C++
  c1, c2,         \* 1994-01-01 and 1995-01-01, in days
  c3, c4,         \* 0.05 and 0.07 in hundredths
  c5,             \* 24
  Scale           \* 100: a Numeric<12, 2> counts hundredths

Bits == 0..(Block - 1)
Word == 0..(2^Block - 1)

\* The low halves of the numbers are all that is read (AsInts).  That 2^Block is
\* a number is said for the provers, which do not know of ^.
ASSUME Query6Assumption ==
  /\ Block \in Nat \ {0} /\ Block % 2 = 0
  /\ 2^Block \in Nat \ {0}
  /\ Layers \subseteq {0, 1}
  /\ \A t \in Tables :
       t \in Seq([shipdate : Word, discount : Word, quantity : Word, extendedprice : Word])

VARIABLES
  lineitem, layer,
  place,          \* how many kernels of Queue have ended
  pending,        \* the work items of aggregate_block that have not
  bitmap,         \* the outputs of the selections and conjunctions
  words,          \* the outputs of the materialisations and the product
  revenue,        \* the first word of the output of aggregate_block
  results         \* what display_result fetched

queryVars == <<lineitem, layer, place, pending, bitmap, words, revenue, results>>

\* data_scan has whole blocks of rows only.
RowsRead == Len(lineitem) - (Len(lineitem) % Block)
Blocks == 1..(RowsRead \div Block)
Positions == 1..RowsRead

\* In a vector of T, data<int>() is an array of int whatever T is: a Date is
\* one of them, a Numeric two, the lower half first.
AsInts(column) ==
  [k \in 1..(2 * Len(column)) |-> IF k % 2 = 1 THEN column[(k + 1) \div 2] ELSE 0]

Column(name) ==
  LET values == [r \in DOMAIN lineitem |-> lineitem[r][name]]
  IN  IF name = "shipdate" THEN values ELSE AsInts(values)

\* The comparisons of the C++ layer are of int, those of OpenCL of unsigned int.
Number(w) == IF layer = 1 /\ w >= 2^(Block - 1) THEN w - 2^Block ELSE w

Between(x, low, high) == Number(low) <= Number(x) /\ Number(high) < Number(x)
LessThan(x, high) == Number(x) < Number(high)

Passes(k, p) ==
  CASE k = "s1" -> Between(Column("shipdate")[p], c1, c2)
    [] k = "s2" -> Between(Column("discount")[p], c3, c4)
    [] k = "s3" -> LessThan(Column("quantity")[p], c5)

Selections == {"s1", "s2", "s3"}
Anded(l)  == IF l = "l1" THEN <<"s1", "s3">> ELSE <<"l1", "s2">>
Base(m)    == IF m = "m1" THEN "discount" ELSE "extendedprice"

\* A topological order of the graph of query_6.
Queue == <<"s1", "s2", "s3", "l1", "l2", "m1", "m2", "a", "end", "ag">>

Row(p) == (p - 1) % Block          \* the bit of a position in its block
BlockOf(p) == 1 + (p - 1) \div Block

QueryInit ==
  /\ lineitem \in Tables /\ layer \in Layers
  /\ place = 0 /\ pending = Blocks
  /\ bitmap = [k \in Selections \cup {"l1", "l2"} |-> [w \in Positions |-> {}]]
  /\ words = [k \in {"m1", "m2", "a"} |-> [p \in Positions |-> 0]]
  /\ revenue = 0 /\ results = <<>>

Starts(k) == place < Len(Queue) /\ Queue[place + 1] = k

\* Mutant of Selected: the first row of a block is its highest bit.
SelectedReversed(k, j) ==
  {i \in Bits : Passes(k, Block * (j - 1) + Block - i)}

\* Item j of a selection: bit i is row i of the block.
Selected(k, j) == {i \in Bits : Passes(k, Block * (j - 1) + i + 1)}

\* One item for every block: the words behind stay 0, as calloc left them.
Select(k) ==
  /\ Starts(k)
  /\ bitmap' = [bitmap EXCEPT ![k] =
                  [w \in Positions |-> IF w \in Blocks THEN Selected(k, w) ELSE {}]]
  /\ place' = place + 1
  /\ UNCHANGED <<lineitem, layer, pending, words, revenue, results>>

\* logical_block, with an item for every word of the buffers.
And(l) ==
  /\ Starts(l)
  /\ bitmap' = [bitmap EXCEPT ![l] =
       [w \in Positions |-> bitmap[Anded(l)[1]][w] \cap bitmap[Anded(l)[2]][w]]]
  /\ place' = place + 1
  /\ UNCHANGED <<lineitem, layer, pending, words, revenue, results>>

\* (bm & (1 << i)) >> i: of an int, as in the C++ layer, the sign bit comes
\* down as -1.
Flag(bm, i) ==
  IF i \notin bm THEN 0 ELSE IF layer = 1 /\ i = Block - 1 THEN -1 ELSE 1

Materialize(m) ==
  /\ Starts(m)
  /\ words' = [words EXCEPT ![m] = [p \in Positions |->
       (Flag(bitmap["l2"][BlockOf(p)], Row(p)) * Column(Base(m))[p]) % 2^Block]]
  /\ place' = place + 1
  /\ UNCHANGED <<lineitem, layer, pending, bitmap, revenue, results>>

Multiply ==
  /\ Starts("a")
  /\ words' = [words EXCEPT !["a"] = [p \in Positions |->
       (words["m1"][p] * words["m2"][p]) % 2^Block]]
  /\ place' = place + 1
  /\ UNCHANGED <<lineitem, layer, pending, bitmap, revenue, results>>

\* The graph leads the products to the end, and the sum nowhere.
Display ==
  /\ Starts("end")
  /\ results' = words["a"]
  /\ place' = place + 1
  /\ UNCHANGED <<lineitem, layer, pending, bitmap, words, revenue>>

\* The sum of the first n values of f, in the order of the loop.
SumUpTo(f, n) ==
  LET sum[i \in 0..n] == IF i = 0 THEN 0 ELSE sum[i - 1] + f[i]
  IN  sum[n]

\* The private sum of item j.
SumOf(j) == SumUpTo([i \in 1..Block |-> words["a"][Block * (j - 1) + i]], Block)

\* atomic_add, or += on the host.
Add(j) == revenue' = (revenue + SumOf(j)) % 2^Block

\* The items of OpenCL run in any order, the loop of the host from the first.
Aggregate ==
  /\ Starts("ag") /\ pending # {}
  /\ \E j \in pending :
       /\ layer = 1 => \A i \in pending : j <= i
       /\ Add(j)
       /\ pending' = pending \ {j}
  /\ UNCHANGED <<lineitem, layer, place, bitmap, words, results>>

EndQuery ==
  /\ Starts("ag") /\ pending = {}
  /\ place' = place + 1
  /\ UNCHANGED <<lineitem, layer, pending, bitmap, words, revenue, results>>

QueryNext ==
  \/ \E k \in Selections : Select(k)
  \/ \E l \in {"l1", "l2"} : And(l)
  \/ \E m \in {"m1", "m2"} : Materialize(m)
  \/ Multiply \/ Display \/ Aggregate \/ EndQuery

Query6Spec == QueryInit /\ [][QueryNext]_queryVars

-----------------------------------------------------------------------------
Finished == place = Len(Queue)

QueryTypeOK ==
  /\ layer \in Layers
  /\ place \in 0..Len(Queue) /\ pending \subseteq Blocks
  /\ bitmap \in [Selections \cup {"l1", "l2"} -> [Positions -> SUBSET Bits]]
  /\ words \in [{"m1", "m2", "a"} -> [Positions -> Word]]
  /\ revenue \in Word

\* What a position contributes, with the tests of the kernels.
Contribution(p) ==
  IF \A k \in Selections : Passes(k, p)
  THEN (Column("discount")[p] * Column("extendedprice")[p]) % 2^Block
  ELSE 0

\* What is shown are the products of the positions that pass all tests, in
\* their places, and 0 elsewhere, in both layers: the bits of three bitmaps
\* lead back to the rows they came from, and the row that the C++ layer would
\* negate, the last of a block (primitives.cpp:90), holds an upper half.  The
\* sum on the device is the one over all blocks, whatever the order the work
\* items add in (aggregate_block.cl:10).
AnswersAreRight ==
  /\ results # <<>> => results = [p \in Positions |-> Contribution(p)]
  /\ Finished => revenue = SumUpTo([p \in Positions |-> Contribution(p)], RowsRead) % 2^Block

\* The statement of the query (query6.cpp:15-23), for the rows that are read.
Documented(row) ==
  /\ row.shipdate >= c1 /\ row.shipdate < c2
  /\ row.discount >= c3 /\ row.discount <= c4
  /\ row.quantity < Scale * c5

\* "sum(l_extendedprice * l_discount) as revenue" (query6.cpp:16) is the
\* answer to the query as its comment states it.
RevenueIsAsDocumented ==
  Finished =>
    revenue = SumUpTo(
                [p \in Positions |-> IF Documented(lineitem[p])
                                     THEN lineitem[p].discount * lineitem[p].extendedprice
                                     ELSE 0],
                RowsRead) % 2^Block
=============================================================================
