----------------------------- MODULE HashJoin -----------------------------
(***************************************************************************)
(* query_hashJoin: the kernel hashBuild fills a table, then hashProbe      *)
(* looks the probe side up in it.  BuildParts and ProbeParts stand for the *)
(* 96 and the 64 in the kernels, Ratio for the 32 that execute_node        *)
(* divides the input size by to get the number of work items: the kernels  *)
(* never see that number, and nothing makes the three agree.               *)
(*                                                                         *)
(* The work items of hashBuild run at the same time; a test of a slot and  *)
(* the write to it are two steps.  What lies behind a buffer has any       *)
(* value, and a write there is a write to something else.                  *)
(***************************************************************************)
EXTENDS Integers, FiniteSets

CONSTANTS
  BuildArrays, ProbeArrays,   \* the inputs: sets of functions on 0..(n - 1)
  Values,
  BuildParts, ProbeParts, Ratio

Size(array) == Cardinality(DOMAIN array)

ASSUME HashJoinAssumption ==
  /\ Values \subseteq Nat /\ 0 \in Values
  /\ \A a \in BuildArrays \cup ProbeArrays :
       /\ IsFiniteSet(DOMAIN a) /\ DOMAIN a = 0..(Size(a) - 1) /\ Size(a) > 0
       /\ a \in [DOMAIN a -> Values]
  /\ {BuildParts, ProbeParts, Ratio} \subseteq Nat
  /\ BuildParts > 0 /\ ProbeParts > 0 /\ Ratio > 0

VARIABLES
  build, probe,   \* the input buffers
  table,          \* result of hashBuild, which starts as zeros
  result,         \* of hashProbe
  phase,
  at, turn, tries,   \* of the work items of hashBuild: where, i and j
  left            \* the work items of hashProbe that have not run

joinVars == <<build, probe, table, result, phase, at, turn, tries, left>>

Max2(m, n) == IF m > n THEN m ELSE n

\* The global size of a kernel.
Items(inputSize) == 0..((inputSize \div Ratio) - 1)

\* node.input_size is the size of the larger input.
probeInputSize == Max2(Size(build), Size(probe))

\* input_size / 96, the keys of one work item, and its slots.
Length == Size(build) \div BuildParts
Segment(g) == (Length * g)..(Length * g + Length - 1)

NotFound == -1    \* of the unsigned buffer: its largest value

JoinInit ==
  /\ build \in BuildArrays /\ probe \in ProbeArrays
  /\ table = [s \in 0..(Size(build) - 1) |-> 0]
  /\ result = [s \in 0..(probeInputSize - 1) |-> 0]
  /\ phase = "build"
  /\ at = [g \in Items(Size(build)) |-> "test"]
  /\ turn = [g \in Items(Size(build)) |-> 0]
  /\ tries = [g \in Items(Size(build)) |-> 0]
  /\ left = Items(probeInputSize)

-----------------------------------------------------------------------------
(* hashBuild.                                                              *)

Works(g) == phase = "build" /\ g \in DOMAIN turn /\ turn[g] < Length

\* input[inpOffset + i], perhaps from behind the buffer.
Inputs(g) ==
  LET p == Length * g + turn[g] IN IF p \in DOMAIN build THEN {build[p]} ELSE Values

\* hf: the slot at which the search has arrived.  It starts at the key's place
\* and runs straight on.
Slot(g, k) == (k % Length) + Length * g + tries[g]

\* What a test of a slot may read.
Seen(s) == IF s \in DOMAIN table THEN {table[s]} ELSE Values

\* The next key of the work item.
NextKey(g) ==
  /\ turn' = [turn EXCEPT ![g] = @ + 1]
  /\ tries' = [tries EXCEPT ![g] = 0]

\* The slot is free.
TestFree(g) ==
  /\ Works(g) /\ at[g] = "test"
  /\ \E k \in Inputs(g) : 0 \in Seen(Slot(g, k))
  /\ at' = [at EXCEPT ![g] = "write"]
  /\ UNCHANGED <<build, probe, table, result, phase, turn, tries, left>>

\* It is taken: the next one, until all have been tried; then the key is lost.
\* Mutant: one slot too few is tried.
TestTakenEarly(g) ==
  /\ Works(g) /\ at[g] = "test"
  /\ \E k \in Inputs(g) : \E v \in Seen(Slot(g, k)) : v > 0
  /\ IF tries[g] + 2 < Length
     THEN tries' = [tries EXCEPT ![g] = @ + 1] /\ UNCHANGED turn
     ELSE NextKey(g)
  /\ UNCHANGED <<build, probe, table, result, phase, at, left>>

TestTaken(g) ==
  /\ Works(g) /\ at[g] = "test"
  /\ \E k \in Inputs(g) : \E v \in Seen(Slot(g, k)) : v > 0
  /\ IF tries[g] + 1 < Length
     THEN tries' = [tries EXCEPT ![g] = @ + 1] /\ UNCHANGED turn
     ELSE NextKey(g)
  /\ UNCHANGED <<build, probe, table, result, phase, at, left>>

\* A write behind the buffer leaves the table alone.
Write(g) ==
  /\ Works(g) /\ at[g] = "write"
  /\ \E k \in Inputs(g) :
       table' = [s \in DOMAIN table |-> IF s = Slot(g, k) THEN k ELSE table[s]]
  /\ at' = [at EXCEPT ![g] = "test"]
  /\ NextKey(g)
  /\ UNCHANGED <<build, probe, result, phase, left>>

\* The next kernel starts when all work items have come to their end.
EndBuild ==
  /\ phase = "build" /\ \A g \in DOMAIN turn : turn[g] = Length
  /\ phase' = "probe"
  /\ UNCHANGED <<build, probe, table, result, at, turn, tries, left>>

-----------------------------------------------------------------------------
(* hashProbe.                                                              *)

\* The first slot with the key.  Mutants: a search in vain leaves the slot it came
\* to; the last slot is not looked at.
FindPast(k) ==
  LET found == {s \in DOMAIN table : table[s] = k}
  IN  IF found = {} THEN Size(build) ELSE CHOOSE s \in found : \A t \in found : s <= t

FindShort(k) ==
  LET found == {s \in DOMAIN table : s < Size(build) - 1 /\ table[s] = k}
  IN  IF found = {} THEN NotFound ELSE CHOOSE s \in found : \A t \in found : s <= t

Find(k) ==
  LET found == {s \in DOMAIN table : table[s] = k}
  IN  IF found = {} THEN NotFound ELSE CHOOSE s \in found : \A t \in found : s <= t

ProbeLength == Size(probe) \div ProbeParts
Reach(g) == (ProbeLength * g)..(ProbeLength * g + ProbeLength - 1)

\* A work item as one step: it reads what no other writes, and writes positions
\* that are its own.
ProbeItem(g) ==
  /\ phase = "probe" /\ g \in left
  /\ \E behind \in [Reach(g) \ DOMAIN probe -> Values] :
       LET probed(p) == IF p \in DOMAIN probe THEN probe[p] ELSE behind[p] IN
       result' = [p \in DOMAIN result |-> IF p \in Reach(g) THEN Find(probed(p)) ELSE result[p]]
  /\ left' = left \ {g}
  /\ UNCHANGED <<build, probe, table, phase, at, turn, tries>>

JoinNext ==
  \/ \E g \in DOMAIN turn : TestFree(g) \/ TestTaken(g) \/ Write(g)
  \/ EndBuild
  \/ \E g \in left : ProbeItem(g)

JoinSpec == JoinInit /\ [][JoinNext]_joinVars

-----------------------------------------------------------------------------
(* Properties.                                                             *)

JoinTypeOK ==
  /\ build \in BuildArrays /\ probe \in ProbeArrays
  /\ table \in [0..(Size(build) - 1) -> Values]
  /\ result \in [0..(probeInputSize - 1) -> DOMAIN table \cup {NotFound}]
  /\ phase \in {"build", "probe"}
  /\ at \in [Items(Size(build)) -> {"test", "write"}]
  /\ turn \in [Items(Size(build)) -> 0..Length]
  /\ tries \in [Items(Size(build)) -> 0..Length]
  /\ left \subseteq Items(probeInputSize)

\* As many keys as parts and work items can hold, no fewer and no more.
BuildSizeFits == Size(build) = BuildParts * Length /\ Cardinality(Items(Size(build))) = BuildParts

\* Linear probing that does not wrap stays in a segment exactly if from every
\* slot on there are no more keys than slots.
KeepsToSegment(g) ==
  \A s \in 0..(Length - 1) :
    Cardinality({p \in Segment(g) : build[p] > 0 /\ build[p] % Length >= s}) <= Length - s

Regular == BuildSizeFits /\ \A g \in DOMAIN turn : KeepsToSegment(g)

\* No work item then looks at a slot of another: without an atomic operation,
\* this alone keeps the test and the write of a slot together.  So the table has
\* each key as often as the build side has it, in the segment of its work item,
\* whatever the order of the steps.
KeysAreKept ==
  Regular /\ phase = "probe" =>
    \A g \in DOMAIN turn : \A k \in Values \ {0} :
      Cardinality({s \in Segment(g) : table[s] = k})
        = Cardinality({p \in Segment(g) : build[p] = k})

\* The probe side is cut in parts without a rest, and there is a work item for
\* each of them.
ProbeSizeFits ==
  Size(probe) % ProbeParts = 0 /\ 0..(ProbeParts - 1) \subseteq Items(probeInputSize)

\* The result then tells for each position of the probe side whether the build
\* side has its key, and where the table has it, also when there are more work
\* items than parts.  For sizes that do not fit and segments that run over, too,
\* a slot other than 0 is one with the key; 0 may be the position that nobody
\* has probed.
JoinIsRight ==
  /\ Regular /\ ProbeSizeFits /\ phase = "probe" /\ left = {} =>
       \A p \in DOMAIN probe : probe[p] > 0 =>
         IF \E q \in DOMAIN build : build[q] = probe[p]
         THEN result[p] # NotFound /\ table[result[p]] = probe[p]
         ELSE result[p] = NotFound
  /\ \A p \in DOMAIN probe : result[p] > 0 => table[result[p]] = probe[p]
=============================================================================
