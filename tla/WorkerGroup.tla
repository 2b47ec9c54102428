---------------------------- MODULE WorkerGroup ----------------------------
(***************************************************************************)
(* WorkerGroup::run: the caller builds the tree of barriers, starts a      *)
(* worker for every place but the last, takes the last place itself, and   *)
(* takes the tree down when all workers have ended.  What they do meanwhile*)
(* is in HierarchicBarrier.                                                *)
(***************************************************************************)
EXTENDS BarrierTree, Sequences, FiniteSets

CONSTANT MaxSize     \* bound on the number of threads

ASSUME MaxSizeAssumption == MaxSize \in Nat \ {0}

VARIABLES
  groupSize,
  groupStage,  \* where run is
  group,       \* the barrier, counted from 1, that the next worker gets
  threads,     \* the barrier of each thread of the group so far
  these,       \* the level that destroy is called with
  freed        \* how often each barrier was freed

groupVars == <<groupSize, groupStage, group, threads, these, freed>>

GroupInit ==
  /\ groupSize \in 1..MaxSize
  /\ groupStage = "spawn"
  /\ group = 0
  /\ threads = <<>>
  /\ these = [i \in 1..Width(groupSize)[1] |-> <<1, i>>]
  /\ freed = [b \in Tree(groupSize) |-> 0]

\* Mutant of Spawn: every worker gets a barrier of its own.
SpawnAlone ==
  LET i == Len(threads) IN
  /\ groupStage = "spawn" /\ i < groupSize - 1
  /\ group' = group + 1
  /\ threads' = Append(threads, <<1, group'>>)
  /\ UNCHANGED <<groupSize, groupStage, these, freed>>

\* One round of the loop of run.
Spawn ==
  LET i == Len(threads) IN
  /\ groupStage = "spawn" /\ i < groupSize - 1
  /\ group' = IF i % threadsPerBarrier = 0 THEN group + 1 ELSE group
  /\ threads' = Append(threads, <<1, group'>>)
  /\ UNCHANGED <<groupSize, groupStage, these, freed>>

\* The caller joins as the last worker.
Join ==
  /\ groupStage = "spawn" /\ Len(threads) = groupSize - 1
  /\ threads' = Append(threads, <<1, Width(groupSize)[1]>>)
  /\ groupStage' = "run"
  /\ UNCHANGED <<groupSize, group, these, freed>>

\* f returns, and so does g.wait.
AllEnded ==
  /\ groupStage = "run"
  /\ groupStage' = "destroy"
  /\ UNCHANGED <<groupSize, group, threads, these, freed>>

Times(seq, x) == Cardinality({k \in DOMAIN seq : seq[k] = x})

\* One call of destroy: collect the parents, free this level, and go on with
\* the parents, or free the only one.  The root has none, and free(nullptr)
\* does nothing.
Destroy ==
  LET parents == IF these[1] = TreeRoot(groupSize) THEN <<>>
                 ELSE Collected(groupSize, these[1][1])
      goOn    == Len(parents) > 1
  IN
  /\ groupStage = "destroy"
  /\ freed' = [b \in Tree(groupSize) |->
       freed[b] + Times(these, b) + (IF goOn THEN 0 ELSE Times(parents, b))]
  /\ these' = IF goOn THEN parents ELSE these
  /\ groupStage' = IF goOn THEN "destroy" ELSE "end"
  /\ UNCHANGED <<groupSize, group, threads>>

GroupNext == Spawn \/ Join \/ AllEnded \/ Destroy

GroupSpec == GroupInit /\ [][GroupNext]_groupVars

-----------------------------------------------------------------------------

GroupTypeOK ==
  /\ groupSize \in 1..MaxSize
  /\ groupStage \in {"spawn", "run", "destroy", "end"}
  /\ group \in 0..MaxSize
  /\ threads \in Seq(Level(groupSize, 1)) /\ Len(threads) <= groupSize
  /\ these \in Seq(Tree(groupSize))
  /\ freed \in [Tree(groupSize) -> Nat]

\* Every barrier waits for as many as will come to it: the threads that run
\* gave it, or the barriers create hung under it.  One too many or one too few
\* anywhere and the group hangs (Barrier.hpp:63-86 against
\* Concurrency.hpp:82-115, which number the barriers independently).
BarriersAreFilled ==
  groupStage = "run" =>
    \A b \in Tree(groupSize) :
      Capacity(groupSize, b) =
        IF b[1] = 1 THEN Times(threads, b)
        ELSE Cardinality({c \in Level(groupSize, b[1] - 1) : ParentLevel(groupSize, c) = b})

\* destroy, which walks the tree by stride, frees every barrier of every level
\* once (Barrier.hpp:91-99).
EveryBarrierIsFreedOnce ==
  /\ \A b \in Tree(groupSize) : freed[b] <= 1
  /\ groupStage = "end" => \A b \in Tree(groupSize) : freed[b] = 1
=============================================================================
