---------------------------- MODULE BarrierTree ----------------------------
(***************************************************************************)
(* HierarchicBarrier::create and destroy: the tree of barriers for a       *)
(* number of threads.  A barrier is <<level, place>>; the threads are      *)
(* level 0, and the barriers create returns are level 1.                   *)
(***************************************************************************)
EXTENDS Integers

CONSTANT threadsPerBarrier

ASSUME FanInAssumption == threadsPerBarrier \in Nat \ {0, 1}

\* The barriers for n threads: full ones, and one for the rest.
NrBarriersFull(n) == n \div threadsPerBarrier

NrBarriers(n) ==
  NrBarriersFull(n) + (IF n % threadsPerBarrier > 0 THEN 1 ELSE 0)

\* The calls of create for a group of the given size: the l-th one arranges
\* Width(size)[l] threads or barriers, and makes the barriers of level l + 1.
Width(size) ==
  LET width[l \in 0..size] ==
        IF l = 0 THEN size ELSE NrBarriers(width[l - 1])
  IN  width

\* The recursion ends at the first call that needs one barrier only.
Height(size) ==
  CHOOSE l \in 1..size :
    /\ Width(size)[l - 1] <= threadsPerBarrier
    /\ \A k \in 1..l - 1 : Width(size)[k - 1] > threadsPerBarrier

Level(size, l) == {<<l, i>> : i \in 1..Width(size)[l]}

Tree(size) == UNION {Level(size, l) : l \in 1..Height(size)}

TreeRoot(size) == <<Height(size), 1>>

\* The constructor's nrThreads
Capacity(size, b) ==
  LET arranged == Width(size)[b[1] - 1] IN
  IF b[2] <= NrBarriersFull(arranged) THEN threadsPerBarrier
                                      ELSE arranged % threadsPerBarrier

\* Mutant of ParentLevel: the barrier for the rest gets the parent of the full
\* ones before it.
ParentOfFull(size, b) ==
  LET arranged == Width(size)[b[1] - 1]
      full     == NrBarriersFull(arranged)
  IN  <<b[1] + 1, IF full = 0 THEN 1
                  ELSE ((IF b[2] <= full THEN b[2] ELSE full) - 1)
                         \div threadsPerBarrier + 1>>

\* The constructor's p, for a barrier that is not the root: full barriers fill
\* the level above from the front, the one for the rest gets its last barrier.
ParentLevel(size, b) ==
  LET arranged == Width(size)[b[1] - 1]
      full     == b[2] <= NrBarriersFull(arranged)
  IN  <<b[1] + 1, IF full THEN (b[2] - 1) \div threadsPerBarrier + 1
                          ELSE Width(size)[b[1] + 1]>>

\* The threads of a group, as level 0, and the barriers run gives them: the
\* workers fill one after the other, the caller gets the last one.
GroupThreads(size) == {<<0, i>> : i \in 1..size}

BarrierOfThread(size, i) ==
  <<1, IF i = size THEN Width(size)[1] ELSE (i - 1) \div threadsPerBarrier + 1>>

\* Where wait goes from a thread or a barrier, and what the barriers count.
GroupParent(size) ==
  [n \in (GroupThreads(size) \cup Tree(size)) \ {TreeRoot(size)} |->
     IF n[1] = 0 THEN BarrierOfThread(size, n[2]) ELSE ParentLevel(size, n)]

GroupCount(size) == [b \in Tree(size) |-> Capacity(size, b)]

\* Mutant of Collected: the parent of every barrier is collected.
CollectedTwice(size, l) ==
  [k \in 1..Width(size)[l] |-> ParentLevel(size, <<l, k>>)]

\* destroy looks at every threadsPerBarrier-th barrier of a level to find the
\* level above: the parents it collects, in order.
Collected(size, l) ==
  [k \in 1..NrBarriers(Width(size)[l]) |->
     ParentLevel(size, <<l, (k - 1) * threadsPerBarrier + 1>>)]
=============================================================================
