------------------------ MODULE MCHierarchicBarrier ------------------------
(* The tree that create builds for a small group.                          *)
EXTENDS HierarchicBarrier, BarrierTree

CONSTANT size        \* of the group

MCThreads == GroupThreads(size)

MCBarriers == Tree(size)

MCRoot == TreeRoot(size)

MCParent == GroupParent(size)

MCThreadCount == GroupCount(size)

MCBelow ==
  LET below[l \in 0..Height(size)] ==
        [i \in 1..Width(size)[l] |->
           {<<l, i>>} \cup
             IF l = 0 THEN {}
             ELSE UNION {below[l - 1][n[2]] :
                    n \in {n \in DOMAIN MCParent : MCParent[n] = <<l, i>>}}]
  IN  [n \in MCThreads \cup MCBarriers |-> below[n[1]][n[2]]]
=============================================================================
