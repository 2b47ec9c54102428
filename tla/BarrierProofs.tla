--------------------------- MODULE BarrierProofs ---------------------------
(***************************************************************************)
(* Proofs about HierarchicBarrier, for every tree of barriers whose        *)
(* counters start at the number of members, and every number of rounds,    *)
(* and about WorkerGroup, for every number of threads and every fan-in.    *)
(*                                                                         *)
(* A thread holds a barrier from the moment it was the last one there      *)
(* until it opens it.  Everything follows from one fact: below a barrier   *)
(* that is held, all other threads spin and have not been let go           *)
(* (HeldIsStill).                                                          *)
(*                                                                         *)
(* The tree of a group is a matter of division: the i-th of a level goes   *)
(* to the barrier (i - 1) \div threadsPerBarrier + 1 of the next, the      *)
(* barrier for the rest too (ParentIs), and a barrier counts a whole       *)
(* portion or the rest (CapacityIs).  That these barriers are a tree, as   *)
(* HierarchicBarrier assumes, is CreateBuildsATree.                        *)
(***************************************************************************)
EXTENDS HierarchicBarrier, WorkerGroup, Ranks, FiniteSetTheorems, WellFoundedInduction, TLAPS

\* The threads under a node
Under(n) == Below[n] \cap Threads

\* t runs the finalizer of b: b lies between t and what it stands for.
Holds(t, b) == b \in Barriers /\ t \in Below[b] /\ b \in Below[standsFor[t]]

\* t spins at a barrier that was not opened since it came.
Still(t) == pc[t] = "spin" /\ prevRound[t] = round[Meet(t)]

\* The barrier where t spins has been opened.
LetGo(t) == pc[t] = "spin" /\ prevRound[t] # round[Meet(t)]

\* t comes to its own barrier, or to one further up.
First(t) == pc[t] = "arrive" /\ standsFor[t] = t
Climbs(t) == \/ pc[t] \in {"climb", "reset", "finalize"}
             \/ pc[t] = "arrive" /\ standsFor[t] # t

\* Where a thread is and what it stands for fit together.
Places ==
  \A t \in Threads :
    /\ t \in Below[standsFor[t]]
    /\ pc[t] = "outside" => standsFor[t] = t
    /\ pc[t] \in {"climb", "finalize", "open"} => standsFor[t] \in Barriers
    /\ standsFor[t] = Root => pc[t] \in {"finalize", "open"}
    /\ pc[t] = "finalize" => standsFor[t] = Root
    /\ pc[t] = "arrive" => prevRound[t] = round[Meet(t)]

\* The counter of a barrier says who is missing, and who has come is there.
Counters ==
  \A b \in Barriers :
    /\ came[b] \subseteq Members(b)
    /\ cntr[b] = ThreadCount[b] - Cardinality(came[b])
    /\ \A n \in came[b] : \E t \in Threads :
         standsFor[t] = n /\ (Still(t) \/ pc[t] = "reset")

LastIsAlone ==
  \A t \in Threads : pc[t] = "reset" =>
    /\ came[Meet(t)] = Members(Meet(t))
    /\ \A u \in Threads : pc[u] = "reset" /\ Meet(u) = Meet(t) => u = t

HeldIsStill ==
  \A t \in Threads, b \in Barriers : Holds(t, b) =>
    /\ \A u \in Under(b) \ {t} : Still(u)
    /\ \A u \in Threads : Holds(u, b) => u = t
    /\ \A c \in Below[b] \cap Barriers : came[c] = {}

\* Who has arrived and who was released this round.
Rounds ==
  /\ arrived \cap released = {}
  /\ \A t \in Threads :
       /\ pc[t] = "outside" \/ First(t) => t \notin arrived \cup released
       /\ Climbs(t) => Under(standsFor[t]) \subseteq arrived
       /\ pc[t] = "open" \/ LetGo(t) => Under(standsFor[t]) \subseteq released
       /\ pc[t] = "open" => (result[t] <=> t = finalizer)
  /\ \A b \in Barriers : \A n \in came[b] : Under(n) \subseteq arrived
  /\ finalizer \in released => pc[finalizer] = "open"

IInv == TypeOK /\ Places /\ Counters /\ LastIsAlone /\ HeldIsStill /\ Rounds

-----------------------------------------------------------------------------
(* The tree                                                                *)

LEMMA BarriersAreATree ==
  /\ IsFiniteSet(Threads) /\ IsFiniteSet(Barriers)
  /\ Threads \cap Barriers = {}
  /\ Root \in Barriers
  /\ Parent \in [Nodes \ {Root} -> Barriers]
  /\ ThreadCount = [b \in Barriers |-> Cardinality(Members(b))]
  /\ \A b \in Barriers : Members(b) # {}
  /\ Below \in [Nodes -> SUBSET Nodes]
  /\ \A n \in Nodes : Below[n] = {n} \cup UNION {Below[m] : m \in Members(n)}
  /\ \A n \in Nodes : \A m \in Below[n] : Below[m] \subseteq Below[n]
  /\ \A n \in Nodes : \A m \in Members(n) : n \notin Below[m]
  /\ \A n1, n2 \in Nodes :
       \/ Below[n1] \cap Below[n2] = {}
       \/ n1 \in Below[n2] \/ n2 \in Below[n1]
  /\ \A n1, n2 \in Nodes \ {Root} :
       Parent[n1] = Parent[n2] => n1 = n2 \/ Below[n1] \cap Below[n2] = {}
  /\ Below[Root] = Nodes
  /\ RoundSize \in Nat \ {0, 1}
BY BarrierAssumption DEF IsTree, Nodes, Members

\* A subtree contains its root, and the subtrees of the members.
LEMMA Subtree ==
  ASSUME NEW n \in Nodes
  PROVE  /\ n \in Below[n] /\ Below[n] \subseteq Nodes
         /\ \A m \in Below[n] : Below[m] \subseteq Below[n]
         /\ \A m \in Members(n) :
              /\ m \in Nodes /\ m # Root /\ Parent[m] = n
              /\ Below[m] \subseteq Below[n] /\ n \notin Below[m]
<1>1. n \in Below[n] /\ Below[n] \subseteq Nodes
  BY BarriersAreATree
<1>2. \A m \in Below[n] : Below[m] \subseteq Below[n]
  BY BarriersAreATree
<1>3. ASSUME NEW m \in Members(n)
      PROVE  /\ m \in Nodes /\ m # Root /\ Parent[m] = n
             /\ Below[m] \subseteq Below[n] /\ n \notin Below[m]
  <2>1. m \in Nodes /\ m # Root /\ Parent[m] = n
    BY DEF Members
  <2>2. Below[m] \subseteq Below[n]
    BY BarriersAreATree
  <2>3. n \notin Below[m]
    BY BarriersAreATree
  <2> QED  BY <2>1, <2>2, <2>3
<1> QED  BY <1>1, <1>2, <1>3

\* Nothing is below a thread.
LEMMA Leaves ==
  ASSUME NEW t \in Threads
  PROVE  Below[t] = {t} /\ t \in Nodes /\ t \notin Barriers
<1>1. t \in Nodes /\ t \notin Barriers
  BY BarriersAreATree DEF Nodes
<1>2. Members(t) = {}
  BY <1>1, BarriersAreATree DEF Members
<1>3. Below[t] = {t} \cup UNION {Below[m] : m \in Members(t)}
  BY <1>1, BarriersAreATree
<1> QED  BY <1>1, <1>2, <1>3

\* A thread is below exactly one member of a barrier it is below of.
LEMMA OneMember ==
  ASSUME NEW t \in Threads, NEW b \in Barriers, t \in Below[b]
  PROVE  /\ \E n \in Members(b) : t \in Below[n]
         /\ \A n1, n2 \in Members(b) :
              t \in Below[n1] /\ t \in Below[n2] => n1 = n2
<1>1. t # b /\ b \in Nodes
  BY BarriersAreATree DEF Nodes
<1>2. Below[b] = {b} \cup UNION {Below[m] : m \in Members(b)}
  BY <1>1, BarriersAreATree
<1>3. \E n \in Members(b) : t \in Below[n]
  BY <1>1, <1>2
<1>4. \A n1, n2 \in Members(b) : t \in Below[n1] /\ t \in Below[n2] => n1 = n2
  BY BarriersAreATree DEF Members
<1> QED  BY <1>3, <1>4

\* Every barrier below b other than b is below one of its members.
LEMMA InsideMember ==
  ASSUME NEW b \in Barriers, NEW c \in Below[b], c # b
  PROVE  \E n \in Members(b) : c \in Below[n]
<1>1. b \in Nodes
  BY DEF Nodes
<1>2. Below[b] = {b} \cup UNION {Below[m] : m \in Members(b)}
  BY <1>1, BarriersAreATree
<1> QED  BY <1>2

LEMMA FiniteMembers ==
  ASSUME NEW b \in Barriers
  PROVE  IsFiniteSet(Members(b)) /\ ThreadCount[b] = Cardinality(Members(b))
<1>1. IsFiniteSet(Nodes)
  BY BarriersAreATree, FS_Union DEF Nodes
<1>2. Members(b) \subseteq Nodes
  BY DEF Members
<1> QED  BY <1>1, <1>2, FS_Subset, BarriersAreATree

\* The barrier where a thread that does not stand for the root waits.
LEMMA Meeting ==
  ASSUME NEW t \in Threads, standsFor[t] \in Nodes, standsFor[t] # Root
  PROVE  /\ Meet(t) \in Barriers /\ standsFor[t] \in Members(Meet(t))
         /\ Below[standsFor[t]] \subseteq Below[Meet(t)]
         /\ Meet(t) \notin Below[standsFor[t]]
<1>1. Meet(t) \in Barriers
  BY BarriersAreATree DEF Meet
<1>2. standsFor[t] \in Members(Meet(t))
  BY DEF Meet, Members
<1> QED  BY <1>1, <1>2, Subtree DEF Nodes

-----------------------------------------------------------------------------
(* What the invariant says in any state                                    *)

\* Two threads cannot stand for the same node.
LEMMA OneStandsForIt ==
  ASSUME TypeOK, Places, HeldIsStill,
         NEW t \in Threads, NEW u \in Threads, standsFor[t] = standsFor[u]
  PROVE  t = u
<1>1. t \in Below[standsFor[t]] /\ u \in Below[standsFor[u]]
  BY DEF Places
<1>2. standsFor[t] \in Nodes
  BY DEF TypeOK
<1>3. CASE standsFor[t] \in Threads
  BY <1>1, <1>3, Leaves
<1>4. CASE standsFor[t] \in Barriers
  <2>1. standsFor[t] \in Below[standsFor[t]]
    BY <1>2, Subtree
  <2>2. Holds(t, standsFor[t]) /\ Holds(u, standsFor[t])
    BY <1>1, <1>4, <2>1 DEF Holds
  <2> QED  BY <1>4, <2>2 DEF HeldIsStill
<1> QED  BY <1>2, <1>3, <1>4 DEF Nodes

\* A barrier where somebody comes, or was the last, is not held.
LEMMA NotHeld ==
  ASSUME TypeOK, Places, HeldIsStill,
         NEW t \in Threads, standsFor[t] # Root, ~Still(t),
         NEW u \in Threads, NEW b \in Barriers, Meet(t) \in Below[b]
  PROVE  ~Holds(u, b)
<1>1. standsFor[t] \in Nodes /\ t \in Below[standsFor[t]]
  BY DEF TypeOK, Places
<1>2. /\ Meet(t) \in Barriers
      /\ Below[standsFor[t]] \subseteq Below[Meet(t)]
      /\ Meet(t) \notin Below[standsFor[t]]
  BY <1>1, Meeting
<1>3. Below[Meet(t)] \subseteq Below[b]
  BY Subtree DEF Nodes
<1>4. SUFFICES ASSUME Holds(u, b) PROVE FALSE
  OBVIOUS
<1>5. CASE u = t
  <2>1. Below[b] \subseteq Below[standsFor[t]]
    BY <1>1, <1>4, <1>5, Subtree DEF Holds
  <2> QED  BY <1>2, <2>1
<1>6. CASE u # t
  <2>1. t \in Under(b) \ {u}
    BY <1>1, <1>2, <1>3, <1>6 DEF Under
  <2> QED  BY <1>4, <2>1 DEF HeldIsStill
<1> QED  BY <1>5, <1>6

\* What stands for a barrier holds it.
LEMMA StandingHolds ==
  ASSUME Places, NEW t \in Threads, standsFor[t] \in Barriers
  PROVE  Holds(t, standsFor[t])
  BY Subtree DEF Places, Holds, Nodes

-----------------------------------------------------------------------------
(* Every step keeps it                                                     *)

LEMMA InitIInv == Init => IInv
<1> SUFFICES ASSUME Init PROVE IInv
  OBVIOUS
<1> USE DEF Init
<1>1. TypeOK
  BY FiniteMembers, FS_CardinalityType, BarriersAreATree DEF TypeOK, Nodes
<1>2. Places
  <2>1. \A t \in Threads : standsFor[t] = t /\ pc[t] = "outside" /\ t # Root
    BY Leaves, BarriersAreATree
  <2> QED  BY <2>1, Leaves DEF Places
<1>3. Counters
  BY FiniteMembers, FS_CardinalityType, FS_EmptySet, BarriersAreATree DEF Counters
<1>4. LastIsAlone
  BY DEF LastIsAlone
<1>5. HeldIsStill
  BY Leaves DEF HeldIsStill, Holds
<1>6. Rounds
  BY DEF Rounds, First, Climbs, LetGo
<1> QED  BY <1>1, <1>2, <1>3, <1>4, <1>5, <1>6 DEF IInv

LEMMA LoadRoundKeeps ==
  ASSUME IInv, NEW t \in Threads, LoadRound(t)
  PROVE  IInv'
<1> USE DEF IInv
<1>1. /\ standsFor[t] \in Nodes \ {Root} /\ Meet(t) \in Barriers
      /\ \A u \in Threads : standsFor[u] \in Nodes
  <2>1. standsFor[t] \in Nodes /\ standsFor[t] # Root
    BY DEF LoadRound, TypeOK, Places
  <2> QED  BY <2>1, Meeting DEF TypeOK
<1>2. /\ \A u \in Threads \ {t} : pc'[u] = pc[u] /\ prevRound'[u] = prevRound[u]
      /\ pc[t] \in {"outside", "climb"} /\ pc'[t] = "arrive"
      /\ prevRound'[t] = round[Meet(t)]
      /\ UNCHANGED <<standsFor, result, barrierVars, history>>
  BY DEF LoadRound, TypeOK
<1>3. \A u \in Threads : Meet(u)' = Meet(u)
  BY <1>2 DEF Meet
<1>4. \A u \in Threads : /\ Still(u)' <=> Still(u)
                         /\ LetGo(u)' <=> LetGo(u)
                         /\ \A b \in Barriers : Holds(u, b)' <=> Holds(u, b)
  BY <1>2, <1>3 DEF Still, LetGo, Holds, barrierVars
<1>5. TypeOK'
  BY <1>1, <1>2 DEF LoadRound, TypeOK, barrierVars, history
<1>6. Places'
  BY <1>1, <1>2, <1>3 DEF Places, barrierVars
<1>7. Counters'
  BY <1>2, <1>4 DEF Counters, barrierVars
<1>8. LastIsAlone'
  BY <1>2, <1>3 DEF LastIsAlone, barrierVars
<1>9. HeldIsStill'
  BY <1>2, <1>4 DEF HeldIsStill, Under, barrierVars
<1>10. Rounds'
  <2>1. First(t)' => pc[t] = "outside"
    BY <1>1, <1>2, Leaves DEF First, Places
  <2>2. Climbs(t)' => Climbs(t)
    BY <1>1, <1>2, Leaves DEF Climbs, Places
  <2>3. \A u \in Threads \ {t} :
           (First(u)' <=> First(u)) /\ (Climbs(u)' <=> Climbs(u))
    BY <1>2 DEF First, Climbs
  <2>4. finalizer \in released => pc'[finalizer] = "open"
    BY <1>2 DEF Rounds, TypeOK
  <2>5. /\ UNCHANGED <<standsFor, result, came, arrived, released, finalizer>>
        /\ ~LetGo(t)' /\ pc'[t] \notin {"outside", "open"}
    BY <1>2, <1>4 DEF history, barrierVars, LetGo
  <2> QED  BY <1>2, <1>4, <2>1, <2>2, <2>3, <2>4, <2>5 DEF Rounds, Under
<1> QED  BY <1>5, <1>6, <1>7, <1>8, <1>9, <1>10

LEMMA ArriveKeeps ==
  ASSUME IInv, NEW t \in Threads, Arrive(t)
  PROVE  IInv'
<1> DEFINE n == standsFor[t]
           b == Meet(t)
<1> USE DEF IInv
<1>1. /\ n \in Nodes /\ n # Root /\ b \in Barriers /\ n \in Members(b)
      /\ t \in Below[n] /\ prevRound[t] = round[b] /\ pc[t] = "arrive"
  <2>1. n \in Nodes /\ n # Root /\ pc[t] = "arrive"
    BY DEF Arrive, TypeOK, Places
  <2> QED  BY <2>1, Meeting DEF Places
<1>2. n \notin came[b]
  BY <1>1, OneStandsForIt DEF Counters, Still
<1>3. /\ \A u \in Threads \ {t} : pc'[u] = pc[u]
      /\ pc'[t] = IF cntr[b] = 1 THEN "reset" ELSE "spin"
      /\ cntr' = [cntr EXCEPT ![b] = @ - 1]
      /\ came' = [came EXCEPT ![b] = @ \cup {n}]
      /\ arrived' = IF n = t THEN arrived \cup {t} ELSE arrived
      /\ UNCHANGED <<round, standsFor, prevRound, result, released, finalizer>>
  BY DEF Arrive, TypeOK
<1>4. /\ \A u \in Threads : Meet(u)' = Meet(u)
      /\ \A u \in Threads, c \in Barriers : Holds(u, c)' <=> Holds(u, c)
      /\ \A u \in Threads \ {t} : (Still(u)' <=> Still(u)) /\ (LetGo(u)' <=> LetGo(u))
  BY <1>3 DEF Meet, Holds, Still, LetGo
<1>5. Still(t)' \/ pc'[t] = "reset"
  BY <1>1, <1>3, <1>4 DEF Still
<1>6. ~LetGo(t)'
  BY <1>1, <1>3, <1>4 DEF LetGo
<1>7. /\ IsFiniteSet(came[b]) /\ Cardinality(came[b]) \in Nat
      /\ IsFiniteSet(came[b] \cup {n})
      /\ Cardinality(came[b] \cup {n}) = Cardinality(came[b]) + 1
      /\ Cardinality(came[b] \cup {n}) <= Cardinality(Members(b))
      /\ Cardinality(Members(b)) \in Nat
      /\ Cardinality(came[b] \cup {n}) = Cardinality(Members(b)) =>
           came[b] \cup {n} = Members(b)
  <2>1. IsFiniteSet(Members(b)) /\ came[b] \subseteq Members(b)
    BY <1>1, FiniteMembers DEF Counters
  <2>2. came[b] \cup {n} \subseteq Members(b)
    BY <1>1, <2>1
  <2>3. IsFiniteSet(came[b]) /\ IsFiniteSet(came[b] \cup {n})
    BY <2>1, <2>2, FS_Subset
  <2> QED  BY <1>2, <2>1, <2>2, <2>3, FS_Subset, FS_AddElement, FS_CardinalityType
<1>8. cntr[b] = Cardinality(Members(b)) - Cardinality(came[b]) /\ cntr[b] >= 1
  BY <1>1, <1>7, FiniteMembers DEF Counters
<1>9. TypeOK'
  <2>1. cntr' \in [Barriers -> Nat] /\ \A c \in Barriers : cntr'[c] <= ThreadCount[c]
    BY <1>1, <1>3, <1>7, <1>8, FiniteMembers DEF TypeOK
  <2>2. came' \in [Barriers -> SUBSET Nodes]
    BY <1>1, <1>3 DEF TypeOK
  <2>3. pc' \in [Threads -> {"outside", "climb", "arrive", "reset", "finalize",
                            "open", "spin"}]
    BY DEF Arrive, TypeOK
  <2> QED  BY <1>3, <2>1, <2>2, <2>3 DEF TypeOK
<1>10. Places'
  BY <1>1, <1>3, <1>4 DEF Places
<1>11. Counters'
  <2> SUFFICES ASSUME NEW c \in Barriers
               PROVE  /\ came'[c] \subseteq Members(c)
                      /\ cntr'[c] = ThreadCount[c] - Cardinality(came'[c])
                      /\ \A m \in came'[c] : \E u \in Threads :
                           standsFor'[u] = m /\ (Still(u)' \/ pc'[u] = "reset")
    BY DEF Counters
  <2>1. \A m \in came[c] : \E u \in Threads :
           standsFor'[u] = m /\ (Still(u)' \/ pc'[u] = "reset")
    BY <1>1, <1>3, <1>4 DEF Counters, Still
  <2>2. CASE c # b
    BY <1>1, <1>3, <2>1, <2>2 DEF Counters, TypeOK
  <2>3. CASE c = b
    <3>1. came'[c] = came[b] \cup {n} /\ cntr'[c] = cntr[b] - 1
      BY <1>1, <1>3, <2>3 DEF TypeOK
    <3>2. came'[c] \subseteq Members(c)
      BY <1>1, <2>3, <3>1 DEF Counters
    <3>3. cntr'[c] = ThreadCount[c] - Cardinality(came'[c])
      BY <1>1, <1>7, <1>8, <2>3, <3>1, FiniteMembers
    <3>4. \A m \in came'[c] : \E u \in Threads :
             standsFor'[u] = m /\ (Still(u)' \/ pc'[u] = "reset")
      BY <1>3, <1>5, <2>1, <2>3, <3>1
    <3> QED  BY <3>2, <3>3, <3>4
  <2> QED  BY <2>2, <2>3
<1>12. LastIsAlone'
  <2>1. ASSUME NEW u \in Threads, pc[u] = "reset" PROVE Meet(u) # b
    BY <1>1, <1>2, <2>1 DEF LastIsAlone
  <2>2. pc'[t] = "reset" => came'[b] = Members(b)
    BY <1>1, <1>3, <1>7, <1>8 DEF TypeOK
  <2> QED  BY <1>1, <1>3, <1>4, <2>1, <2>2 DEF LastIsAlone, TypeOK
<1>13. HeldIsStill'
  <2>1. \A u \in Threads, c \in Barriers : b \in Below[c] => ~Holds(u, c)
    BY <1>1, NotHeld DEF Still
  <2>2. \A u \in Threads, c \in Barriers : Holds(u, c) => t \notin Under(c) \ {u}
    BY <1>1 DEF HeldIsStill, Still
  <2> SUFFICES ASSUME NEW u \in Threads, NEW c \in Barriers, Holds(u, c)'
               PROVE  /\ \A w \in Under(c) \ {u} : Still(w)'
                      /\ \A w \in Threads : Holds(w, c)' => w = u
                      /\ \A d \in Below[c] \cap Barriers : came'[d] = {}
    BY DEF HeldIsStill, Under
  <2>3. Holds(u, c)
    BY <1>4
  <2>4. \A w \in Under(c) \ {u} : Still(w)'
    BY <1>4, <2>2, <2>3 DEF HeldIsStill, Under
  <2>5. \A w \in Threads : Holds(w, c)' => w = u
    BY <1>4, <2>3 DEF HeldIsStill
  <2>6. \A d \in Below[c] \cap Barriers : came'[d] = {}
    BY <1>1, <1>3, <2>1, <2>3 DEF HeldIsStill, TypeOK
  <2> QED  BY <2>4, <2>5, <2>6
<1>14. Rounds'
  <2>1. n = t => Under(n) = {t} /\ t \notin arrived \cup released
    BY <1>1, Leaves DEF Under, Rounds, First
  <2>2. n # t => Under(n) \subseteq arrived
    BY <1>1 DEF Rounds, Climbs
  <2>3. arrived \subseteq arrived' /\ Under(n) \subseteq arrived'
    BY <1>3, <2>1, <2>2
  <2>4. arrived' \cap released' = {}
    BY <1>3, <2>1 DEF Rounds
  <2>5. \A u \in Threads \ {t} :
           (First(u)' <=> First(u)) /\ (Climbs(u)' <=> Climbs(u))
    BY <1>3 DEF First, Climbs
  <2>6. ~First(t)' /\ pc'[t] \notin {"outside", "open"}
    BY <1>3 DEF First
  <2>7. ASSUME NEW u \in Threads
        PROVE  /\ pc'[u] = "outside" \/ First(u)' => u \notin arrived' \cup released'
               /\ Climbs(u)' => Under(standsFor'[u]) \subseteq arrived'
               /\ pc'[u] = "open" \/ LetGo(u)' => Under(standsFor'[u]) \subseteq released'
               /\ pc'[u] = "open" => (result'[u] <=> u = finalizer')
    <3>1. CASE u = t
      BY <1>3, <1>6, <2>3, <2>6, <3>1
    <3>2. CASE u # t
      BY <1>3, <1>4, <2>3, <2>5, <3>2 DEF Rounds
    <3> QED  BY <3>1, <3>2
  <2>8. \A c \in Barriers : \A m \in came'[c] : Under(m) \subseteq arrived'
    BY <1>1, <1>3, <2>3 DEF Rounds, TypeOK
  <2>9. finalizer' \in released' => pc'[finalizer'] = "open"
    BY <1>1, <1>3 DEF Rounds, TypeOK
  <2> QED  BY <2>4, <2>7, <2>8, <2>9 DEF Rounds, Under
<1> QED  BY <1>9, <1>10, <1>11, <1>12, <1>13, <1>14

LEMMA ResetKeeps ==
  ASSUME IInv, NEW t \in Threads, Reset(t)
  PROVE  IInv'
<1> DEFINE n == standsFor[t]
           b == Meet(t)
<1> USE DEF IInv
<1>1. /\ n \in Nodes /\ n # Root /\ b \in Barriers /\ n \in Members(b)
      /\ t \in Below[n] /\ t \in Below[b] /\ Below[n] \subseteq Below[b]
      /\ b \in Nodes /\ b \in Below[b]
      /\ pc[t] = "reset" /\ ~Still(t)
  <2>1. n \in Nodes /\ n # Root /\ pc[t] = "reset"
    BY DEF Reset, TypeOK, Places
  <2> QED  BY <2>1, Meeting, Subtree DEF Places, Still, Nodes
<1>2. /\ \A u \in Threads \ {t} : pc'[u] = pc[u] /\ standsFor'[u] = standsFor[u]
      /\ pc'[t] = IF b = Root THEN "finalize" ELSE "climb"
      /\ standsFor'[t] = b
      /\ cntr' = [cntr EXCEPT ![b] = ThreadCount[b]]
      /\ came' = [came EXCEPT ![b] = {}]
      /\ UNCHANGED <<round, prevRound, result, arrived, released, finalizer>>
  BY DEF Reset, TypeOK, history
<1>3. \A u \in Threads \ {t} :
        /\ Meet(u)' = Meet(u) /\ (Still(u)' <=> Still(u)) /\ (LetGo(u)' <=> LetGo(u))
        /\ \A c \in Barriers : Holds(u, c)' <=> Holds(u, c)
  BY <1>2 DEF Meet, Still, LetGo, Holds
<1>4. ~Still(t)' /\ ~LetGo(t)'
  BY <1>2 DEF Still, LetGo
<1>5. \A c \in Barriers : Holds(t, c)' => Holds(t, c) \/ c = b
  <2> SUFFICES ASSUME NEW c \in Barriers, Holds(t, c)', c # b PROVE Holds(t, c)
    OBVIOUS
  <2>1. t \in Below[c] /\ c \in Below[b]
    BY <1>2 DEF Holds
  <2>2. PICK m \in Members(b) : c \in Below[m]
    BY <1>1, <2>1, InsideMember
  <2>3. t \in Below[m]
    BY <2>1, <2>2, Subtree DEF Members
  <2>4. m = n
    BY <1>1, <2>3, OneMember
  <2> QED  BY <2>1, <2>2, <2>4 DEF Holds
<1>6. \A u \in Threads : ~Holds(u, b)
  BY <1>1, NotHeld
<1>7. came[b] = Members(b)
  BY <1>1 DEF LastIsAlone
<1>8. ASSUME NEW m \in Members(b)
      PROVE  \E v \in Threads : standsFor[v] = m /\ (v = t \/ Still(v))
  <2>1. PICK v \in Threads : standsFor[v] = m /\ (Still(v) \/ pc[v] = "reset")
    BY <1>1, <1>7 DEF Counters
  <2>2. pc[v] = "reset" => v = t
    BY <1>1, <2>1 DEF LastIsAlone, Meet, Members
  <2> QED  BY <2>1, <2>2
<1>9. TypeOK'
  <2>1. cntr' \in [Barriers -> Nat] /\ \A c \in Barriers : cntr'[c] <= ThreadCount[c]
    BY <1>1, <1>2, FiniteMembers, FS_CardinalityType DEF TypeOK
  <2>2. standsFor' \in [Threads -> Nodes]
    BY <1>1 DEF Reset, TypeOK
  <2>3. pc' \in [Threads -> {"outside", "climb", "arrive", "reset", "finalize",
                            "open", "spin"}]
    BY DEF Reset, TypeOK
  <2>4. came' \in [Barriers -> SUBSET Nodes]
    BY <1>1, <1>2 DEF TypeOK
  <2> QED  BY <1>2, <2>1, <2>2, <2>3, <2>4 DEF TypeOK
<1>10. Places'
  BY <1>1, <1>2, <1>3 DEF Places
<1>11. Counters'
  <2> SUFFICES ASSUME NEW c \in Barriers
               PROVE  /\ came'[c] \subseteq Members(c)
                      /\ cntr'[c] = ThreadCount[c] - Cardinality(came'[c])
                      /\ \A m \in came'[c] : \E u \in Threads :
                           standsFor'[u] = m /\ (Still(u)' \/ pc'[u] = "reset")
    BY DEF Counters
  <2>1. CASE c = b
    <3>1. came'[c] = {} /\ cntr'[c] = ThreadCount[c]
      BY <1>1, <1>2, <2>1 DEF TypeOK
    <3> QED  BY <3>1, FS_EmptySet, FiniteMembers, FS_CardinalityType
  <2>2. CASE c # b
    <3>1. came'[c] = came[c] /\ cntr'[c] = cntr[c]
      BY <1>1, <1>2, <2>2 DEF TypeOK
    <3>2. ASSUME NEW m \in came[c]
          PROVE  \E u \in Threads :
                   standsFor'[u] = m /\ (Still(u)' \/ pc'[u] = "reset")
      <4>1. PICK u \in Threads : standsFor[u] = m /\ (Still(u) \/ pc[u] = "reset")
        BY DEF Counters
      <4>2. m \in Members(c) /\ n \in Members(b)
        BY <1>1 DEF Counters
      <4>3. u # t
        BY <2>2, <4>1, <4>2 DEF Members
      <4> QED  BY <1>2, <1>3, <4>1, <4>3
    <3> QED  BY <3>1, <3>2 DEF Counters
  <2> QED  BY <2>1, <2>2
<1>12. LastIsAlone'
  <2>1. ASSUME NEW u \in Threads, pc'[u] = "reset"
        PROVE  u # t /\ pc[u] = "reset" /\ Meet(u)' = Meet(u)
    BY <1>2, <1>3, <2>1
  <2>2. \A u \in Threads : pc'[u] = "reset" => Meet(u) # b
    BY <1>1, <2>1 DEF LastIsAlone
  <2> QED  BY <1>1, <1>2, <2>1, <2>2 DEF LastIsAlone, TypeOK
<1>13. HeldIsStill'
  <2> SUFFICES ASSUME NEW u \in Threads, NEW c \in Barriers, Holds(u, c)'
               PROVE  /\ \A w \in Under(c) \ {u} : Still(w)'
                      /\ \A w \in Threads : Holds(w, c)' => w = u
                      /\ \A d \in Below[c] \cap Barriers : came'[d] = {}
    BY DEF HeldIsStill, Under
  <2>1. CASE Holds(u, c)
    <3>1. \A w \in Under(c) \ {u} : Still(w) /\ w # t
      BY <1>1, <2>1 DEF HeldIsStill, Under
    <3>2. \A w \in Threads : Holds(w, c)' => w = u
      BY <1>3, <1>5, <1>6, <2>1 DEF HeldIsStill
    <3>3. \A d \in Below[c] \cap Barriers : came'[d] = {}
      BY <1>1, <1>2, <2>1 DEF HeldIsStill, TypeOK
    <3> QED  BY <1>3, <3>1, <3>2, <3>3 DEF Under
  <2>2. CASE u = t /\ c = b
    <3>1. ASSUME NEW w \in Under(b) \ {t} PROVE Still(w)'
      <4>1. PICK m \in Members(b) : w \in Below[m]
        BY <1>1, OneMember DEF Under
      <4>2. PICK v \in Threads : standsFor[v] = m /\ (v = t \/ Still(v))
        BY <1>8
      <4>3. m \in Nodes
        BY DEF Members
      <4>4. CASE m \in Threads
        BY <1>3, <4>1, <4>2, <4>4, Leaves DEF Under, Places
      <4>5. CASE m \in Barriers
        <5>1. Holds(v, m)
          BY <4>2, <4>5, StandingHolds
        <5> QED  BY <1>3, <4>1, <4>2, <4>5, <5>1 DEF HeldIsStill, Under
      <4> QED  BY <4>3, <4>4, <4>5 DEF Nodes
    <3>2. \A w \in Threads : Holds(w, c)' => w = u
      BY <1>3, <1>6, <2>2
    <3>3. ASSUME NEW d \in Below[b] \cap Barriers PROVE came'[d] = {}
      <4>1. CASE d = b
        BY <1>1, <1>2, <4>1 DEF TypeOK
      <4>2. CASE d # b
        <5>1. PICK m \in Members(b) : d \in Below[m]
          BY <1>1, <4>2, InsideMember
        <5>2. m \in Barriers
          BY <5>1, Leaves DEF Members, Nodes
        <5>3. PICK v \in Threads : standsFor[v] = m
          BY <1>8
        <5>4. Holds(v, m)
          BY <5>2, <5>3, StandingHolds
        <5> QED  BY <1>1, <1>2, <4>2, <5>1, <5>2, <5>4 DEF HeldIsStill, TypeOK
      <4> QED  BY <4>1, <4>2
    <3> QED  BY <2>2, <3>1, <3>2, <3>3
  <2> QED  BY <1>3, <1>5, <2>1, <2>2
<1>14. Rounds'
  <2>1. Under(b) \subseteq arrived
    BY <1>1, <1>7, OneMember DEF Under, Rounds
  <2>2. \A u \in Threads \ {t} :
           (First(u)' <=> First(u)) /\ (Climbs(u)' <=> Climbs(u))
    BY <1>2 DEF First, Climbs
  <2>3. ~First(t)' /\ pc'[t] \notin {"outside", "open"}
    BY <1>2 DEF First
  <2>4. \A u \in Threads : Climbs(u)' => Under(standsFor'[u]) \subseteq arrived'
    BY <1>2, <2>1, <2>2 DEF Rounds
  <2>5. \A u \in Threads : pc'[u] = "open" \/ LetGo(u)' =>
                            Under(standsFor'[u]) \subseteq released'
    BY <1>2, <1>3, <1>4, <2>3 DEF Rounds
  <2>6. \A c \in Barriers : \A m \in came'[c] : Under(m) \subseteq arrived'
    BY <1>1, <1>2 DEF Rounds, TypeOK
  <2>7. finalizer' \in released' => pc'[finalizer'] = "open"
    BY <1>1, <1>2 DEF Rounds, TypeOK
  <2> QED  BY <1>2, <2>2, <2>3, <2>4, <2>5, <2>6, <2>7 DEF Rounds, Under
<1> QED  BY <1>9, <1>10, <1>11, <1>12, <1>13, <1>14

\* When the finalizer runs, everybody has arrived and spins.
LEMMA AtFinalize ==
  ASSUME IInv, NEW t \in Threads, pc[t] = "finalize"
  PROVE  /\ standsFor[t] = Root
         /\ \A u \in Threads \ {t} : Still(u)
         /\ \A b \in Barriers : came[b] = {}
         /\ arrived = Threads /\ released = {}
<1> USE DEF IInv
<1>1. standsFor[t] = Root
  BY DEF Places
<1>2. Holds(t, Root)
  BY <1>1, StandingHolds, BarriersAreATree
<1>3. Under(Root) = Threads /\ Root \in Barriers /\ Barriers \subseteq Below[Root]
  BY BarriersAreATree DEF Under, Nodes
<1>4. /\ \A u \in Threads \ {t} : Still(u)
      /\ \A b \in Barriers : came[b] = {}
  BY <1>2, <1>3 DEF HeldIsStill
<1>5. Threads \subseteq arrived
  BY <1>1, <1>3 DEF Rounds, Climbs
<1>6. arrived = Threads /\ released = {}
  BY <1>5 DEF TypeOK, Rounds
<1> QED  BY <1>1, <1>4, <1>6

LEMMA FinalizeKeeps ==
  ASSUME IInv, NEW t \in Threads, Finalize(t)
  PROVE  IInv'
<1> USE DEF IInv
<1>1. /\ pc[t] = "finalize" /\ standsFor[t] = Root
      /\ \A u \in Threads \ {t} : Still(u)
      /\ \A b \in Barriers : came[b] = {}
      /\ arrived = Threads /\ released = {}
  BY AtFinalize DEF Finalize
<1>2. /\ \A u \in Threads \ {t} : pc'[u] = pc[u] /\ result'[u] = result[u]
      /\ pc'[t] = "open" /\ result'[t] = TRUE /\ finalizer' = t
      /\ arrived' = {} /\ released' = Threads
      /\ UNCHANGED <<standsFor, prevRound, cntr, round, came>>
  BY <1>1 DEF Finalize, TypeOK, barrierVars
<1>3. \A u \in Threads :
        /\ Meet(u)' = Meet(u) /\ (Still(u)' <=> Still(u)) /\ ~LetGo(u)'
        /\ \A c \in Barriers : Holds(u, c)' <=> Holds(u, c)
  BY <1>1, <1>2 DEF Meet, Still, LetGo, Holds
<1>4. TypeOK'
  BY <1>2 DEF Finalize, TypeOK
<1>5. Places'
  BY <1>1, <1>2, <1>3, BarriersAreATree DEF Places
<1>6. Counters'
  BY <1>1, <1>2 DEF Counters
<1>7. LastIsAlone'
  BY <1>2, <1>3 DEF LastIsAlone
<1>8. HeldIsStill'
  BY <1>2, <1>3 DEF HeldIsStill, Under
<1>9. Rounds'
  <2>1. \A u \in Threads : ~First(u)' /\ ~Climbs(u)' /\ pc'[u] # "outside"
    BY <1>1, <1>2 DEF First, Climbs, Still
  <2>2. \A u \in Threads : pc'[u] = "open" => u = t
    BY <1>1, <1>2 DEF Still
  <2> QED  BY <1>1, <1>2, <1>3, <2>1, <2>2 DEF Rounds, Under
<1> QED  BY <1>4, <1>5, <1>6, <1>7, <1>8, <1>9

\* A round further is another value: a byte has more than one.
LEMMA NextRound ==
  ASSUME NEW r \in 0..RoundSize - 1
  PROVE  (r + 1) % RoundSize \in 0..RoundSize - 1 /\ (r + 1) % RoundSize # r
<1>1. RoundSize \in Nat /\ RoundSize >= 2
  <2>1. RoundSize \in Nat \ {0, 1}
    BY ONLY BarriersAreATree, Zenon
  <2> QED  BY ONLY <2>1
<1>2. CASE r + 1 < RoundSize
  <2>1. (r + 1) % RoundSize = r + 1
    BY <1>1, <1>2
  <2> QED  BY <1>1, <1>2, <2>1
<1>3. CASE r + 1 = RoundSize
  <2>1. (r + 1) % RoundSize = 0
    BY <1>1, <1>3
  <2> QED  BY <1>1, <1>3, <2>1
<1> QED  BY <1>1, <1>2, <1>3

\* The member that Open goes back to.
LEMMA ComesFrom ==
  ASSUME IInv, NEW t \in Threads, pc[t] = "open"
  PROVE  LET b == standsFor[t]
             n == CHOOSE m \in Members(b) : t \in Below[m]
         IN  /\ b \in Barriers /\ Holds(t, b)
             /\ n \in Members(b) /\ n \in Nodes /\ n # Root /\ t \in Below[n]
             /\ Below[n] \subseteq Below[b] /\ b \notin Below[n]
             /\ n \in Threads => n = t
<1> DEFINE b == standsFor[t]
           n == CHOOSE m \in Members(b) : t \in Below[m]
<1> USE DEF IInv
<1>1. b \in Barriers /\ Holds(t, b) /\ t \in Below[b]
  BY StandingHolds DEF Places
<1>2. \E m \in Members(b) : t \in Below[m]
  BY <1>1, OneMember
<1>3. n \in Members(b) /\ t \in Below[n]
  BY <1>2
<1>4. n \in Nodes /\ n # Root /\ Below[n] \subseteq Below[b] /\ b \notin Below[n]
  BY <1>1, <1>3, Subtree DEF Nodes
<1>5. n \in Threads => n = t
  BY <1>3, Leaves
<1> QED  BY <1>1, <1>3, <1>4, <1>5

\* While t leaves nobody else is responsible for it.
LEMMA LeavesAlone ==
  ASSUME IInv, NEW t \in Threads, pc[t] = "open" \/ LetGo(t),
         NEW u \in Threads, u # t, standsFor[u] \in Nodes,
         t \in Under(standsFor[u])
  PROVE  FALSE
<1> USE DEF IInv
<1>1. standsFor[u] \in Barriers
  BY Leaves DEF Under, Nodes, Places
<1>2. Holds(u, standsFor[u])
  BY <1>1, StandingHolds
<1>3. Still(t)
  BY <1>1, <1>2 DEF HeldIsStill
<1> QED  BY <1>3 DEF Still, LetGo

LEMMA OpenKeeps ==
  ASSUME IInv, NEW t \in Threads, Open(t)
  PROVE  IInv'
<1> DEFINE b == standsFor[t]
           n == CHOOSE m \in Members(b) : t \in Below[m]
<1> USE DEF IInv
<1>1. /\ b \in Barriers /\ Holds(t, b) /\ t \in Under(b) /\ b \in Nodes
      /\ n \in Members(b) /\ n \in Nodes /\ n # Root /\ t \in Below[n]
      /\ Below[n] \subseteq Below[b] /\ b \notin Below[n]
      /\ n \in Threads => n = t
      /\ pc[t] = "open"
  BY ComesFrom DEF Open, Nodes, Holds, Under
<1>2. /\ \A u \in Threads \ {t} : pc'[u] = pc[u] /\ standsFor'[u] = standsFor[u]
      /\ pc'[t] = IF n = t THEN "outside" ELSE "open"
      /\ standsFor'[t] = n
      /\ round' = [round EXCEPT ![b] = (@ + 1) % RoundSize]
      /\ released' = IF n = t THEN released \ {t} ELSE released
      /\ UNCHANGED <<cntr, came, prevRound, result, arrived, finalizer>>
  BY DEF Open, GoBack, TypeOK
<1> HIDE DEF n
<1>3. /\ round'[b] \in 0..RoundSize - 1 /\ round'[b] # round[b]
      /\ \A c \in Barriers \ {b} : round'[c] = round[c]
  BY <1>1, <1>2, NextRound DEF TypeOK
\* who meets at b stands still there
<1>4. \A u \in Threads \ {t} :
        standsFor[u] # Root /\ Meet(u) = b => Still(u) /\ standsFor[u] \in Members(b)
  <2> SUFFICES ASSUME NEW u \in Threads \ {t}, standsFor[u] # Root, Meet(u) = b
               PROVE  Still(u) /\ standsFor[u] \in Members(b)
    OBVIOUS
  <2>1. /\ standsFor[u] \in Members(b) /\ Below[standsFor[u]] \subseteq Below[b]
        /\ u \in Below[standsFor[u]]
    BY Meeting DEF TypeOK, Places
  <2> QED  BY <1>1, <2>1 DEF HeldIsStill, Under
<1>5. \A u \in Threads \ {t} : Meet(u)' = Meet(u)
  BY <1>2 DEF Meet
<1>6. \A u \in Threads \ {t} : standsFor[u] # Root => Meet(u) \in Barriers
  BY Meeting DEF TypeOK
<1>7. \A u \in Threads \ {t} :
        /\ Still(u) /\ Meet(u) # b => Still(u)'
        /\ LetGo(u)' => LetGo(u) \/ Meet(u) = b
        /\ pc[u] = "spin" => standsFor[u] # Root
  <2>1. \A u \in Threads \ {t} : pc[u] = "spin" => standsFor[u] # Root
    BY DEF Places
  <2>2. ASSUME NEW u \in Threads \ {t}, pc[u] = "spin", Meet(u) # b
        PROVE  round'[Meet(u)'] = round[Meet(u)]
    BY <1>3, <1>5, <1>6, <2>1, <2>2
  <2> QED  BY <1>2, <1>5, <2>1, <2>2 DEF Still, LetGo
<1>8. pc'[t] \in {"outside", "open"} /\ ~Still(t)' /\ ~LetGo(t)' /\ ~Still(t)
  BY <1>1, <1>2 DEF Still, LetGo
<1>9. /\ \A u \in Threads \ {t}, c \in Barriers : Holds(u, c)' <=> Holds(u, c)
      /\ \A c \in Barriers : Holds(t, c)' => Holds(t, c) /\ c \in Below[n] /\ c # b
  BY <1>1, <1>2 DEF Holds
<1>10. TypeOK'
  <2>1. round' \in [Barriers -> 0..RoundSize - 1]
    BY <1>1, <1>2, <1>3 DEF TypeOK
  <2>2. standsFor' \in [Threads -> Nodes]
    BY <1>1 DEF Open, GoBack, TypeOK, n
  <2>3. pc' \in [Threads -> {"outside", "climb", "arrive", "reset", "finalize",
                            "open", "spin"}]
    BY DEF Open, GoBack, TypeOK
  <2> QED  BY <1>2, <2>1, <2>2, <2>3 DEF TypeOK
<1>11. Places'
  <2> SUFFICES ASSUME NEW u \in Threads
               PROVE  /\ u \in Below[standsFor'[u]]
                      /\ pc'[u] = "outside" => standsFor'[u] = u
                      /\ pc'[u] \in {"climb", "finalize", "open"} =>
                           standsFor'[u] \in Barriers
                      /\ standsFor'[u] = Root => pc'[u] \in {"finalize", "open"}
                      /\ pc'[u] = "finalize" => standsFor'[u] = Root
                      /\ pc'[u] = "arrive" => prevRound'[u] = round'[Meet(u)']
    BY DEF Places
  <2>1. CASE u = t
    BY <1>1, <1>2, <2>1 DEF Nodes
  <2>2. CASE u # t
    <3>1. pc[u] = "arrive" => standsFor[u] # Root /\ Meet(u) # b
      BY <1>4, <2>2 DEF Still, Places
    <3>2. pc[u] = "arrive" => round'[Meet(u)'] = round[Meet(u)]
      BY <1>3, <1>5, <1>6, <2>2, <3>1
    <3> QED  BY <1>2, <2>2, <3>2 DEF Places
  <2> QED  BY <2>1, <2>2
<1>12. Counters'
  <2> SUFFICES ASSUME NEW c \in Barriers, NEW m \in came[c]
               PROVE  \E u \in Threads :
                        standsFor'[u] = m /\ (Still(u)' \/ pc'[u] = "reset")
    BY <1>2 DEF Counters
  <2>1. PICK u \in Threads : standsFor[u] = m /\ (Still(u) \/ pc[u] = "reset")
    BY DEF Counters
  <2>2. u # t
    BY <1>1, <2>1 DEF Still
  <2>3. came[b] = {}
    BY <1>1, Subtree DEF HeldIsStill
  <2>4. c # b /\ Meet(u) = c
    BY <2>1, <2>3 DEF Counters, Meet, Members
  <2> QED  BY <1>2, <1>7, <2>1, <2>2, <2>4
<1>13. LastIsAlone'
  BY <1>2, <1>5, <1>8 DEF LastIsAlone
<1>14. HeldIsStill'
  <2> SUFFICES ASSUME NEW u \in Threads, NEW c \in Barriers, Holds(u, c)'
               PROVE  /\ \A w \in Under(c) \ {u} : Still(w)'
                      /\ \A w \in Threads : Holds(w, c)' => w = u
                      /\ \A d \in Below[c] \cap Barriers : came'[d] = {}
    BY DEF HeldIsStill, Under
  <2>1. Holds(u, c) /\ (u = t => c \in Below[n])
    BY <1>9
  <2>2. ASSUME NEW w \in Under(c) \ {u} PROVE Still(w)'
    <3>1. Still(w) /\ w # t /\ w \in Threads /\ w \in Below[c]
      BY <1>8, <2>1 DEF HeldIsStill, Under
    <3>2. Meet(w) # b
      <4> SUFFICES ASSUME Meet(w) = b PROVE FALSE
        OBVIOUS
      <4>1. standsFor[w] \in Members(b) /\ w \in Below[standsFor[w]] /\ w \in Below[b]
        BY <1>1, <1>4, <1>7, <3>1, Subtree DEF Places, Still
      \* c is below the member that w stands for, so w holds it
      <4>2. SUFFICES \E m \in Members(b) : c \in Below[m]
        <5>1. PICK m \in Members(b) : c \in Below[m]
          BY <4>2
        <5>2. w \in Below[m]
          BY <3>1, <5>1, Subtree DEF Members
        <5>3. m = standsFor[w]
          BY <1>1, <3>1, <4>1, <5>2, OneMember
        <5>4. Holds(w, c)
          BY <3>1, <5>1, <5>3 DEF Holds
        <5> QED  BY <2>1, <3>1, <5>4 DEF HeldIsStill
      <4>3. CASE u = t
        BY <1>1, <2>1, <4>3
      <4>4. CASE u # t
        <5>1. c # b
          BY <1>1, <2>1, <4>4 DEF HeldIsStill
        <5>2. c \in Below[b] \/ b \in Below[c]
          BY <1>1, <3>1, <4>1, BarriersAreATree DEF Nodes
        <5>3. b \notin Below[c]
          <6> SUFFICES ASSUME b \in Below[c] PROVE FALSE
            OBVIOUS
          <6>1. t \in Under(c) \ {u}
            BY <1>1, <4>4, Subtree DEF Nodes, Under
          <6> QED  BY <1>8, <2>1, <6>1 DEF HeldIsStill
        <5> QED  BY <1>1, <5>1, <5>2, <5>3, InsideMember
      <4> QED  BY <4>3, <4>4
    <3> QED  BY <1>7, <3>1, <3>2
  <2>3. \A w \in Threads : Holds(w, c)' => w = u
    BY <1>9, <2>1 DEF HeldIsStill
  <2>4. \A d \in Below[c] \cap Barriers : came'[d] = {}
    BY <1>2, <2>1 DEF HeldIsStill
  <2> QED  BY <2>2, <2>3, <2>4
<1>15. Rounds'
  <2>1. Under(b) \subseteq released /\ t \in released /\ t \notin arrived
    BY <1>1 DEF Rounds
  <2>2. arrived' \cap released' = {}
    BY <1>2 DEF Rounds
  <2>3. \A u \in Threads \ {t} : t \notin Under(standsFor[u])
    BY <1>1, LeavesAlone DEF TypeOK
  <2>4. ASSUME NEW u \in Threads
        PROVE  /\ pc'[u] = "outside" \/ First(u)' => u \notin arrived' \cup released'
               /\ Climbs(u)' => Under(standsFor'[u]) \subseteq arrived'
               /\ pc'[u] = "open" \/ LetGo(u)' => Under(standsFor'[u]) \subseteq released'
               /\ pc'[u] = "open" => (result'[u] <=> u = finalizer')
    <3>1. CASE u = t
      <4>1. ~First(t)' /\ ~Climbs(t)'
        BY <1>8 DEF First, Climbs
      <4>2. Under(n) \subseteq Under(b)
        BY <1>1 DEF Under
      <4> QED  BY <1>1, <1>2, <1>8, <2>1, <3>1, <4>1, <4>2 DEF Rounds
    <3>2. CASE u # t
      <4>1. (First(u)' <=> First(u)) /\ (Climbs(u)' <=> Climbs(u))
        BY <1>2, <3>2 DEF First, Climbs
      <4>2. ASSUME pc'[u] = "open" \/ LetGo(u)'
            PROVE  Under(standsFor[u]) \subseteq released
        <5>1. CASE pc[u] = "open" \/ LetGo(u)
          BY <5>1 DEF Rounds
        <5>2. CASE LetGo(u)' /\ Meet(u) = b
          <6>1. standsFor[u] # Root
            BY <1>2, <1>7, <3>2, <5>2 DEF LetGo
          <6>2. standsFor[u] \in Members(b)
            BY <1>4, <3>2, <5>2, <6>1
          <6> QED  BY <1>1, <2>1, <6>2, Subtree DEF Under
        <5> QED  BY <1>2, <1>7, <3>2, <4>2, <5>1, <5>2
      <4>3. released' = released \/ released' = released \ {t}
        BY <1>2
      <4> QED  BY <1>2, <2>3, <3>2, <4>1, <4>2, <4>3 DEF Rounds
    <3> QED  BY <3>1, <3>2
  <2>5. \A c \in Barriers : \A m \in came'[c] : Under(m) \subseteq arrived'
    BY <1>2 DEF Rounds
  <2>6. finalizer' \in released' => pc'[finalizer'] = "open"
    BY <1>1, <1>2 DEF Rounds, TypeOK
  <2> QED  BY <2>2, <2>4, <2>5, <2>6 DEF Rounds, Under
<1> QED  BY <1>10, <1>11, <1>12, <1>13, <1>14, <1>15

LEMMA StopSpinningKeeps ==
  ASSUME IInv, NEW t \in Threads, StopSpinning(t)
  PROVE  IInv'
<1> USE DEF IInv
<1>1. /\ LetGo(t) /\ pc[t] = "spin" /\ ~Still(t) /\ t \in Below[standsFor[t]]
      /\ standsFor[t] \in Nodes /\ standsFor[t] # Root
      /\ standsFor[t] \in Threads => standsFor[t] = t
  BY Leaves DEF StopSpinning, LetGo, Still, TypeOK, Places
<1>2. /\ \A u \in Threads \ {t} : pc'[u] = pc[u] /\ result'[u] = result[u]
      /\ pc'[t] = IF standsFor[t] = t THEN "outside" ELSE "open"
      /\ result'[t] = FALSE
      /\ standsFor' = standsFor
      /\ released' = IF standsFor[t] = t THEN released \ {t} ELSE released
      /\ UNCHANGED <<cntr, came, round, prevRound, arrived, finalizer>>
  BY DEF StopSpinning, GoBack, TypeOK
<1>3. \A u \in Threads :
        /\ Meet(u)' = Meet(u) /\ (Still(u)' <=> Still(u)) /\ (LetGo(u)' => LetGo(u))
        /\ \A c \in Barriers : Holds(u, c)' <=> Holds(u, c)
  BY <1>1, <1>2 DEF Meet, Still, LetGo, Holds
<1>4. TypeOK'
  BY <1>2 DEF StopSpinning, GoBack, TypeOK
<1>5. Places'
  BY <1>1, <1>2, <1>3 DEF Places, Nodes
<1>6. Counters'
  BY <1>1, <1>2, <1>3 DEF Counters
<1>7. LastIsAlone'
  BY <1>2, <1>3 DEF LastIsAlone
<1>8. HeldIsStill'
  BY <1>2, <1>3 DEF HeldIsStill, Under
<1>9. Rounds'
  <2>1. Under(standsFor[t]) \subseteq released /\ t \in released /\ t \notin arrived
    BY <1>1 DEF Rounds, Under
  <2>2. t # finalizer
    BY <1>1, <2>1 DEF Rounds
  <2>3. \A u \in Threads \ {t} : t \notin Under(standsFor[u])
    BY <1>1, LeavesAlone DEF TypeOK
  <2>4. ASSUME NEW u \in Threads
        PROVE  /\ pc'[u] = "outside" \/ First(u)' => u \notin arrived' \cup released'
               /\ Climbs(u)' => Under(standsFor'[u]) \subseteq arrived'
               /\ pc'[u] = "open" \/ LetGo(u)' => Under(standsFor'[u]) \subseteq released'
               /\ pc'[u] = "open" => (result'[u] <=> u = finalizer')
    <3>1. CASE u = t
      BY <1>1, <1>2, <2>1, <2>2, <3>1 DEF First, Climbs, LetGo
    <3>2. CASE u # t
      <4>1. (First(u)' <=> First(u)) /\ (Climbs(u)' <=> Climbs(u))
        BY <1>2, <3>2 DEF First, Climbs
      <4>2. released' = released \/ released' = released \ {t}
        BY <1>2
      <4> QED  BY <1>2, <1>3, <2>3, <3>2, <4>1, <4>2 DEF Rounds
    <3> QED  BY <3>1, <3>2
  <2>5. arrived' \cap released' = {}
    BY <1>2 DEF Rounds
  <2>6. \A c \in Barriers : \A m \in came'[c] : Under(m) \subseteq arrived'
    BY <1>2 DEF Rounds
  <2>7. finalizer' \in released' => pc'[finalizer'] = "open"
    BY <1>2, <2>2 DEF Rounds, TypeOK
  <2> QED  BY <2>4, <2>5, <2>6, <2>7 DEF Rounds, Under
<1> QED  BY <1>4, <1>5, <1>6, <1>7, <1>8, <1>9

LEMMA StutterKeeps == IInv /\ UNCHANGED vars => IInv'
<1> SUFFICES ASSUME IInv, UNCHANGED vars PROVE IInv'
  OBVIOUS
<1> USE DEF IInv, vars, history
<1>1. \A u \in Threads : /\ Meet(u)' = Meet(u)
                         /\ Still(u)' = Still(u)
                         /\ LetGo(u)' = LetGo(u)
                         /\ \A b \in Barriers : Holds(u, b)' = Holds(u, b)
  BY DEF Meet, Still, LetGo, Holds
<1>2. TypeOK' /\ Places'
  BY <1>1 DEF TypeOK, Places
<1>3. Counters' /\ LastIsAlone'
  BY <1>1 DEF Counters, LastIsAlone
<1>4. HeldIsStill' /\ Rounds'
  BY <1>1 DEF HeldIsStill, Rounds, Under, First, Climbs
<1> QED  BY <1>2, <1>3, <1>4

LEMMA NextIInv == IInv /\ [Next]_vars => IInv'
<1> SUFFICES ASSUME IInv, [Next]_vars PROVE IInv'
  OBVIOUS
<1>1. ASSUME NEW t \in Threads, Step(t) PROVE IInv'
  BY <1>1, LoadRoundKeeps, ArriveKeeps, ResetKeeps, FinalizeKeeps, OpenKeeps,
     StopSpinningKeeps DEF Step
<1>2. CASE UNCHANGED vars
  BY <1>2, StutterKeeps
<1> QED  BY <1>1, <1>2 DEF Next

LEMMA Invariance == Spec => []IInv
BY InitIInv, NextIInv, PTL DEF Spec

-----------------------------------------------------------------------------

\* All variables keep their types; in particular no counter goes below zero or
\* above threadCount (Barrier::wait).
THEOREM TypeCorrect == Spec => []TypeOK
<1>1. IInv => TypeOK
  BY DEF IInv
<1> QED  BY <1>1, Invariance, PTL

\* The finalizer runs while all other threads spin (HierarchicBarrier::wait).
THEOREM FinalizerIsAlone == Spec => []FinalizerRunsAlone
<1>1. IInv => FinalizerRunsAlone
  BY AtFinalize DEF FinalizerRunsAlone, Still
<1> QED  BY <1>1, Invariance, PTL

\* No barrier is opened twice under a thread that spins at it: one byte is
\* enough for round, and one bit would be.
THEOREM NoLapping == Spec => []NobodyIsLapped
<1>1. IInv => NobodyIsLapped
  <2> SUFFICES ASSUME IInv, NEW t \in Threads, NEW u \in Threads,
                      pc[t] = "spin", pc[u] = "open", standsFor[u] = Meet(t)
               PROVE  prevRound[t] = round[Meet(t)]
    BY DEF NobodyIsLapped
  <2>1. standsFor[u] \in Barriers /\ Holds(u, standsFor[u])
    BY StandingHolds DEF IInv, Places
  <2>2. t \in Under(standsFor[u])
    BY Meeting DEF IInv, TypeOK, Places, Under
  <2> QED  BY <2>1, <2>2 DEF IInv, HeldIsStill, Still
<1> QED  BY <1>1, Invariance, PTL

\* wait returns true to the thread that ran the finalizer, and to no other.
THEOREM OneAnswer == Spec => OneIsTold
<1>1. ASSUME IInv, [Next]_vars, NEW t \in Threads,
             pc[t] # "outside", pc'[t] = "outside"
      PROVE  result'[t] = (t = finalizer)
  <2>1. CASE Open(t)
    BY <1>1, <2>1 DEF Open, IInv, Rounds, TypeOK
  <2>2. CASE StopSpinning(t)
    <3>1. LetGo(t) /\ t \in Under(standsFor[t]) /\ result'[t] = FALSE
      BY <1>1, <2>2 DEF StopSpinning, LetGo, IInv, TypeOK, Places, Under
    <3>2. t # finalizer
      BY <1>1, <3>1 DEF IInv, Rounds, LetGo
    <3> QED  BY <3>1, <3>2
  <2>3. Open(t) \/ StopSpinning(t)
    BY <1>1 DEF Next, Step, vars, LoadRound, Arrive, Reset, Finalize, Open,
                StopSpinning, GoBack, IInv, TypeOK
  <2> QED  BY <2>1, <2>2, <2>3
<1>2. IInv /\ [Next]_vars =>
        [\A t \in Threads : pc[t] # "outside" /\ pc'[t] = "outside" =>
           result'[t] = (t = finalizer)]_vars
  BY <1>1
<1> QED  BY <1>2, Invariance, PTL DEF Spec, OneIsTold

\* The tree of barriers is one barrier: every step is a step of BarrierPromise
\* or invisible there.
THEOREM Implements == Spec => Promise!SafeSpec
<1>1. Init => Promise!Init
  BY DEF Init, Promise!Init
<1>2. ASSUME IInv, NEW t \in Threads, Step(t)
      PROVE  [Promise!Next]_Promise!vars
  <2> USE <1>2 DEF Promise!Next, Promise!vars
  <2>1. CASE LoadRound(t)
    BY <2>1 DEF LoadRound, history
  <2>2. CASE Arrive(t)
    <3>1. CASE standsFor[t] = t
      <4>1. t \notin arrived \cup released
        BY <2>2, <3>1 DEF Arrive, IInv, Rounds, First
      <4> QED  BY <2>2, <3>1, <4>1 DEF Arrive, Promise!Enter
    <3>2. CASE standsFor[t] # t
      BY <2>2, <3>2 DEF Arrive
    <3> QED  BY <3>1, <3>2
  <2>3. CASE Reset(t)
    BY <2>3 DEF Reset, history
  <2>4. CASE Finalize(t)
    BY <2>4, AtFinalize DEF Finalize, Promise!Finalize
  <2>5. CASE Open(t)
    <3>1. t \in released
      BY <2>5, ComesFrom, Leaves DEF Open, IInv, Rounds, Under, Places
    <3> QED  BY <2>5, <3>1 DEF Open, GoBack, Promise!Leave
  <2>6. CASE StopSpinning(t)
    <3>1. t \in released
      BY <2>6 DEF StopSpinning, IInv, Rounds, Under, Places, LetGo
    <3> QED  BY <2>6, <3>1 DEF StopSpinning, GoBack, Promise!Leave
  <2> QED  BY <2>1, <2>2, <2>3, <2>4, <2>5, <2>6 DEF Step
<1>3. UNCHANGED vars => UNCHANGED Promise!vars
  BY DEF vars, history, Promise!vars
<1>4. IInv /\ [Next]_vars => [Promise!Next]_Promise!vars
  BY <1>2, <1>3 DEF Next
<1> QED  BY <1>1, <1>4, Invariance, PTL DEF Spec, Promise!SafeSpec

-----------------------------------------------------------------------------
(* Division, and the least number of a set: what is proved by induction    *)
(* over a level is proved by the least level that it fails at.             *)

LEMMA LeastOf ==
  ASSUME NEW S \in SUBSET Nat, S # {}
  PROVE  \E s \in S : \A t \in S : s <= t
<1>1. PICK s \in S : \A t \in S : <<t, s>> \notin OpToRel(<, Nat)
  BY WFMin, NatLessThanWellFounded
<1>2. \A t \in S : ~(t < s)
  BY <1>1 DEF OpToRel
<1>3. QED
  BY <1>2

LEMMA Division ==
  ASSUME NEW n \in Nat, NEW d \in Nat, d > 0
  PROVE  /\ n = d * (n \div d) + (n % d) /\ n % d \in 0..(d - 1)
         /\ n \div d \in Nat /\ n % d \in Nat
OBVIOUS

LEMMA Quotient ==
  ASSUME NEW n \in Nat, NEW d \in Nat, d > 0, NEW q \in Nat, NEW r \in Nat,
         n = d * q + r, r < d
  PROVE  n \div d = q /\ n % d = r
<1>1. n = d * (n \div d) + (n % d) /\ n % d \in 0..(d - 1) /\ n \div d \in Nat
  BY Division
<1>2. ~(n \div d < q)
  <2> SUFFICES ASSUME n \div d < q PROVE FALSE
    OBVIOUS
  <2>1. d * (n \div d) + d <= d * q
    <3>1. PICK m \in Nat : q = (n \div d) + 1 + m
      BY <1>1, q - (n \div d) - 1 \in Nat
    <3>2. d * q = d * (n \div d) + d + d * m /\ d * m >= 0
      BY <1>1, <3>1
    <3>3. QED
      BY <1>1, <3>2
  <2>2. QED
    BY <1>1, <2>1
<1>3. ~(q < n \div d)
  <2> SUFFICES ASSUME q < n \div d PROVE FALSE
    OBVIOUS
  <2>1. d * q + d <= d * (n \div d)
    <3>1. PICK m \in Nat : n \div d = q + 1 + m
      BY <1>1, (n \div d) - q - 1 \in Nat
    <3>2. d * (n \div d) = d * q + d + d * m /\ d * m >= 0
      BY <3>1
    <3>3. QED
      BY <1>1, <3>2
  <2>2. QED
    BY <1>1, <2>1
<1>4. n \div d = q
  BY <1>1, <1>2, <1>3
<1>5. QED
  BY <1>1, <1>4

LEMMA Multiple ==
  ASSUME NEW d \in Nat, d > 1, NEW q \in Nat
  PROVE  d * q >= q + q /\ (q > 0 => d * q >= d)
<1>1. d * q >= q + q
  <2>1. PICK m \in Nat : d = 2 + m
    BY d - 2 \in Nat
  <2>2. d * q = q + q + m * q /\ m * q >= 0 /\ m * q \in Nat
    BY <2>1
  <2>3. QED
    BY <2>2
<1>2. ASSUME q > 0 PROVE d * q >= d
  <2>1. PICK m \in Nat : q = 1 + m
    BY <1>2, q - 1 \in Nat
  <2>2. d * q = d + d * m /\ d * m >= 0 /\ d * m \in Nat
    BY <2>1
  <2>3. QED
    BY <2>2
<1>3. QED
  BY <1>1, <1>2

LEMMA InOrder ==
  ASSUME NEW d \in Nat, NEW a \in Nat, NEW b \in Nat, a <= b
  PROVE  d * a <= d * b /\ d * a \in Nat /\ d * b \in Nat /\ d * a = a * d
<1>1. PICK m \in Nat : b = a + m
  BY b - a \in Nat
<1>2. d * b = d * a + d * m /\ d * m >= 0
  BY <1>1
<1>3. QED
  BY <1>2

\* One more, counted in portions of d.
LEMMA OneMore ==
  ASSUME NEW n \in Nat, n > 0, NEW d \in Nat, d > 1
  PROVE  n \div d = IF n % d = 0 THEN (n - 1) \div d + 1 ELSE (n - 1) \div d
<1>1. n = d * (n \div d) + (n % d) /\ n % d \in 0..(d - 1) /\ n \div d \in Nat
  BY Division
<1>2. CASE n % d = 0
  <2>1. n \div d > 0
    <3>1. n \div d = 0 => d * (n \div d) = 0
      OBVIOUS
    <3>2. QED
      BY <1>1, <1>2, <3>1
  <2>2. d * ((n \div d) - 1) = d * (n \div d) - d
    BY <1>1
  <2>3. n - 1 = d * ((n \div d) - 1) + (d - 1) /\ n - 1 \in Nat /\ (n \div d) - 1 \in Nat
    BY <1>1, <1>2, <2>1, <2>2
  <2>4. (n - 1) \div d = (n \div d) - 1
    BY <2>3, Quotient
  <2>5. QED
    BY <1>1, <1>2, <2>4
<1>3. CASE n % d # 0
  <2>1. n - 1 = d * (n \div d) + ((n % d) - 1) /\ n - 1 \in Nat /\ (n % d) - 1 \in Nat
    BY <1>1, <1>3
  <2>2. (n - 1) \div d = n \div d
    BY <1>1, <2>1, Quotient
  <2>3. QED
    BY <1>3, <2>2
<1>4. QED
  BY <1>2, <1>3

\* Portions are counted from the front.
LEMMA Portion ==
  ASSUME NEW n \in Nat, n > 0, NEW d \in Nat, d > 1, NEW j \in 1..((n - 1) \div d + 1)
  PROVE  Cardinality({i \in 1..n : (i - 1) \div d + 1 = j})
           = IF j <= n \div d THEN d ELSE n % d
<1> DEFINE S == {i \in 1..n : (i - 1) \div d + 1 = j}
           top == IF j <= n \div d THEN d * j ELSE n
<1>1. /\ n = d * (n \div d) + (n % d) /\ n % d \in 0..(d - 1) /\ n \div d \in Nat
      /\ (n - 1) \div d \in Nat /\ j \in Nat /\ j >= 1
  BY Division
<1>2. d * (j - 1) \in Nat /\ d * j \in Nat /\ d * j = d * (j - 1) + d
  BY <1>1
<1>3. j > n \div d => j = (n \div d) + 1 /\ n % d # 0
  <2>1. n \div d = IF n % d = 0 THEN (n - 1) \div d + 1 ELSE (n - 1) \div d
    BY OneMore
  <2>2. j <= (n - 1) \div d + 1
    BY <1>1
  <2>3. QED
    BY <1>1, <2>1, <2>2
<1>4. top \in Nat /\ top <= n /\ (j <= n \div d => d * j <= n)
  <2>1. j <= n \div d => d * j <= d * (n \div d)
    <3> SUFFICES ASSUME j <= n \div d PROVE d * j <= d * (n \div d)
      OBVIOUS
    <3>1. PICK m \in Nat : n \div d = j + m
      BY <1>1, (n \div d) - j \in Nat
    <3>2. d * (n \div d) = d * j + d * m /\ d * m >= 0
      BY <1>1, <3>1
    <3>3. QED
      BY <1>2, <3>2
  <2>2. QED
    BY <1>1, <1>2, <2>1
<1>5. j > n \div d => n < d * j
  <2> SUFFICES ASSUME j > n \div d PROVE n < d * j
    OBVIOUS
  <2>1. d * (j - 1) = d * (n \div d)
    BY <1>1, <1>3
  <2>2. QED
    BY <1>1, <1>2, <2>1
<1>6. top <= d * j /\ (\A i \in 1..n : i <= d * j => i <= top)
  BY <1>1, <1>2, <1>4, <1>5
<1>7. ASSUME NEW i \in 1..n
      PROVE  (i - 1) \div d + 1 = j <=> i \in (d * (j - 1) + 1)..top
  <2>1. /\ i - 1 = d * ((i - 1) \div d) + ((i - 1) % d) /\ (i - 1) % d \in 0..(d - 1)
        /\ (i - 1) \div d \in Nat
    BY Division
  <2>2. CASE (i - 1) \div d + 1 = j
    <3>1. (i - 1) \div d = j - 1
      BY <1>1, <2>1, <2>2
    <3>2. i - 1 = d * (j - 1) + ((i - 1) % d)
      BY <2>1, <3>1
    <3>3. QED
      BY <1>2, <1>6, <2>1, <2>2, <3>2
  <2>3. CASE i \in (d * (j - 1) + 1)..top
    <3>1. /\ i - 1 \in Nat /\ i - 1 - d * (j - 1) \in Nat /\ i - 1 - d * (j - 1) < d
          /\ i - 1 = d * (j - 1) + (i - 1 - d * (j - 1)) /\ j - 1 \in Nat
      BY <1>1, <1>2, <1>4, <1>6, <2>3
    <3>2. (i - 1) \div d = j - 1
      BY <3>1, Quotient
    <3>3. QED
      BY <1>1, <2>3, <3>2
  <2>4. QED
    BY <2>2, <2>3
<1>8. S = (d * (j - 1) + 1)..top
  <2>1. \A i \in (d * (j - 1) + 1)..top : i \in 1..n
    BY <1>2, <1>4
  <2>2. QED
    BY <1>7, <2>1
<1>9. Cardinality(S) = IF d * (j - 1) + 1 > top THEN 0 ELSE top - (d * (j - 1) + 1) + 1
  <2>1. \A a, b \in Nat : Cardinality(a..b) = IF a > b THEN 0 ELSE b - a + 1
    BY FS_Interval
  <2>2. d * (j - 1) + 1 \in Nat /\ top \in Nat
    BY <1>2, <1>4
  <2> HIDE DEF S, top
  <2>3. QED
    BY <1>8, <2>1, <2>2
<1>10. CASE j <= n \div d
  <2>1. top = d * j
    BY <1>10
  <2>2. Cardinality(S) = d
    BY <1>2, <1>9, <2>1
  <2>3. QED
    BY <1>10, <2>2
<1>11. CASE j > n \div d
  <2>1. d * (j - 1) = d * (n \div d) /\ top = n
    BY <1>1, <1>3, <1>11
  <2>2. n = d * (j - 1) + (n % d) /\ n % d > 0 /\ n % d \in Nat
    BY <1>1, <1>3, <1>11, <2>1
  <2>3. Cardinality(S) = n % d
    BY <1>2, <1>9, <2>1, <2>2
  <2>4. QED
    BY <1>1, <1>11, <2>3
<1>12. QED
  BY <1>1, <1>10, <1>11

-----------------------------------------------------------------------------
(* The tree that create builds.                                            *)

\* One call of create.
LEMMA OneCall ==
  ASSUME NEW n \in Nat, n > 0
  PROVE  /\ NrBarriers(n) = (n - 1) \div threadsPerBarrier + 1
         /\ NrBarriers(n) \in Nat /\ NrBarriers(n) > 0
         /\ n > 1 => NrBarriers(n) < n
         /\ n <= threadsPerBarrier <=> NrBarriers(n) = 1
<1> DEFINE d == threadsPerBarrier
           q == (n - 1) \div d
<1>1. d \in Nat /\ d > 1
  BY FanInAssumption
<1>2. /\ n - 1 = d * q + ((n - 1) % d) /\ (n - 1) % d \in 0..(d - 1)
      /\ q \in Nat /\ n - 1 \in Nat
  BY <1>1, Division
<1>3. n \div d = IF n % d = 0 THEN q + 1 ELSE q
  BY <1>1, OneMore
<1>4. n % d \in Nat
  BY <1>1, Division
<1>5. NrBarriers(n) = q + 1
  BY <1>2, <1>3, <1>4 DEF NrBarriers, NrBarriersFull
<1>6. n > 1 => q + 1 < n
  <2>1. d * q >= q + q
    BY <1>1, <1>2, Multiple
  <2>2. d * q \in Nat
    BY <1>1, <1>2
  <2>3. QED
    BY <1>1, <1>2, <2>1, <2>2
<1>7. n <= d <=> q = 0
  <2>1. q = 0 => d * q = 0
    BY <1>1
  <2>2. q > 0 => d * q >= d
    BY <1>1, <1>2, Multiple
  <2>3. QED
    BY <1>1, <1>2, <2>1, <2>2
<1>8. QED
  BY <1>2, <1>5, <1>6, <1>7

Calls(size, n, w) ==
  /\ w \in [0..n -> Nat] /\ w[0] = size
  /\ \A l \in 0..n : w[l] > 0
  /\ \A l \in 1..n : w[l] = NrBarriers(w[l - 1])

\* The calls of create, as many as one likes, by the least number that there
\* could not be.
LEMMA CallsExist ==
  ASSUME NEW size \in Nat, size > 0, NEW n \in Nat
  PROVE  \E w : Calls(size, n, w)
<1> DEFINE Bad == {m \in Nat : ~\E w : Calls(size, m, w)}
<1> SUFFICES ASSUME Bad # {} PROVE FALSE
  OBVIOUS
<1>1. PICK m \in Bad : \A k \in Bad : m <= k
  BY LeastOf
<1>2. m # 0
  <2>1. PICK w : w = [l \in 0..0 |-> size]
    OBVIOUS
  <2>2. Calls(size, 0, w)
    BY <2>1 DEF Calls
  <2>3. QED
    BY <2>2
<1>3. m - 1 \in Nat /\ m - 1 \notin Bad
  BY <1>1, <1>2
<1>4. PICK w : Calls(size, m - 1, w)
  BY <1>3
<1>5. PICK v : v = [l \in 0..m |-> IF l = m THEN NrBarriers(w[m - 1]) ELSE w[l]]
  OBVIOUS
<1>6. w[m - 1] \in Nat /\ w[m - 1] > 0
  BY <1>3, <1>4 DEF Calls
<1>7. NrBarriers(w[m - 1]) \in Nat /\ NrBarriers(w[m - 1]) > 0
  BY <1>6, OneCall
<1>8. /\ v[m] = NrBarriers(w[m - 1])
      /\ \A l \in 0..(m - 1) : v[l] = w[l] /\ v[l] \in Nat /\ v[l] > 0
  BY <1>1, <1>4, <1>5 DEF Calls
<1>9. Calls(size, m, v)
  <2>1. v \in [0..m -> Nat] /\ \A l \in 0..m : v[l] > 0
    <3>1. \A l \in 0..m : l = m \/ l \in 0..(m - 1)
      BY <1>1
    <3>2. \A l \in 0..m : v[l] \in Nat /\ v[l] > 0
      BY <1>7, <1>8, <3>1
    <3>3. v = [l \in 0..m |-> v[l]]
      BY <1>5
    <3>4. QED
      BY <3>2, <3>3
  <2>2. v[0] = size
    BY <1>2, <1>3, <1>4, <1>8 DEF Calls
  <2>3. \A l \in 1..m : v[l] = NrBarriers(v[l - 1])
    <3> SUFFICES ASSUME NEW l \in 1..m PROVE v[l] = NrBarriers(v[l - 1])
      OBVIOUS
    <3>1. CASE l = m
      BY <1>3, <1>8, <3>1
    <3>2. CASE l # m
      <4>1. l \in 1..(m - 1) /\ l \in 0..(m - 1) /\ l - 1 \in 0..(m - 1)
        BY <1>1, <3>2
      <4>2. QED
        BY <1>4, <1>8, <4>1 DEF Calls
    <3>3. QED
      BY <3>1, <3>2
  <2>4. QED
    BY <2>1, <2>2, <2>3 DEF Calls
<1>10. QED
  BY <1>1, <1>9

LEMMA WidthIs ==
  ASSUME NEW size \in Nat, size > 0
  PROVE  Calls(size, size, Width(size))
<1>1. PICK w : Calls(size, size, w)
  BY CallsExist
<1>2. w = [l \in 0..size |-> IF l = 0 THEN size ELSE NrBarriers(w[l - 1])]
  <2>1. \A l \in 0..size : w[l] = IF l = 0 THEN size ELSE NrBarriers(w[l - 1])
    BY <1>1 DEF Calls
  <2>2. w = [l \in 0..size |-> w[l]]
    BY <1>1 DEF Calls
  <2>3. QED
    BY <2>1, <2>2
<1>3. PICK v : v = Width(size)
  OBVIOUS
<1>4. v = [l \in 0..size |-> IF l = 0 THEN size ELSE NrBarriers(v[l - 1])]
  BY <1>2, <1>3 DEF Width
<1>5. \A l \in 0..size : v[l] = w[l]
  <2> DEFINE Bad == {l \in 0..size : v[l] # w[l]}
  <2> SUFFICES ASSUME Bad # {} PROVE FALSE
    OBVIOUS
  <2>1. PICK l \in Bad : \A k \in Bad : l <= k
    <3>1. Bad \in SUBSET Nat
      OBVIOUS
    <3>2. QED
      BY <3>1, LeastOf
  <2>2. l # 0
    BY <1>2, <1>4
  <2>3. l - 1 \in 0..size /\ l - 1 \notin Bad
    BY <2>1, <2>2
  <2>4. v[l] = NrBarriers(v[l - 1]) /\ w[l] = NrBarriers(w[l - 1])
    BY <1>2, <1>4, <2>2
  <2>5. QED
    BY <2>3, <2>4
<1>6. v = w
  <2>1. v = [l \in 0..size |-> v[l]] /\ w = [l \in 0..size |-> w[l]]
    BY <1>1, <1>4 DEF Calls
  <2>2. QED
    BY <1>5, <2>1
<1>7. QED
  BY <1>1, <1>3, <1>6

LEMMA TreeFacts ==
  ASSUME NEW size \in Nat, size > 0
  PROVE  /\ Height(size) \in 1..size /\ Width(size)[0] = size
         /\ \A l \in 0..size : Width(size)[l] \in Nat /\ Width(size)[l] > 0
         /\ \A l \in 1..size :
              /\ Width(size)[l] = NrBarriers(Width(size)[l - 1])
              /\ Width(size)[l] = (Width(size)[l - 1] - 1) \div threadsPerBarrier + 1
         /\ Width(size)[Height(size)] = 1
         /\ \A l \in 1..(Height(size) - 1) : Width(size)[l] > 1
<1> PICK w : w = Width(size)
  OBVIOUS
<1>1. /\ w[0] = size
      /\ \A l \in 0..size : w[l] \in Nat /\ w[l] > 0
      /\ \A l \in 1..size : w[l] = NrBarriers(w[l - 1])
  BY WidthIs DEF Calls
<1>2. \A l \in 1..size : l - 1 \in 0..size /\ l \in 0..size
  OBVIOUS
<1>3. \A l \in 1..size :
        /\ w[l] = (w[l - 1] - 1) \div threadsPerBarrier + 1
        /\ w[l - 1] > 1 => w[l] < w[l - 1]
        /\ w[l - 1] <= threadsPerBarrier <=> w[l] = 1
  BY <1>1, <1>2, OneCall
<1>4. \E l \in 1..size : w[l] = 1
  <2> SUFFICES ASSUME \A l \in 1..size : w[l] # 1 PROVE FALSE
    OBVIOUS
  <2> DEFINE Bad == {l \in 1..size : w[l] + l > size}
  <2>1. Bad \in SUBSET Nat
    OBVIOUS
  <2>2. size \in Bad
    BY <1>1
  <2>3. PICK l \in Bad : \A k \in Bad : l <= k
    BY <2>1, <2>2, LeastOf
  <2>4. l \in 1..size /\ w[l] + l > size /\ w[l] \in Nat /\ w[l] > 1
    BY <1>1, <1>2, <2>3
  <2>5. w[l - 1] \in Nat /\ w[l - 1] > 1 /\ w[l] < w[l - 1]
    <3>1. w[l - 1] \in Nat /\ w[l - 1] > 0
      BY <1>1, <1>2, <2>4
    <3>2. w[l - 1] # 1
      <4>1. w[l - 1] = 1 => w[l - 1] <= threadsPerBarrier
        BY FanInAssumption
      <4>2. QED
        BY <1>3, <2>4, <4>1
    <3>3. QED
      BY <1>3, <2>4, <3>1, <3>2
  <2>6. CASE l = 1
    BY <1>1, <2>4, <2>5, <2>6
  <2>7. CASE l # 1
    <3>1. l - 1 \in 1..size /\ ~(l <= l - 1)
      BY <2>4, <2>7
    <3>2. l - 1 \notin Bad
      BY <2>3, <3>1
    <3>3. w[l - 1] + (l - 1) <= size
      BY <2>5, <3>1, <3>2
    <3>4. QED
      BY <2>4, <2>5, <3>3
  <2>8. QED
    BY <2>6, <2>7
<1>5. \E l \in 1..size :
        w[l - 1] <= threadsPerBarrier /\ \A k \in 1..l - 1 : w[k - 1] > threadsPerBarrier
  <2> DEFINE Ends == {l \in 1..size : w[l] = 1}
  <2>1. Ends \in SUBSET Nat /\ Ends # {}
    BY <1>4
  <2>2. PICK l \in Ends : \A k \in Ends : l <= k
    BY <2>1, LeastOf
  <2>3. \A k \in 1..l - 1 : k \in 1..size /\ k \notin Ends
    BY <2>2
  <2>4. \A k \in 1..l - 1 : w[k - 1] > threadsPerBarrier
    <3> SUFFICES ASSUME NEW k \in 1..l - 1 PROVE w[k - 1] > threadsPerBarrier
      OBVIOUS
    <3>1. k \in 1..size /\ w[k] # 1
      BY <2>3
    <3>2. w[k - 1] \in Nat
      BY <1>1, <1>2, <3>1
    <3>3. ~(w[k - 1] <= threadsPerBarrier)
      BY <1>3, <3>1
    <3>4. QED
      BY <3>2, <3>3, FanInAssumption
  <2>5. w[l - 1] <= threadsPerBarrier
    BY <1>3, <2>2
  <2>6. QED
    BY <2>4, <2>5
<1>6. PICK h : h = Height(size)
  OBVIOUS
<1>7. /\ h \in 1..size /\ w[h - 1] <= threadsPerBarrier
      /\ \A k \in 1..h - 1 : w[k - 1] > threadsPerBarrier
  <2>1. h = CHOOSE l \in 1..size :
              /\ w[l - 1] <= threadsPerBarrier
              /\ \A k \in 1..l - 1 : w[k - 1] > threadsPerBarrier
    BY <1>6 DEF Height
  <2>2. QED
    BY <1>5, <2>1
<1>8. w[h] = 1
  BY <1>3, <1>7
<1>9. \A l \in 1..(h - 1) : w[l] > 1
  <2> SUFFICES ASSUME NEW l \in 1..(h - 1) PROVE w[l] > 1
    OBVIOUS
  <2>1. l \in 1..size /\ l \in 0..size /\ l - 1 \in 0..size
    BY <1>7
  <2>2. w[l - 1] > threadsPerBarrier /\ w[l - 1] \in Nat
    BY <1>1, <1>7, <2>1
  <2>3. w[l] # 1 /\ w[l] \in Nat /\ w[l] > 0
    BY <1>1, <1>3, <2>1, <2>2, FanInAssumption
  <2>4. QED
    BY <2>3
<1>10. QED
  BY <1>1, <1>3, <1>6, <1>7, <1>8, <1>9

\* The barrier for the rest is no exception: all find their parent alike.
LEMMA ParentIs ==
  ASSUME NEW size \in Nat, size > 0, NEW l \in 1..(Height(size) - 1),
         NEW i \in 1..Width(size)[l]
  PROVE  /\ ParentLevel(size, <<l, i>>) = <<l + 1, (i - 1) \div threadsPerBarrier + 1>>
         /\ (i - 1) \div threadsPerBarrier \in Nat
<1> DEFINE w == Width(size)
           d == threadsPerBarrier
<1>1. d \in Nat /\ d > 1
  BY FanInAssumption
<1>2. Height(size) \in 1..size
  BY TreeFacts
<1>3. l - 1 \in 0..size /\ l \in 0..size /\ l \in 1..size /\ l + 1 \in 1..size
  BY <1>2
<1>4. /\ w[l - 1] \in Nat /\ w[l - 1] > 0 /\ w[l] \in Nat
      /\ w[l] = (w[l - 1] - 1) \div d + 1
      /\ w[l + 1] = (w[l] - 1) \div d + 1
  <2>1. w[l + 1] = (w[(l + 1) - 1] - 1) \div d + 1 /\ (l + 1) - 1 = l
    BY <1>3, TreeFacts
  <2>2. QED
    BY <1>3, <2>1, TreeFacts
<1>5. (i - 1) \div d \in Nat
  BY <1>1, <1>4, Division
<1>6. ASSUME ~(i <= NrBarriersFull(w[l - 1])) PROVE i = w[l]
  <2>1. PICK n \in Nat : n = w[l - 1] /\ n > 0
    BY <1>4
  <2>2. /\ n \div d = IF n % d = 0 THEN (n - 1) \div d + 1 ELSE (n - 1) \div d
        /\ (n - 1) \div d \in Nat
    <3>1. n \div d = IF n % d = 0 THEN (n - 1) \div d + 1 ELSE (n - 1) \div d
      BY <1>1, <2>1, OneMore
    <3>2. n - 1 \in Nat
      BY <2>1
    <3>3. (n - 1) \div d \in Nat
      BY <1>1, <3>2, Division
    <3>4. QED
      BY <3>1, <3>3
  <2>3. i > n \div d /\ i <= (n - 1) \div d + 1
    BY <1>4, <1>6, <2>1, <2>2 DEF NrBarriersFull
  <2>4. QED
    BY <1>4, <2>1, <2>2, <2>3
<1>7. ParentLevel(size, <<l, i>>) =
        <<l + 1, IF i <= NrBarriersFull(w[l - 1]) THEN (i - 1) \div d + 1 ELSE w[l + 1]>>
  BY DEF ParentLevel
<1>8. QED
  BY <1>4, <1>5, <1>6, <1>7

\* A barrier counts as many as there are that find it.
LEMMA CapacityIs ==
  ASSUME NEW size \in Nat, size > 0, NEW l \in 1..Height(size), NEW j \in 1..Width(size)[l]
  PROVE  Capacity(size, <<l, j>>)
           = Cardinality({i \in 1..Width(size)[l - 1] : (i - 1) \div threadsPerBarrier + 1 = j})
<1>1. threadsPerBarrier \in Nat /\ threadsPerBarrier > 1
  BY FanInAssumption
<1>2. Height(size) \in 1..size
  BY TreeFacts
<1>3. l - 1 \in 0..size /\ l \in 1..size
  BY <1>2
<1>4. PICK n \in Nat : n = Width(size)[l - 1] /\ n > 0
  BY <1>3, TreeFacts
<1>5. j \in 1..((n - 1) \div threadsPerBarrier + 1)
  BY <1>3, <1>4, TreeFacts
<1>6. Capacity(size, <<l, j>>)
        = IF j <= n \div threadsPerBarrier THEN threadsPerBarrier ELSE n % threadsPerBarrier
  BY <1>4 DEF Capacity, NrBarriersFull
<1>7. QED
  BY <1>1, <1>4, <1>5, <1>6, Portion

\* The walk by stride meets each parent once.
LEMMA CollectedIs ==
  ASSUME NEW size \in Nat, size > 0, NEW l \in 1..(Height(size) - 1)
  PROVE  Collected(size, l) = [k \in 1..Width(size)[l + 1] |-> <<l + 1, k>>]
<1> DEFINE d == threadsPerBarrier
<1>1. d \in Nat /\ d > 1
  BY FanInAssumption
<1>2. Height(size) \in 1..size
  BY TreeFacts
<1>3. l \in 0..size /\ l + 1 \in 1..size /\ (l + 1) - 1 = l
  BY <1>2
<1>4. PICK n \in Nat : n = Width(size)[l] /\ n > 0
  BY <1>3, TreeFacts
<1>5. NrBarriers(n) = Width(size)[l + 1] /\ NrBarriers(n) = (n - 1) \div d + 1
  BY <1>3, <1>4, TreeFacts, OneCall
<1>6. ASSUME NEW k \in 1..((n - 1) \div d + 1)
      PROVE  ParentLevel(size, <<l, (k - 1) * d + 1>>) = <<l + 1, k>>
  <2>1. PICK q \in Nat : q = (n - 1) \div d
    <3>1. n - 1 \in Nat
      BY <1>4
    <3>2. QED
      BY <1>1, <3>1, Division
  <2>2. d * q <= n - 1
    <3>1. n - 1 \in Nat
      BY <1>4
    <3>2. n - 1 = d * q + ((n - 1) % d) /\ (n - 1) % d \in Nat
      BY <1>1, <2>1, <3>1, Division
    <3>3. QED
      BY <1>1, <3>2
  <2>3. PICK c \in Nat : c = k - 1 /\ c <= q
    BY <1>6, <2>1
  <2>4. PICK p \in Nat : p = d * c /\ p = c * d /\ p <= n - 1
    BY <1>1, <1>4, <2>2, <2>3, InOrder
  <2>5. (k - 1) * d = p /\ p + 1 \in 1..n
    BY <1>4, <2>3, <2>4
  <2>6. p \div d = c
    <3>1. p = d * c + 0
      BY <2>4
    <3>2. QED
      BY <1>1, <3>1, Quotient
  <2>7. (p + 1) - 1 = p
    OBVIOUS
  <2>8. ParentLevel(size, <<l, p + 1>>) = <<l + 1, p \div d + 1>>
    BY <1>4, <2>5, <2>7, ParentIs
  <2>9. QED
    BY <2>3, <2>5, <2>6, <2>8
<1>7. Collected(size, l) =
        [k \in 1..((n - 1) \div d + 1) |-> ParentLevel(size, <<l, (k - 1) * d + 1>>)]
  BY <1>4, <1>5 DEF Collected
<1>8. QED
  BY <1>5, <1>6, <1>7

\* More makes more portions.
LEMMA MorePortions ==
  ASSUME NEW d \in Nat, d > 0, NEW a \in Nat, NEW b \in Nat, a <= b
  PROVE  a \div d <= b \div d /\ a \div d \in Nat /\ b \div d \in Nat /\ a \div d <= a
<1>1. PICK p \in Nat, q \in Nat : p = a \div d /\ q = b \div d
  BY Division
<1>2. d * p <= a /\ b < d * q + d /\ d * p \in Nat /\ d * q \in Nat
  <2>1. a = d * p + (a % d) /\ a % d \in 0..(d - 1)
    BY <1>1, Division
  <2>2. b = d * q + (b % d) /\ b % d \in 0..(d - 1)
    BY <1>1, Division
  <2>3. d * p \in Nat /\ d * q \in Nat
    OBVIOUS
  <2>4. QED
    BY <2>1, <2>2, <2>3
<1>3. p <= q
  <2> SUFFICES ASSUME q + 1 <= p PROVE FALSE
    BY <1>1
  <2>1. d * (q + 1) <= d * p
    BY <1>1, InOrder
  <2>2. d * (q + 1) = d * q + d
    OBVIOUS
  <2>3. QED
    BY <1>2, <2>1, <2>2
<1>4. p <= a
  <2>1. PICK m \in Nat : d = 1 + m
    BY d - 1 \in Nat
  <2>2. d * p = p + m * p /\ m * p >= 0 /\ m * p \in Nat
    BY <2>1
  <2>3. QED
    BY <1>2, <2>2
<1>5. QED
  BY <1>1, <1>3, <1>4

LEMMA InTree ==
  ASSUME NEW size \in Nat, size > 0, NEW b \in Tree(size)
  PROVE  \E l \in 1..Height(size) : \E i \in 1..Width(size)[l] : b = <<l, i>>
BY DEF Tree, Level

LEMMA LevelInTree ==
  ASSUME NEW size \in Nat, size > 0, NEW l \in 1..Height(size), NEW i \in 1..Width(size)[l]
  PROVE  <<l, i>> \in Tree(size) /\ <<l, i>> \in Level(size, l)
BY DEF Tree, Level

\* What has a number can be counted by its number.
LEMMA SameNumber ==
  ASSUME NEW l, NEW A, IsFiniteSet(A)
  PROVE  Cardinality({<<l, i>> : i \in A}) = Cardinality(A)
<1> DEFINE T == {<<l, i>> : i \in A}
           f == [i \in A |-> <<l, i>>]
<1>1. f \in Bijection(A, T)
  <2>1. f \in [A -> T]
    OBVIOUS
  <2>2. \A x, y \in A : f[x] = f[y] => x = y
    OBVIOUS
  <2>3. \A t \in T : \E x \in A : f[x] = t
    OBVIOUS
  <2> HIDE DEF f, T
  <2>4. QED
    BY <2>1, <2>2, <2>3 DEF Bijection, Injection, Surjection, IsInjective
<1>2. ExistsBijection(A, T)
  BY <1>1 DEF ExistsBijection
<1> HIDE DEF T
<1>3. QED
  BY <1>2, FS_Bijection DEF T

\* s lists a level of n barriers.
Lists(s, n, L) == DOMAIN s = 1..n /\ \A k \in 1..n : s[k] = <<L, k>>

\* How often a barrier is on a level.
LEMMA OnItsLevel ==
  ASSUME NEW s, NEW n \in Nat, NEW L, Lists(s, n, L),
         NEW l, NEW i \in Nat, l = L => i \in 1..n
  PROVE  Times(s, <<l, i>>) = IF l = L THEN 1 ELSE 0
<1> DEFINE S == {k \in DOMAIN s : s[k] = <<l, i>>}
<1>1. CASE l = L
  <2>1. S = {i}
    BY <1>1 DEF Lists
  <2>2. Cardinality({i}) = 1
    BY FS_Singleton
  <2>3. QED
    BY <1>1, <2>1, <2>2 DEF Times
<1>2. CASE l # L
  <2>1. S = {}
    BY <1>2 DEF Lists
  <2>2. QED
    BY <1>2, <2>1, FS_EmptySet DEF Times
<1>3. QED
  BY <1>1, <1>2

LEMMA NeverInNothing == \A b : Times(<<>>, b) = 0
<1>1. \A b : {k \in DOMAIN <<>> : <<>>[k] = b} = {}
  OBVIOUS
<1>2. QED
  BY <1>1, FS_EmptySet DEF Times

-----------------------------------------------------------------------------
(* The run of a group.                                                     *)

\* The barrier that the k-th thread gets
Given(k) == <<1, (k - 1) \div threadsPerBarrier + 1>>

\* The loop of run fills a barrier before it takes the next.
Filling ==
  /\ groupStage = "spawn" =>
       /\ Len(threads) <= groupSize - 1
       /\ group = IF Len(threads) = 0 THEN 0
                  ELSE (Len(threads) - 1) \div threadsPerBarrier + 1
  /\ groupStage # "spawn" => Len(threads) = groupSize
  /\ \A k \in 1..Len(threads) : threads[k] = Given(k)

\* destroy is called with a whole level, and has freed those below.
Freeing ==
  \E l \in 1..Height(groupSize) :
    /\ groupStage \in {"spawn", "run"} => l = 1
    /\ these = [i \in 1..Width(groupSize)[l] |-> <<l, i>>]
    /\ groupStage # "end" =>
         \A b \in Tree(groupSize) : freed[b] = IF b[1] < l THEN 1 ELSE 0
    /\ groupStage = "end" => \A b \in Tree(groupSize) : freed[b] = 1

GroupInv == GroupTypeOK /\ Filling /\ Freeing

\* A thread that the group has room for gets a barrier of the tree.
LEMMA GivenIsThere ==
  ASSUME NEW size \in Nat, size > 0, NEW k \in 1..size
  PROVE  Given(k) \in Level(size, 1) /\ (k - 1) \div threadsPerBarrier + 1 \in 1..size
<1>1. threadsPerBarrier \in Nat /\ threadsPerBarrier > 1
  BY FanInAssumption
<1>2. Width(size)[1] = (size - 1) \div threadsPerBarrier + 1
  <2>1. 1 \in 1..size /\ 1 - 1 = 0
    OBVIOUS
  <2>2. QED
    BY <2>1, TreeFacts
<1>3. /\ (k - 1) \div threadsPerBarrier <= (size - 1) \div threadsPerBarrier
      /\ (k - 1) \div threadsPerBarrier \in Nat
      /\ (k - 1) \div threadsPerBarrier <= k - 1
      /\ (size - 1) \div threadsPerBarrier \in Nat
  <2>1. k - 1 \in Nat /\ size - 1 \in Nat /\ k - 1 <= size - 1
    OBVIOUS
  <2>2. QED
    BY <1>1, <2>1, MorePortions
<1>4. (k - 1) \div threadsPerBarrier + 1 \in 1..Width(size)[1]
  BY <1>2, <1>3
<1>5. QED
  BY <1>3, <1>4 DEF Given, Level

LEMMA GroupInitInv == GroupInit => GroupInv
<1> SUFFICES ASSUME GroupInit PROVE GroupInv
  OBVIOUS
<1>1. groupSize \in Nat /\ groupSize > 0
  BY MaxSizeAssumption DEF GroupInit
<1>2. 1 \in 1..Height(groupSize) /\ Width(groupSize)[1] \in Nat
  <2>1. Height(groupSize) \in 1..groupSize /\ 1 \in 0..groupSize
    BY <1>1, TreeFacts
  <2>2. QED
    BY <1>1, <2>1, TreeFacts
<1>3. these \in Seq(Tree(groupSize))
  <2>1. \A i \in 1..Width(groupSize)[1] : <<1, i>> \in Tree(groupSize)
    BY <1>1, <1>2, LevelInTree
  <2>2. QED
    BY <1>2, <2>1 DEF GroupInit
<1>4. GroupTypeOK
  BY <1>1, <1>3, MaxSizeAssumption DEF GroupInit, GroupTypeOK
<1>5. Filling
  BY <1>1 DEF GroupInit, Filling
<1>6. Freeing
  <2>1. \A b \in Tree(groupSize) : freed[b] = IF b[1] < 1 THEN 1 ELSE 0
    <3> SUFFICES ASSUME NEW b \in Tree(groupSize) PROVE freed[b] = IF b[1] < 1 THEN 1 ELSE 0
      OBVIOUS
    <3>1. freed[b] = 0
      BY DEF GroupInit
    <3>2. PICK l \in 1..Height(groupSize) : b[1] = l
      BY <1>1, InTree
    <3>3. Height(groupSize) \in 1..groupSize
      BY <1>1, TreeFacts
    <3>4. QED
      BY <3>1, <3>2, <3>3
  <2>2. QED
    BY <1>2, <2>1 DEF GroupInit, Freeing
<1>7. QED
  BY <1>4, <1>5, <1>6 DEF GroupInv

LEMMA GroupSizes ==
  ASSUME GroupTypeOK
  PROVE  /\ groupSize \in Nat /\ groupSize > 0 /\ groupSize <= MaxSize /\ MaxSize \in Nat
         /\ Len(threads) \in Nat /\ threadsPerBarrier \in Nat /\ threadsPerBarrier > 1
BY MaxSizeAssumption, FanInAssumption DEF GroupTypeOK

LEMMA SpawnKeeps == GroupInv /\ Spawn => GroupInv'
<1> SUFFICES ASSUME GroupInv, Spawn PROVE GroupInv'
  OBVIOUS
<1> PICK n : n = Len(threads)
  OBVIOUS
<1>1. GroupTypeOK /\ Filling /\ Freeing
  BY DEF GroupInv
<1>2. /\ groupSize \in Nat /\ groupSize > 0 /\ groupSize <= MaxSize /\ MaxSize \in Nat
      /\ n \in Nat /\ threadsPerBarrier \in Nat /\ threadsPerBarrier > 1
  BY <1>1, GroupSizes
<1>3. /\ groupStage = "spawn" /\ groupStage' = "spawn" /\ n < groupSize - 1
      /\ groupSize' = groupSize /\ these' = these /\ freed' = freed
      /\ threads' = Append(threads, <<1, group'>>)
      /\ group' = IF n % threadsPerBarrier = 0 THEN group + 1 ELSE group
  BY DEF Spawn
<1>4. group' = n \div threadsPerBarrier + 1
  <2>1. group = IF n = 0 THEN 0 ELSE (n - 1) \div threadsPerBarrier + 1
    BY <1>1, <1>3 DEF Filling
  <2>2. CASE n = 0
    <3>1. 0 = threadsPerBarrier * 0 + 0
      BY <1>2
    <3>2. 0 \div threadsPerBarrier = 0 /\ 0 % threadsPerBarrier = 0
      BY <1>2, <3>1, Quotient
    <3>3. QED
      BY <1>3, <2>1, <2>2, <3>2
  <2>3. CASE n # 0
    <3>1. PICK p : p = (n - 1) \div threadsPerBarrier
      OBVIOUS
    <3>2. p \in Nat
      <4>1. n - 1 \in Nat
        BY <1>2, <2>3
      <4>2. QED
        BY <1>2, <3>1, <4>1, Division
    <3>3. n \div threadsPerBarrier = IF n % threadsPerBarrier = 0 THEN p + 1 ELSE p
      <4>1. n > 0
        BY <1>2, <2>3
      <4>2. QED
        BY <1>2, <3>1, <4>1, OneMore
    <3>4. group = p + 1
      BY <2>1, <2>3, <3>1
    <3>5. QED
      BY <1>3, <3>2, <3>3, <3>4
  <2>4. QED
    BY <2>2, <2>3
<1>5. /\ threads \in Seq(Level(groupSize, 1)) /\ n + 1 \in 1..groupSize
      /\ <<1, group'>> = Given(n + 1) /\ (n + 1) - 1 = n
  BY <1>1, <1>2, <1>3, <1>4 DEF Given, GroupTypeOK
<1>6. <<1, group'>> \in Level(groupSize, 1) /\ group' \in 1..groupSize
  BY <1>2, <1>4, <1>5, GivenIsThere
<1>7. /\ threads' \in Seq(Level(groupSize, 1)) /\ Len(threads') = n + 1
      /\ \A k \in 1..n : threads'[k] = threads[k]
      /\ threads'[n + 1] = <<1, group'>>
  BY <1>3, <1>5, <1>6
<1>8. GroupTypeOK'
  BY <1>1, <1>2, <1>3, <1>5, <1>6, <1>7 DEF GroupTypeOK
<1>9. Filling'
  <2>1. \A k \in 1..(n + 1) : threads'[k] = Given(k)
    BY <1>1, <1>2, <1>5, <1>7 DEF Filling
  <2>2. group' = (Len(threads') - 1) \div threadsPerBarrier + 1
    BY <1>4, <1>5, <1>7
  <2>3. Len(threads') # 0 /\ Len(threads') <= groupSize - 1
    BY <1>2, <1>3, <1>7
  <2>4. QED
    BY <1>3, <1>7, <2>1, <2>2, <2>3 DEF Filling, Given
<1>10. Freeing'
  BY <1>1, <1>3 DEF Freeing
<1>11. QED
  BY <1>8, <1>9, <1>10 DEF GroupInv

LEMMA JoinKeeps == GroupInv /\ Join => GroupInv'
<1> SUFFICES ASSUME GroupInv, Join PROVE GroupInv'
  OBVIOUS
<1>1. GroupTypeOK /\ Filling /\ Freeing
  BY DEF GroupInv
<1>2. groupSize \in Nat /\ groupSize > 0
  BY <1>1, GroupSizes
<1>3. /\ groupStage = "spawn" /\ groupStage' = "run" /\ Len(threads) = groupSize - 1
      /\ groupSize' = groupSize /\ group' = group /\ these' = these /\ freed' = freed
      /\ threads' = Append(threads, <<1, Width(groupSize)[1]>>)
  BY DEF Join
<1>4. <<1, Width(groupSize)[1]>> = Given(groupSize)
  <2>1. 1 \in 1..groupSize /\ 1 - 1 = 0
    BY <1>2
  <2>2. QED
    BY <1>2, <2>1, TreeFacts DEF Given
<1>5. Given(groupSize) \in Level(groupSize, 1)
  BY <1>2, GivenIsThere
<1>6. threads \in Seq(Level(groupSize, 1))
  BY <1>1 DEF GroupTypeOK
<1>7. /\ threads' \in Seq(Level(groupSize, 1)) /\ Len(threads') = groupSize
      /\ \A k \in 1..(groupSize - 1) : threads'[k] = threads[k]
      /\ threads'[groupSize] = Given(groupSize)
  <2>1. PICK g : g = Given(groupSize)
    OBVIOUS
  <2>2. threads' = Append(threads, g) /\ g \in Level(groupSize, 1)
    BY <1>3, <1>4, <1>5, <2>1
  <2>3. /\ threads' \in Seq(Level(groupSize, 1)) /\ Len(threads') = Len(threads) + 1
        /\ \A k \in 1..Len(threads) : threads'[k] = threads[k]
        /\ threads'[Len(threads) + 1] = g
    BY <1>6, <2>2
  <2>4. Len(threads) + 1 = groupSize
    BY <1>2, <1>3
  <2>5. QED
    BY <1>3, <2>1, <2>3, <2>4
<1>8. GroupTypeOK'
  BY <1>1, <1>2, <1>3, <1>7 DEF GroupTypeOK
<1>9. Filling'
  <2>1. \A k \in 1..groupSize : k \in 1..(groupSize - 1) \/ k = groupSize
    BY <1>2
  <2>2. \A k \in 1..(groupSize - 1) : threads[k] = Given(k)
    BY <1>1, <1>3 DEF Filling
  <2>3. \A k \in 1..groupSize : threads'[k] = Given(k)
    BY <1>7, <2>1, <2>2
  <2>4. QED
    BY <1>3, <1>7, <2>3 DEF Filling, Given
<1>10. Freeing'
  BY <1>1, <1>3 DEF Freeing
<1>11. QED
  BY <1>8, <1>9, <1>10 DEF GroupInv

LEMMA AllEndedKeeps == GroupInv /\ AllEnded => GroupInv'
<1> SUFFICES ASSUME GroupInv, AllEnded PROVE GroupInv'
  OBVIOUS
<1>1. GroupTypeOK /\ Filling /\ Freeing
  BY DEF GroupInv
<1>2. /\ groupStage = "run" /\ groupStage' = "destroy"
      /\ groupSize' = groupSize /\ group' = group /\ these' = these /\ freed' = freed
      /\ threads' = threads
  BY DEF AllEnded
<1>3. GroupTypeOK'
  BY <1>1, <1>2 DEF GroupTypeOK
<1>4. Filling'
  BY <1>1, <1>2 DEF Filling, Given
<1>5. Freeing'
  BY <1>1, <1>2 DEF Freeing
<1>6. QED
  BY <1>3, <1>4, <1>5 DEF GroupInv

LEMMA DestroyKeeps == GroupInv /\ Destroy => GroupInv'
<1> SUFFICES ASSUME GroupInv, Destroy PROVE GroupInv'
  OBVIOUS
<1> DEFINE W == Width(groupSize)
           H == Height(groupSize)
           parents == IF these[1] = TreeRoot(groupSize) THEN <<>>
                      ELSE Collected(groupSize, these[1][1])
           goOn == Len(parents) > 1
<1>1. GroupTypeOK /\ Filling /\ Freeing
  BY DEF GroupInv
<1>2. groupSize \in Nat /\ groupSize > 0
  BY <1>1, GroupSizes
<1>3. /\ groupStage = "destroy" /\ groupSize' = groupSize /\ group' = group
      /\ threads' = threads
      /\ freed' = [b \in Tree(groupSize) |->
           freed[b] + Times(these, b) + (IF goOn THEN 0 ELSE Times(parents, b))]
      /\ these' = IF goOn THEN parents ELSE these
      /\ groupStage' = IF goOn THEN "destroy" ELSE "end"
  BY DEF Destroy
<1>4. PICK l \in 1..H :
        /\ these = [i \in 1..W[l] |-> <<l, i>>]
        /\ \A b \in Tree(groupSize) : freed[b] = IF b[1] < l THEN 1 ELSE 0
  BY <1>1, <1>3 DEF Freeing
<1>5. /\ H \in 1..groupSize /\ W[H] = 1
      /\ \A k \in 1..H : W[k] \in Nat /\ W[k] > 0
      /\ \A k \in 1..(H - 1) : W[k] > 1
  <2>1. H \in 1..groupSize
    BY <1>2, TreeFacts
  <2>2. \A k \in 1..H : k \in 0..groupSize
    BY <1>2, <2>1
  <2>3. QED
    BY <1>2, <2>1, <2>2, TreeFacts
<1>6. these[1] = <<l, 1>> /\ these[1][1] = l /\ TreeRoot(groupSize) = <<H, 1>>
  BY <1>4, <1>5 DEF TreeRoot
<1>7. ASSUME NEW b \in Tree(groupSize)
      PROVE  /\ b[1] \in 1..H
             /\ Times(these, b) = IF b[1] = l THEN 1 ELSE 0
  <2>1. PICK k \in 1..H : \E i \in 1..W[k] : b = <<k, i>>
    BY <1>2, InTree
  <2>2. PICK i \in 1..W[k] : b = <<k, i>>
    BY <2>1
  <2>3. W[l] \in Nat /\ i \in Nat /\ (k = l => i \in 1..W[l])
    BY <1>5, <2>1, <2>2
  <2>4. Lists(these, W[l], l)
    BY <1>4 DEF Lists
  <2>5. Times(these, <<k, i>>) = IF k = l THEN 1 ELSE 0
    BY <2>3, <2>4, OnItsLevel
  <2>6. QED
    BY <2>1, <2>2, <2>5
<1>8. CASE l = H
  <2>1. parents = <<>> /\ ~goOn
    BY <1>6, <1>8
  <2>2. \A b \in Tree(groupSize) : freed'[b] = 1
    <3> SUFFICES ASSUME NEW b \in Tree(groupSize) PROVE freed'[b] = 1
      OBVIOUS
    <3>1. freed'[b] = freed[b] + Times(these, b) + Times(<<>>, b)
      BY <1>3, <2>1
    <3>2. Times(<<>>, b) = 0
      BY NeverInNothing
    <3>3. QED
      BY <1>4, <1>5, <1>7, <1>8, <3>1, <3>2
  <2>3. groupStage' = "end" /\ these' = these
    BY <1>3, <2>1
  <2>4. GroupTypeOK'
    <3>1. freed' = [b \in Tree(groupSize) |-> freed'[b]]
      BY <1>3
    <3>2. freed' \in [Tree(groupSize) -> Nat]
      BY <2>2, <3>1
    <3>3. QED
      BY <1>1, <1>3, <2>3, <3>2 DEF GroupTypeOK
  <2>5. Filling'
    BY <1>1, <1>3, <2>3 DEF Filling, Given
  <2>6. Freeing'
    BY <1>3, <1>4, <2>2, <2>3 DEF Freeing
  <2>7. QED
    BY <2>4, <2>5, <2>6 DEF GroupInv
<1>9. CASE l # H
  <2>1. l \in 1..(H - 1) /\ l + 1 \in 1..H /\ these[1] # TreeRoot(groupSize)
    BY <1>5, <1>6, <1>9
  <2>2. parents = [k \in 1..W[l + 1] |-> <<l + 1, k>>]
    BY <1>2, <1>6, <2>1, CollectedIs
  <2>3. W[l + 1] \in Nat /\ Len(parents) = W[l + 1]
    BY <1>5, <2>1, <2>2
  <2>4. parents \in Seq(Tree(groupSize))
    <3>1. \A k \in 1..W[l + 1] : <<l + 1, k>> \in Tree(groupSize)
      BY <1>2, <2>1, LevelInTree
    <3> HIDE DEF parents
    <3>2. QED
      BY <2>2, <2>3, <3>1
  <2>5. ASSUME NEW b \in Tree(groupSize)
        PROVE  Times(parents, b) = IF b[1] = l + 1 THEN 1 ELSE 0
    <3>1. PICK k \in 1..H : \E i \in 1..W[k] : b = <<k, i>>
      BY <1>2, InTree
    <3>2. PICK i \in 1..W[k] : b = <<k, i>>
      BY <3>1
    <3>3. i \in Nat /\ (k = l + 1 => i \in 1..W[l + 1])
      BY <1>5, <3>1, <3>2
    <3> HIDE DEF parents
    <3>4. Lists(parents, W[l + 1], l + 1)
      BY <2>2 DEF Lists
    <3>5. Times(parents, <<k, i>>) = IF k = l + 1 THEN 1 ELSE 0
      BY <2>3, <3>3, <3>4, OnItsLevel
    <3>6. QED
      BY <3>1, <3>2, <3>5
  <2>6. CASE l + 1 = H
    <3>1. ~goOn
      BY <1>5, <2>3, <2>6
    <3> HIDE DEF goOn, parents
    <3>2. groupStage' = "end" /\ these' = these
      BY <1>3, <3>1
    <3>3. \A b \in Tree(groupSize) : freed'[b] = 1
      <4> SUFFICES ASSUME NEW b \in Tree(groupSize) PROVE freed'[b] = 1
        OBVIOUS
      <4>1. freed'[b] = freed[b] + Times(these, b) + Times(parents, b)
        BY <1>3, <3>1
      <4>2. QED
        BY <1>4, <1>5, <1>7, <2>5, <2>6, <4>1
    <3>4. freed' \in [Tree(groupSize) -> Nat]
      <4>1. freed' = [b \in Tree(groupSize) |-> freed'[b]]
        BY <1>3
      <4>2. QED
        BY <3>3, <4>1
    <3>5. GroupTypeOK'
      BY <1>1, <1>3, <3>2, <3>4 DEF GroupTypeOK
    <3>6. Filling'
      BY <1>1, <1>3, <3>2 DEF Filling, Given
    <3>7. Freeing'
      BY <1>3, <1>4, <3>2, <3>3 DEF Freeing
    <3>8. QED
      BY <3>5, <3>6, <3>7 DEF GroupInv
  <2>7. CASE l + 1 # H
    <3>1. goOn
      <4>1. l + 1 \in 1..(H - 1)
        BY <1>5, <2>1, <2>7
      <4>2. QED
        BY <1>5, <2>3, <4>1
    <3> HIDE DEF goOn, parents
    <3>2. groupStage' = "destroy" /\ these' = parents
      BY <1>3, <3>1
    <3>3. \A b \in Tree(groupSize) : freed'[b] = IF b[1] < l + 1 THEN 1 ELSE 0
      <4> SUFFICES ASSUME NEW b \in Tree(groupSize)
                   PROVE  freed'[b] = IF b[1] < l + 1 THEN 1 ELSE 0
        OBVIOUS
      <4>1. freed'[b] = freed[b] + Times(these, b) + 0
        BY <1>3, <3>1
      <4>2. QED
        BY <1>4, <1>5, <1>7, <4>1
    <3>4. freed' \in [Tree(groupSize) -> Nat]
      <4>1. freed' = [b \in Tree(groupSize) |-> freed'[b]]
        BY <1>3
      <4>2. QED
        BY <3>3, <4>1
    <3>5. GroupTypeOK'
      BY <1>1, <1>3, <2>4, <3>2, <3>4 DEF GroupTypeOK
    <3>6. Filling'
      BY <1>1, <1>3, <3>2 DEF Filling, Given
    <3>7. Freeing'
      <4>1. these' = [i \in 1..W[l + 1] |-> <<l + 1, i>>]
        BY <2>2, <3>2
      <4>2. QED
        BY <1>3, <2>1, <3>2, <3>3, <4>1 DEF Freeing
    <3>8. QED
      BY <3>5, <3>6, <3>7 DEF GroupInv
  <2>8. QED
    BY <2>6, <2>7
<1>10. QED
  BY <1>8, <1>9

LEMMA GroupInvariance == GroupSpec => []GroupInv
<1>1. GroupInv /\ UNCHANGED groupVars => GroupInv'
  <2> SUFFICES ASSUME GroupInv, UNCHANGED groupVars PROVE GroupInv'
    OBVIOUS
  <2>1. GroupTypeOK'
    BY DEF GroupInv, GroupTypeOK, groupVars
  <2>2. Filling'
    BY DEF GroupInv, Filling, Given, groupVars
  <2>3. Freeing'
    BY DEF GroupInv, Freeing, groupVars
  <2>4. QED
    BY <2>1, <2>2, <2>3 DEF GroupInv
<1>2. GroupInv /\ [GroupNext]_groupVars => GroupInv'
  BY <1>1, SpawnKeeps, JoinKeeps, AllEndedKeeps, DestroyKeeps DEF GroupNext
<1>3. QED
  BY <1>2, GroupInitInv, PTL DEF GroupSpec

\* As many come to a barrier as it waits for.
LEMMA FilledWhen == GroupInv => BarriersAreFilled
<1> SUFFICES ASSUME GroupInv, groupStage = "run", NEW b \in Tree(groupSize)
             PROVE  Capacity(groupSize, b) =
                      IF b[1] = 1 THEN Times(threads, b)
                      ELSE Cardinality({c \in Level(groupSize, b[1] - 1) :
                                          ParentLevel(groupSize, c) = b})
  BY DEF BarriersAreFilled
<1> DEFINE W == Width(groupSize)
           d == threadsPerBarrier
<1>1. GroupTypeOK /\ Filling
  BY DEF GroupInv
<1>2. groupSize \in Nat /\ groupSize > 0
  BY <1>1, GroupSizes
<1>3. PICK l \in 1..Height(groupSize) : \E j \in 1..W[l] : b = <<l, j>>
  BY <1>2, InTree
<1>4. PICK j \in 1..W[l] : b = <<l, j>>
  BY <1>3
<1>5. Height(groupSize) \in 1..groupSize /\ W[0] = groupSize
  BY <1>2, TreeFacts
<1> DEFINE A == {i \in 1..W[l - 1] : (i - 1) \div d + 1 = j}
<1>6. Capacity(groupSize, b) = Cardinality(A)
  BY <1>2, <1>4, CapacityIs
<1>7. CASE l = 1
  <2>1. DOMAIN threads = 1..groupSize /\ \A k \in 1..groupSize : threads[k] = Given(k)
    BY <1>1 DEF Filling, GroupTypeOK
  <2>2. W[l - 1] = groupSize
    BY <1>5, <1>7
  <2>3. \A k \in 1..groupSize : threads[k] = b <=> (k - 1) \div d + 1 = j
    BY <1>4, <1>7, <2>1 DEF Given
  <2>4. {k \in DOMAIN threads : threads[k] = b} = A
    BY <2>1, <2>2, <2>3
  <2>5. Times(threads, b) = Cardinality(A)
    BY <2>4 DEF Times
  <2>6. b[1] = 1
    BY <1>4, <1>7
  <2>7. QED
    BY <1>6, <2>5, <2>6
<1>8. CASE l # 1
  <2>1. l - 1 \in 1..(Height(groupSize) - 1) /\ l - 1 \in 0..groupSize /\ (l - 1) + 1 = l
    BY <1>2, <1>5, <1>8
  <2>2. \A i \in 1..W[l - 1] :
          ParentLevel(groupSize, <<l - 1, i>>) = <<(l - 1) + 1, (i - 1) \div d + 1>>
    BY <1>2, <2>1, ParentIs
  <2>3. \A i \in 1..W[l - 1] :
          ParentLevel(groupSize, <<l - 1, i>>) = b <=> (i - 1) \div d + 1 = j
    BY <1>4, <2>1, <2>2
  <2>4. {c \in Level(groupSize, l - 1) : ParentLevel(groupSize, c) = b}
          = {<<l - 1, i>> : i \in A}
    BY <2>3 DEF Level
  <2>5. IsFiniteSet(A)
    <3>1. PICK w \in Nat : w = W[l - 1]
      BY <1>2, <2>1, TreeFacts
    <3>2. IsFiniteSet(1..W[l - 1])
      <4>1. IsFiniteSet(1..w)
        BY ONLY FS_Interval, w \in Nat
      <4>2. QED
        BY <3>1, <4>1
    <3>3. A \in SUBSET (1..W[l - 1])
      OBVIOUS
    <3>4. QED
      BY <3>2, <3>3, FS_Subset
  <2> HIDE DEF A
  <2>6. Cardinality({<<l - 1, i>> : i \in A}) = Cardinality(A)
    BY <2>5, SameNumber
  <2>7. b[1] = l
    BY <1>4
  <2>8. QED
    BY <1>6, <1>8, <2>4, <2>6, <2>7
<1>9. QED
  BY <1>7, <1>8

LEMMA FreedWhen == GroupInv => EveryBarrierIsFreedOnce
<1> SUFFICES ASSUME GroupInv PROVE EveryBarrierIsFreedOnce
  OBVIOUS
<1>1. Freeing
  BY DEF GroupInv
<1>2. \A b \in Tree(groupSize) : freed[b] <= 1
  BY <1>1 DEF Freeing
<1>3. groupStage = "end" => \A b \in Tree(groupSize) : freed[b] = 1
  BY <1>1 DEF Freeing
<1>4. QED
  BY <1>2, <1>3 DEF EveryBarrierIsFreedOnce

\* The group keeps to its types: the threads get barriers of the tree that
\* create built, and destroy frees nothing else (Concurrency.hpp:82-115).
THEOREM GroupTypeCorrect == GroupSpec => []GroupTypeOK
<1>1. GroupInv => GroupTypeOK
  BY DEF GroupInv
<1>2. QED
  BY <1>1, GroupInvariance, PTL

\* For every number of threads and every fan-in: as many threads, or barriers
\* of the level below, come to each barrier as its constructor was told to
\* wait for (Barrier.hpp:63-86, Concurrency.hpp:82-115).
THEOREM Filled == GroupSpec => []BarriersAreFilled
<1>1. QED
  BY FilledWhen, GroupInvariance, PTL

\* For every number of threads and every fan-in: the walk of destroy, which
\* looks at every threadsPerBarrier-th barrier only, frees each barrier of the
\* tree once (Barrier.hpp:91-99).
THEOREM FreedOnce == GroupSpec => []EveryBarrierIsFreedOnce
<1>1. QED
  BY FreedWhen, GroupInvariance, PTL

-----------------------------------------------------------------------------
(* What create builds is a tree.  The subtree under a node is the least    *)
(* set that holds the node and goes down from each node it holds: what is  *)
(* true of the node, and goes down, is true of the whole subtree.          *)

GoesDown(N, root, parent, S) == \A x \in N \ {root} : parent[x] \in S => x \in S

SubtreeOf(N, root, parent, n) ==
  {m \in N : \A S \in SUBSET N : n \in S /\ GoesDown(N, root, parent, S) => m \in S}

\* Parents are one level up, and no level is above the root.
Levelled(N, root, parent, h) ==
  /\ root \in N
  /\ parent \in [N \ {root} -> N]
  /\ h \in [N -> Nat]
  /\ \A x \in N \ {root} : h[parent[x]] = h[x] + 1
  /\ \A x \in N : h[x] <= h[root]

\* The subtree is that least set.
LEMMA LeastSubtree ==
  ASSUME NEW N, NEW root, NEW parent, NEW n \in N
  PROVE  /\ SubtreeOf(N, root, parent, n) \in SUBSET N
         /\ n \in SubtreeOf(N, root, parent, n)
         /\ GoesDown(N, root, parent, SubtreeOf(N, root, parent, n))
         /\ \A S \in SUBSET N : n \in S /\ GoesDown(N, root, parent, S) =>
              SubtreeOf(N, root, parent, n) \subseteq S
<1>1. GoesDown(N, root, parent, SubtreeOf(N, root, parent, n))
  <2> SUFFICES ASSUME NEW x \in N \ {root}, parent[x] \in SubtreeOf(N, root, parent, n)
               PROVE  x \in SubtreeOf(N, root, parent, n)
    BY DEF GoesDown
  <2>1. ASSUME NEW S \in SUBSET N, n \in S, GoesDown(N, root, parent, S)
        PROVE  x \in S
    <3>1. parent[x] \in S
      BY <2>1 DEF SubtreeOf
    <3>2. QED
      BY <2>1, <3>1 DEF GoesDown
  <2>2. QED
    BY <2>1 DEF SubtreeOf
<1>2. QED
  BY <1>1 DEF SubtreeOf

\* Who is under a node is the node, or his parent is under it.
LEMMA ParentIsUnder ==
  ASSUME NEW N, NEW root, NEW parent, NEW n \in N,
         NEW m \in SubtreeOf(N, root, parent, n), m # n
  PROVE  m # root /\ parent[m] \in SubtreeOf(N, root, parent, n)
<1> DEFINE Sub == SubtreeOf(N, root, parent, n)
           S == {n} \cup {x \in N \ {root} : parent[x] \in Sub}
<1>1. Sub \in SUBSET N /\ n \in Sub /\ GoesDown(N, root, parent, Sub)
  BY LeastSubtree
<1>2. S \in SUBSET N /\ n \in S
  BY <1>1
<1>3. \A x \in S : x \in Sub
  BY <1>1 DEF GoesDown
<1>4. GoesDown(N, root, parent, S)
  <2> SUFFICES ASSUME NEW x \in N \ {root}, parent[x] \in S PROVE x \in S
    BY DEF GoesDown
  <2>1. parent[x] \in Sub
    BY <1>3
  <2>2. QED
    BY <2>1
<1> HIDE DEF S
<1>5. Sub \subseteq S
  BY <1>2, <1>4, LeastSubtree
<1>6. m \in S
  BY <1>5
<1>7. QED
  BY <1>6 DEF S

\* Subtrees lie in one another.
LEMMA UnderAnother ==
  ASSUME NEW N, NEW root, NEW parent, NEW n \in N, NEW m \in SubtreeOf(N, root, parent, n)
  PROVE  SubtreeOf(N, root, parent, m) \subseteq SubtreeOf(N, root, parent, n)
<1>1. /\ SubtreeOf(N, root, parent, n) \in SUBSET N
      /\ GoesDown(N, root, parent, SubtreeOf(N, root, parent, n))
  BY LeastSubtree
<1>2. m \in N
  BY <1>1
<1>3. QED
  BY <1>1, <1>2, LeastSubtree

\* A subtree is its node with the subtrees of those whose parent it is.
LEMMA UnderIsBelowMembers ==
  ASSUME NEW N, NEW root, NEW parent, NEW n \in N
  PROVE  SubtreeOf(N, root, parent, n) =
           {n} \cup UNION {SubtreeOf(N, root, parent, m) :
                             m \in {m \in N \ {root} : parent[m] = n}}
<1> DEFINE Sub(k) == SubtreeOf(N, root, parent, k)
           M == {m \in N \ {root} : parent[m] = n}
           S == {n} \cup UNION {Sub(m) : m \in M}
<1>1. \A k \in N : Sub(k) \in SUBSET N /\ k \in Sub(k) /\ GoesDown(N, root, parent, Sub(k))
  BY LeastSubtree
<1>2. ASSUME NEW m \in M PROVE Sub(m) \subseteq Sub(n)
  <2>1. m \in Sub(n)
    BY <1>1 DEF GoesDown
  <2>2. QED
    BY <2>1, UnderAnother
<1>3. S \subseteq Sub(n)
  BY <1>1, <1>2
<1>4. S \in SUBSET N /\ n \in S
  BY <1>1
<1>5. GoesDown(N, root, parent, S)
  <2> SUFFICES ASSUME NEW x \in N \ {root}, parent[x] \in S PROVE x \in S
    BY DEF GoesDown
  <2>1. CASE parent[x] = n
    <3>1. x \in M /\ x \in Sub(x)
      BY <1>1, <2>1
    <3>2. QED
      BY <3>1
  <2>2. CASE parent[x] # n
    <3>1. PICK m \in M : parent[x] \in Sub(m)
      BY <2>2
    <3>2. x \in Sub(m)
      BY <1>1, <3>1 DEF GoesDown
    <3>3. QED
      BY <3>2
  <2>3. QED
    BY <2>1, <2>2
<1> HIDE DEF S
<1>6. Sub(n) \subseteq S
  BY <1>4, <1>5, LeastSubtree
<1>7. Sub(n) = S
  BY <1>3, <1>6
<1>8. QED
  BY <1>7 DEF S

\* Under a node everybody else is on a lower level.
LEMMA LowerLevel ==
  ASSUME NEW N, NEW root, NEW parent, NEW h, Levelled(N, root, parent, h),
         NEW n \in N, NEW m \in SubtreeOf(N, root, parent, n), m # n
  PROVE  h[m] < h[n]
<1> DEFINE S == {x \in N : x = n \/ h[x] < h[n]}
<1>1. S \in SUBSET N /\ n \in S
  OBVIOUS
<1>2. GoesDown(N, root, parent, S)
  <2> SUFFICES ASSUME NEW x \in N \ {root}, parent[x] \in S PROVE x \in S
    BY DEF GoesDown
  <2>1. h[x] \in Nat /\ h[n] \in Nat /\ h[parent[x]] = h[x] + 1
    BY DEF Levelled
  <2>2. h[parent[x]] <= h[n]
    BY <2>1
  <2>3. QED
    BY <2>1, <2>2
<1> HIDE DEF S
<1>3. SubtreeOf(N, root, parent, n) \subseteq S
  BY <1>1, <1>2, LeastSubtree
<1>4. m \in S
  BY <1>3
<1>5. QED
  BY <1>4 DEF S

\* Two subtrees with a common node lie in one another.
LEMMA Comparable ==
  ASSUME NEW N, NEW root, NEW parent, NEW n1 \in N, NEW n2 \in N,
         NEW m \in SubtreeOf(N, root, parent, n1), m \in SubtreeOf(N, root, parent, n2)
  PROVE  \/ n1 \in SubtreeOf(N, root, parent, n2)
         \/ n2 \in SubtreeOf(N, root, parent, n1)
<1> DEFINE Sub(k) == SubtreeOf(N, root, parent, k)
           S == {x \in Sub(n1) : x \in Sub(n2) => n1 \in Sub(n2) \/ n2 \in Sub(n1)}
<1>1. \A k \in N : Sub(k) \in SUBSET N /\ k \in Sub(k) /\ GoesDown(N, root, parent, Sub(k))
  BY LeastSubtree
<1>2. S \in SUBSET N /\ n1 \in S
  BY <1>1
<1>3. GoesDown(N, root, parent, S)
  <2> SUFFICES ASSUME NEW x \in N \ {root}, parent[x] \in S PROVE x \in S
    BY DEF GoesDown
  <2>1. x \in Sub(n1)
    BY <1>1 DEF GoesDown
  <2>2. ASSUME x \in Sub(n2), x # n2 PROVE n1 \in Sub(n2) \/ n2 \in Sub(n1)
    <3>1. parent[x] \in Sub(n2)
      BY <2>2, ParentIsUnder
    <3>2. QED
      BY <3>1
  <2>3. QED
    BY <2>1, <2>2
<1> HIDE DEF S
<1>4. Sub(n1) \subseteq S
  BY <1>2, <1>3, LeastSubtree
<1>5. m \in S
  BY <1>4
<1>6. QED
  BY <1>5 DEF S

\* Everybody is under the root.
LEMMA AllUnderRoot ==
  ASSUME NEW N, NEW root, NEW parent, NEW h, Levelled(N, root, parent, h)
  PROVE  SubtreeOf(N, root, parent, root) = N
<1> DEFINE Sub == SubtreeOf(N, root, parent, root)
           Left == N \ Sub
           Far == {h[root] - h[x] : x \in Left}
<1>1. root \in N
  BY DEF Levelled
<1>2. Sub \in SUBSET N /\ root \in Sub /\ GoesDown(N, root, parent, Sub)
  BY <1>1, LeastSubtree
<1>3. SUFFICES ASSUME Left # {} PROVE FALSE
  BY <1>2
<1>4. \A x \in N : h[root] - h[x] \in Nat
  BY <1>1 DEF Levelled
<1>5. Far \in SUBSET Nat /\ Far # {}
  BY <1>3, <1>4
<1>6. PICK s \in Far : \A t \in Far : s <= t
  <2> HIDE DEF Far
  <2>1. QED
    BY <1>5, LeastOf
<1>7. PICK x \in Left : s = h[root] - h[x]
  BY <1>6
<1>8. x \in N \ {root}
  BY <1>2, <1>7
<1>9. parent[x] \in N /\ parent[x] \notin Sub
  BY <1>2, <1>7, <1>8 DEF Levelled, GoesDown
<1>10. h[root] - h[parent[x]] \in Far
  BY <1>9
<1>11. s <= h[root] - h[parent[x]]
  BY <1>6, <1>10
<1>12. h[parent[x]] = h[x] + 1 /\ h[x] \in Nat /\ h[root] \in Nat
  BY <1>1, <1>8 DEF Levelled
<1>13. QED
  BY <1>7, <1>11, <1>12

\* Parents with levels are a tree, ordered by their subtrees.
LEMMA LevelsMakeATree ==
  ASSUME NEW leaves, NEW barriers, NEW root, NEW parent, NEW count, NEW h,
         IsFiniteSet(leaves), IsFiniteSet(barriers), leaves \cap barriers = {},
         root \in barriers,
         parent \in [(leaves \cup barriers) \ {root} -> barriers],
         count = [b \in barriers |->
                    Cardinality({n \in (leaves \cup barriers) \ {root} : parent[n] = b})],
         \A b \in barriers : \E n \in (leaves \cup barriers) \ {root} : parent[n] = b,
         Levelled(leaves \cup barriers, root, parent, h)
  PROVE  \E below : IsTree(leaves, barriers, root, parent, count, below)
<1> DEFINE N == leaves \cup barriers
           Sub(n) == SubtreeOf(N, root, parent, n)
           B == [n \in N |-> Sub(n)]
           M(n) == {m \in N \ {root} : parent[m] = n}
<1> HIDE DEF N
<1>1. Levelled(N, root, parent, h)
  BY DEF N
<1>2. \A n \in N : Sub(n) \in SUBSET N /\ n \in Sub(n)
  BY LeastSubtree
<1>3. \A n \in N : \A m \in Sub(n) : m # n => h[m] < h[n]
  BY <1>1, LowerLevel
<1>4. h \in [N -> Nat] /\ root \in N /\ \A x \in N \ {root} : h[parent[x]] = h[x] + 1
  BY <1>1 DEF Levelled
<1>5. \A n \in N : Sub(n) = {n} \cup UNION {Sub(m) : m \in M(n)}
  BY UnderIsBelowMembers
<1>6. \A n \in N : \A m \in Sub(n) : Sub(m) \subseteq Sub(n)
  BY UnderAnother
<1>7. ASSUME NEW n \in N, NEW m \in M(n), n \in Sub(m)
      PROVE  FALSE
  <2>1. h[n] = h[m] + 1 /\ h[m] \in Nat
    BY <1>4, <1>7
  <2>2. n # m
    BY <2>1
  <2>3. h[n] < h[m]
    BY <1>3, <1>7, <2>2
  <2>4. QED
    BY <2>1, <2>3
<1>8. \A n1, n2 \in N : Sub(n1) \cap Sub(n2) = {} \/ n1 \in Sub(n2) \/ n2 \in Sub(n1)
  BY Comparable
<1>9. ASSUME NEW n1 \in N \ {root}, NEW n2 \in N \ {root}, parent[n1] = parent[n2], n1 # n2
      PROVE  Sub(n1) \cap Sub(n2) = {}
  <2>1. h[n1] + 1 = h[n2] + 1 /\ h[n1] \in Nat /\ h[n2] \in Nat
    BY <1>4, <1>9
  <2>2. n1 \notin Sub(n2) /\ n2 \notin Sub(n1)
    <3>1. n1 \in Sub(n2) => h[n1] < h[n2]
      BY <1>3, <1>9
    <3>2. n2 \in Sub(n1) => h[n2] < h[n1]
      BY <1>3, <1>9
    <3>3. QED
      BY <2>1, <3>1, <3>2
  <2>3. QED
    BY <1>8, <2>2
<1>10. Sub(root) = N
  BY <1>1, AllUnderRoot
<1> HIDE DEF Sub
<1>11. \A n \in N : \A m \in M(n) : m \in N
  OBVIOUS
<1>12. B \in [N -> SUBSET N] /\ \A n \in N : B[n] = Sub(n)
  BY <1>2
<1>13. \A n \in N : B[n] = {n} \cup UNION {B[m] : m \in M(n)}
  <2> SUFFICES ASSUME NEW n \in N PROVE B[n] = {n} \cup UNION {B[m] : m \in M(n)}
    OBVIOUS
  <2>1. {B[m] : m \in M(n)} = {Sub(m) : m \in M(n)}
    BY <1>11, <1>12
  <2>2. QED
    BY <1>5, <1>12, <2>1
<1>14. \A n \in N : \A m \in B[n] : m \in N /\ B[m] \subseteq B[n]
  BY <1>2, <1>6, <1>12
<1>15. \A n \in N : \A m \in M(n) : n \notin B[m]
  BY <1>7, <1>11, <1>12
<1>16. \A n1, n2 \in N : B[n1] \cap B[n2] = {} \/ n1 \in B[n2] \/ n2 \in B[n1]
  BY <1>8, <1>12
<1>17. \A n1, n2 \in N \ {root} :
          parent[n1] = parent[n2] => n1 = n2 \/ B[n1] \cap B[n2] = {}
  BY <1>9, <1>12
<1>18. B[root] = N
  BY <1>4, <1>10, <1>12
<1> HIDE DEF B
<1>19. IsTree(leaves, barriers, root, parent, count, B)
  BY <1>12, <1>13, <1>14, <1>15, <1>16, <1>17, <1>18 DEF IsTree, N
<1>20. QED
  BY <1>19

\* The places of one level are finitely many.
LEMMA FiniteLevel ==
  ASSUME NEW l, NEW n \in Nat
  PROVE  IsFiniteSet({<<l, i>> : i \in 1..n})
<1> DEFINE T == {<<l, i>> : i \in 1..n}
           f == [i \in 1..n |-> <<l, i>>]
<1>1. f \in Surjection(1..n, T)
  <2>1. f \in [1..n -> T]
    OBVIOUS
  <2>2. \A t \in T : \E x \in 1..n : f[x] = t
    OBVIOUS
  <2> HIDE DEF f, T
  <2>3. QED
    BY <2>1, <2>2 DEF Surjection
<1>2. IsFiniteSet(1..n)
  BY FS_Interval
<1> HIDE DEF f, T
<1>3. IsFiniteSet(T)
  BY <1>1, <1>2, FS_Surjection
<1>4. QED
  BY <1>3 DEF T

\* The tree of a group is finite.
LEMMA FiniteTree ==
  ASSUME NEW size \in Nat, size > 0
  PROVE  IsFiniteSet(GroupThreads(size)) /\ IsFiniteSet(Tree(size))
<1> DEFINE H == 1..Height(size)
           T == {Level(size, l) : l \in H}
           f == [l \in H |-> Level(size, l)]
<1>1. Height(size) \in 1..size /\ \A l \in 0..size : Width(size)[l] \in Nat
  BY TreeFacts
<1>2. ASSUME NEW l \in H PROVE IsFiniteSet(Level(size, l))
  <2>1. l \in 0..size
    BY <1>1
  <2>2. PICK n \in Nat : n = Width(size)[l]
    BY <1>1, <2>1
  <2>3. IsFiniteSet({<<l, i>> : i \in 1..n})
    BY FiniteLevel
  <2>4. Level(size, l) = {<<l, i>> : i \in 1..n}
    BY <2>2 DEF Level
  <2>5. QED
    BY <2>3, <2>4
<1>3. f \in Surjection(H, T)
  <2>1. f \in [H -> T]
    OBVIOUS
  <2>2. \A t \in T : \E x \in H : f[x] = t
    OBVIOUS
  <2> HIDE DEF f, T
  <2>3. QED
    BY <2>1, <2>2 DEF Surjection
<1>4. IsFiniteSet(H)
  BY <1>1, FS_Interval
<1>5. \A t \in T : IsFiniteSet(t)
  BY <1>2
<1>6. Tree(size) = UNION T
  BY DEF Tree
<1> HIDE DEF f, T, H
<1>7. IsFiniteSet(T)
  BY <1>3, <1>4, FS_Surjection
<1>8. IsFiniteSet(Tree(size))
  BY <1>5, <1>6, <1>7, FS_UNION
<1>9. IsFiniteSet({<<0, i>> : i \in 1..size})
  BY FiniteLevel
<1>10. QED
  BY <1>8, <1>9 DEF GroupThreads

\* Threads and barriers have a level and a place on it.
LEMMA OnALevel ==
  ASSUME NEW size \in Nat, size > 0
  PROVE  \A n : n \in GroupThreads(size) \cup Tree(size) <=>
                \E l \in 0..Height(size) : \E i \in 1..Width(size)[l] : n = <<l, i>>
<1>1. Height(size) \in 1..size /\ Width(size)[0] = size
  BY TreeFacts
<1>2. \A n : n \in GroupThreads(size) <=> \E i \in 1..Width(size)[0] : n = <<0, i>>
  BY <1>1 DEF GroupThreads
<1>3. \A n : n \in Tree(size) <=>
             \E l \in 1..Height(size) : \E i \in 1..Width(size)[l] : n = <<l, i>>
  BY InTree, LevelInTree
<1>4. \A l : l \in 0..Height(size) <=> l = 0 \/ l \in 1..Height(size)
  BY <1>1
<1>5. QED
  BY <1>2, <1>3, <1>4

\* One level up the portions of the level below are the barriers: the caller of
\* run, who comes last, is in the last portion like the last worker.
LEMMA GroupParentIs ==
  ASSUME NEW size \in Nat, size > 0, NEW l \in 0..(Height(size) - 1),
         NEW i \in 1..Width(size)[l]
  PROVE  /\ <<l, i>> \in (GroupThreads(size) \cup Tree(size)) \ {TreeRoot(size)}
         /\ GroupParent(size)[<<l, i>>] = <<l + 1, (i - 1) \div threadsPerBarrier + 1>>
         /\ (i - 1) \div threadsPerBarrier + 1 \in 1..Width(size)[l + 1]
<1> DEFINE W == Width(size)
           d == threadsPerBarrier
           n == <<l, i>>
<1>1. d \in Nat /\ d > 1
  BY FanInAssumption
<1>2. /\ Height(size) \in 1..size /\ W[0] = size
      /\ \A k \in 0..size : W[k] \in Nat
      /\ \A k \in 1..size : W[k] = (W[k - 1] - 1) \div d + 1
  BY TreeFacts
<1>3. l \in Nat /\ l \in 0..size /\ l + 1 \in 1..size /\ l + 1 \in 0..size /\ (l + 1) - 1 = l
      /\ l \in 0..Height(size)
  BY <1>2
<1>4. W[l] \in Nat /\ W[l + 1] = (W[l] - 1) \div d + 1
  BY <1>2, <1>3
<1>5. i - 1 \in Nat /\ W[l] - 1 \in Nat /\ i - 1 <= W[l] - 1
  BY <1>4
<1>6. PICK q \in Nat : q = (i - 1) \div d
  BY <1>1, <1>5, Division
<1>7. PICK p \in Nat : p = (W[l] - 1) \div d
  BY <1>1, <1>5, Division
<1>8. q <= p
  BY <1>1, <1>5, <1>6, <1>7, MorePortions
<1>9. q + 1 \in 1..W[l + 1]
  BY <1>4, <1>7, <1>8
<1>10. n \in GroupThreads(size) \cup Tree(size)
  BY <1>3, OnALevel
<1>11. n # TreeRoot(size)
  BY <1>2, <1>3 DEF TreeRoot
<1>12. GroupParent(size)[n]
         = IF n[1] = 0 THEN BarrierOfThread(size, n[2]) ELSE ParentLevel(size, n)
  BY <1>10, <1>11 DEF GroupParent
<1>13. GroupParent(size)[n] = <<l + 1, q + 1>>
  <2>1. CASE l = 0
    <3>1. GroupParent(size)[n] = BarrierOfThread(size, i)
      BY <1>12, <2>1
    <3>2. i = size => W[1] = q + 1
      BY <1>2, <1>4, <1>6, <2>1
    <3>3. QED
      BY <1>6, <2>1, <3>1, <3>2 DEF BarrierOfThread
  <2>2. CASE l # 0
    <3>1. l \in 1..(Height(size) - 1)
      BY <1>3, <2>2
    <3>2. ParentLevel(size, n) = <<l + 1, q + 1>>
      BY <1>6, <3>1, ParentIs
    <3>3. QED
      BY <1>12, <2>2, <3>2
  <2>3. QED
    BY <2>1, <2>2
<1>14. QED
  BY <1>6, <1>9, <1>10, <1>11, <1>13

\* A barrier counts as many as it is the parent of.
LEMMA GroupCountIs ==
  ASSUME NEW size \in Nat, size > 0, NEW b \in Tree(size)
  PROVE  GroupCount(size)[b] =
           Cardinality({n \in (GroupThreads(size) \cup Tree(size)) \ {TreeRoot(size)} :
                          GroupParent(size)[n] = b})
<1> DEFINE W == Width(size)
           d == threadsPerBarrier
           N == GroupThreads(size) \cup Tree(size)
           M == {n \in N \ {TreeRoot(size)} : GroupParent(size)[n] = b}
<1>1. Height(size) \in 1..size /\ W[Height(size)] = 1 /\ \A k \in 0..size : W[k] \in Nat
  BY TreeFacts
<1>0. PICK l \in 1..Height(size) : \E j \in 1..W[l] : b = <<l, j>>
  BY InTree
<1>2. PICK j \in 1..W[l] : b = <<l, j>>
  BY <1>0
<1>3. l - 1 \in 0..(Height(size) - 1) /\ l - 1 \in 0..size /\ (l - 1) + 1 = l
  BY <1>1
<1> DEFINE A == {i \in 1..W[l - 1] : (i - 1) \div d + 1 = j}
           T == {<<l - 1, i>> : i \in A}
<1>4. \A i \in 1..W[l - 1] :
        /\ <<l - 1, i>> \in N \ {TreeRoot(size)}
        /\ GroupParent(size)[<<l - 1, i>>] = <<l, (i - 1) \div d + 1>>
  BY <1>3, GroupParentIs
<1>5. T \subseteq M
  BY <1>2, <1>4
<1>6. ASSUME NEW n \in M PROVE n \in T
  <2>0. PICK k \in 0..Height(size) : \E i \in 1..W[k] : n = <<k, i>>
    BY OnALevel
  <2>1. PICK i \in 1..W[k] : n = <<k, i>>
    BY <2>0
  <2>2. k # Height(size)
    BY <1>1, <2>1 DEF TreeRoot
  <2>3. k \in 0..(Height(size) - 1)
    BY <1>1, <2>1, <2>2
  <2>4. GroupParent(size)[n] = <<k + 1, (i - 1) \div d + 1>>
    BY <2>1, <2>3, GroupParentIs
  <2>5. k + 1 = l /\ (i - 1) \div d + 1 = j
    BY <1>2, <2>4
  <2>6. k = l - 1
    BY <2>3, <2>5
  <2>7. QED
    BY <2>1, <2>5, <2>6
<1>7. M = T
  BY <1>5, <1>6
<1>8. IsFiniteSet(A)
  <2>1. IsFiniteSet(1..W[l - 1])
    <3>1. PICK w \in Nat : w = W[l - 1]
      BY <1>1, <1>3
    <3>2. IsFiniteSet(1..w)
      BY FS_Interval
    <3>3. QED
      BY <3>1, <3>2
  <2>2. A \in SUBSET (1..W[l - 1])
    OBVIOUS
  <2>3. QED
    BY <2>1, <2>2, FS_Subset
<1>9. GroupCount(size)[b] = Cardinality(A)
  BY <1>2, CapacityIs DEF GroupCount
<1> HIDE DEF A, M
<1>10. Cardinality(T) = Cardinality(A)
  BY <1>8, SameNumber
<1>11. Cardinality(M) = GroupCount(size)[b]
  BY <1>7, <1>9, <1>10
<1>12. QED
  BY <1>11 DEF M

\* Every barrier is the parent of the first one of its portion.
LEMMA SomebodyComes ==
  ASSUME NEW size \in Nat, size > 0, NEW b \in Tree(size)
  PROVE  \E n \in (GroupThreads(size) \cup Tree(size)) \ {TreeRoot(size)} :
           GroupParent(size)[n] = b
<1> DEFINE W == Width(size)
           d == threadsPerBarrier
<1>1. /\ Height(size) \in 1..size /\ d \in Nat /\ d > 1
      /\ \A k \in 0..size : W[k] \in Nat /\ W[k] > 0
      /\ \A k \in 1..size : W[k] = (W[k - 1] - 1) \div d + 1
  BY TreeFacts, FanInAssumption
<1>2. PICK l \in 1..Height(size) : \E j \in 1..W[l] : b = <<l, j>>
  BY InTree
<1>3. PICK j \in 1..W[l] : b = <<l, j>>
  BY <1>2
<1>4. l - 1 \in 0..(Height(size) - 1) /\ l - 1 \in 0..size /\ l \in 1..size /\ (l - 1) + 1 = l
  BY <1>1
<1>5. PICK w \in Nat : w = W[l - 1] - 1
  BY <1>1, <1>4
<1>6. PICK q \in Nat : q = w \div d /\ d * q <= w
  <2>1. w = d * (w \div d) + (w % d) /\ w % d \in Nat /\ w \div d \in Nat
    BY <1>1, Division
  <2>2. PICK q \in Nat, r \in Nat : q = w \div d /\ r = w % d /\ w = d * q + r
    BY <2>1
  <2>3. d * q <= w
    <3>1. d * q \in Nat
      BY <1>1, <2>2
    <3>2. QED
      BY <2>2, <3>1
  <2>4. QED
    BY <2>2, <2>3
<1>7. j - 1 \in Nat /\ j - 1 <= q
  BY <1>1, <1>4, <1>5, <1>6
<1>8. PICK p \in Nat : p = d * (j - 1) /\ p <= w
  <2>1. d * (j - 1) <= d * q /\ d * (j - 1) \in Nat /\ d * q \in Nat
    BY <1>1, <1>7, InOrder
  <2>2. QED
    BY <1>6, <2>1
<1>9. p \div d = j - 1
  BY <1>1, <1>7, <1>8, p = d * (j - 1) + 0, Quotient
<1>10. p + 1 \in 1..W[l - 1] /\ (p + 1) - 1 = p
  BY <1>1, <1>4, <1>5, <1>8
<1>11. /\ <<l - 1, p + 1>> \in (GroupThreads(size) \cup Tree(size)) \ {TreeRoot(size)}
       /\ GroupParent(size)[<<l - 1, p + 1>>] = <<l, (j - 1) + 1>>
  BY <1>4, <1>9, <1>10, GroupParentIs
<1>12. QED
  BY <1>1, <1>3, <1>7, <1>11

\* For every number of threads and every fan-in: the barriers that create
\* builds and run hands out are a tree as Barrier::wait takes for granted, so
\* what is proved of wait holds for every group (Barrier.hpp:57-89,
\* Concurrency.hpp:82-112).
THEOREM CreateBuildsATree ==
  ASSUME NEW size \in Nat, size > 0
  PROVE  \E below : IsTree(GroupThreads(size), Tree(size), TreeRoot(size),
                           GroupParent(size), GroupCount(size), below)
<1> DEFINE W == Width(size)
           N == GroupThreads(size) \cup Tree(size)
           h == [n \in N |-> n[1]]
<1>1. Height(size) \in 1..size /\ W[Height(size)] = 1 /\ \A k \in 0..size : W[k] \in Nat
  BY TreeFacts
<1>2. GroupThreads(size) \cap Tree(size) = {}
  <2> SUFFICES ASSUME NEW n \in GroupThreads(size), n \in Tree(size) PROVE FALSE
    OBVIOUS
  <2>1. n[1] = 0
    BY DEF GroupThreads
  <2>2. n[1] \in 1..Height(size)
    BY InTree
  <2>3. QED
    BY <2>1, <2>2
<1>3. TreeRoot(size) \in Tree(size)
  <2>1. Height(size) \in 1..Height(size) /\ 1 \in 1..W[Height(size)]
    BY <1>1
  <2>2. QED
    BY <2>1, LevelInTree DEF TreeRoot
<1>4. ASSUME NEW n \in N \ {TreeRoot(size)}
      PROVE  /\ GroupParent(size)[n] \in Tree(size)
             /\ GroupParent(size)[n][1] = n[1] + 1
  <2>0. PICK l \in 0..Height(size) : \E i \in 1..W[l] : n = <<l, i>>
    BY OnALevel
  <2>1. PICK i \in 1..W[l] : n = <<l, i>>
    BY <2>0
  <2>2. l # Height(size)
    BY <1>1, <2>1 DEF TreeRoot
  <2>3. l \in 0..(Height(size) - 1) /\ l + 1 \in 1..Height(size)
    BY <1>1, <2>1, <2>2
  <2>4. PICK j \in 1..W[l + 1] : GroupParent(size)[n] = <<l + 1, j>>
    BY <2>1, <2>3, GroupParentIs
  <2>5. QED
    BY <2>1, <2>3, <2>4, LevelInTree
<1>5. \A n \in N : n[1] \in 0..Height(size)
  BY OnALevel
<1>6. GroupParent(size) \in [N \ {TreeRoot(size)} -> Tree(size)]
  <2>1. GroupParent(size) = [n \in N \ {TreeRoot(size)} |-> GroupParent(size)[n]]
    BY DEF GroupParent
  <2>2. QED
    BY <1>4, <2>1
<1>7. GroupCount(size) =
        [b \in Tree(size) |->
           Cardinality({n \in N \ {TreeRoot(size)} : GroupParent(size)[n] = b})]
  <2>1. GroupCount(size) = [b \in Tree(size) |-> GroupCount(size)[b]]
    BY DEF GroupCount
  <2>2. QED
    BY <2>1, GroupCountIs
<1>8. Levelled(N, TreeRoot(size), GroupParent(size), h)
  <2>1. TreeRoot(size) \in N /\ h \in [N -> Nat]
    BY <1>3, <1>5
  <2>2. GroupParent(size) \in [N \ {TreeRoot(size)} -> N]
    BY <1>6
  <2>3. \A n \in N \ {TreeRoot(size)} : h[GroupParent(size)[n]] = h[n] + 1
    BY <1>4
  <2>4. \A n \in N : h[n] <= h[TreeRoot(size)]
    BY <1>1, <1>5, <2>1 DEF TreeRoot
  <2> HIDE DEF h, N
  <2>5. QED
    BY <2>1, <2>2, <2>3, <2>4 DEF Levelled
<1>9. IsFiniteSet(GroupThreads(size)) /\ IsFiniteSet(Tree(size))
  BY FiniteTree
<1>10. \A b \in Tree(size) : \E n \in N \ {TreeRoot(size)} : GroupParent(size)[n] = b
  BY SomebodyComes
<1> HIDE DEF h
<1>11. QED
  BY <1>2, <1>3, <1>6, <1>7, <1>8, <1>9, <1>10, LevelsMakeATree

\* The loop of run gives a thread the barrier that it has in this tree.
PlacesOfTheTree ==
  \A k \in DOMAIN threads : threads[k] = GroupParent(groupSize)[<<0, k>>]

LEMMA PlacesWhen == GroupInv => PlacesOfTheTree
<1> SUFFICES ASSUME GroupInv, NEW k \in DOMAIN threads
             PROVE  threads[k] = GroupParent(groupSize)[<<0, k>>]
  BY DEF PlacesOfTheTree
<1>1. GroupTypeOK /\ Filling
  BY DEF GroupInv
<1>2. groupSize \in Nat /\ groupSize > 0
  BY <1>1, GroupSizes
<1>3. Height(groupSize) \in 1..groupSize /\ Width(groupSize)[0] = groupSize
  BY <1>2, TreeFacts
<1>4. k \in 1..Len(threads) /\ Len(threads) <= groupSize /\ Len(threads) \in Nat
  BY <1>1 DEF GroupTypeOK
<1>5. threads[k] = Given(k)
  BY <1>1, <1>4 DEF Filling
<1>6. 0 \in 0..(Height(groupSize) - 1) /\ k \in 1..Width(groupSize)[0] /\ 0 + 1 = 1
  BY <1>2, <1>3, <1>4
<1>7. GroupParent(groupSize)[<<0, k>>] = <<0 + 1, (k - 1) \div threadsPerBarrier + 1>>
  BY <1>2, <1>6, GroupParentIs
<1>8. QED
  BY <1>5, <1>6, <1>7 DEF Given

\* For every number of threads and every fan-in: the barriers that run hands
\* out, worker by worker and the last one to the caller, are the ones of the
\* tree of CreateBuildsATree (Concurrency.hpp:82-112).
THEOREM RunGivesPlacesOfTheTree == GroupSpec => []PlacesOfTheTree
<1>1. QED
  BY PlacesWhen, GroupInvariance, PTL

-----------------------------------------------------------------------------
(* Nobody is left behind, and a call has an end.                           *)

\* Who stands still at a barrier is counted there, or somebody has the barrier
\* in hand and will open it; and when all have come one of them goes on.
Waiting ==
  \A t \in Threads : Still(t) =>
    standsFor[t] \in came[Meet(t)] \/ \E u \in Threads : Holds(u, Meet(t))

LastGoesOn ==
  \A b \in Barriers : came[b] = Members(b) =>
    \E t \in Threads : pc[t] = "reset" /\ Meet(t) = b

LEMMA InitWaiting == Init => Waiting /\ LastGoesOn
<1> SUFFICES ASSUME Init PROVE Waiting /\ LastGoesOn
  OBVIOUS
<1>1. Waiting
  BY DEF Init, Waiting, Still
<1>2. LastGoesOn
  BY BarriersAreATree DEF Init, LastGoesOn
<1> QED  BY <1>1, <1>2

\* A step of t that leaves the barriers and what everybody stands for as they are,
\* and after which t neither spins nor comes from its reset.
LEMMA WaitingElsewhere ==
  ASSUME Waiting, LastGoesOn, NEW t \in Threads,
         UNCHANGED <<round, standsFor, came>>, pc[t] # "reset", pc'[t] # "spin",
         \A u \in Threads \ {t} : pc'[u] = pc[u] /\ prevRound'[u] = prevRound[u]
  PROVE  Waiting' /\ LastGoesOn'
<1>1. \A u \in Threads : Meet(u)' = Meet(u)
  BY DEF Meet
<1>2. \A u \in Threads : (Still(u)' => Still(u)) /\ \A b : Holds(u, b)' <=> Holds(u, b)
  BY <1>1 DEF Still, Holds
<1>3. Waiting'
  BY <1>1, <1>2 DEF Waiting
<1>4. LastGoesOn'
  BY <1>1 DEF LastGoesOn
<1> QED  BY <1>3, <1>4

LEMMA ArriveWaiting ==
  ASSUME IInv, Waiting, LastGoesOn, NEW t \in Threads, Arrive(t)
  PROVE  Waiting' /\ LastGoesOn'
<1> DEFINE n == standsFor[t]
           b == Meet(t)
<1> USE DEF IInv
<1>1. n \in Nodes /\ n # Root /\ b \in Barriers /\ n \in Members(b) /\ pc[t] = "arrive"
  <2>1. n \in Nodes /\ n # Root /\ pc[t] = "arrive"
    BY DEF Arrive, TypeOK, Places
  <2> QED  BY <2>1, Meeting
<1>2. /\ \A u \in Threads \ {t} : pc'[u] = pc[u]
      /\ pc'[t] = (IF cntr[b] = 1 THEN "reset" ELSE "spin")
      /\ came' = [came EXCEPT ![b] = @ \cup {n}]
      /\ UNCHANGED <<round, standsFor, prevRound>>
  BY DEF Arrive, TypeOK
<1>3. /\ \A u \in Threads : Meet(u)' = Meet(u)
      /\ \A u \in Threads, c \in Barriers : Holds(u, c)' <=> Holds(u, c)
      /\ \A u \in Threads \ {t} : Still(u)' <=> Still(u)
      /\ \A c \in Barriers : came[c] \subseteq came'[c] /\ (c # b => came'[c] = came[c])
      /\ came'[b] = came[b] \cup {n}
  BY <1>1, <1>2 DEF Meet, Holds, Still, TypeOK
<1>4. Waiting'
  <2> SUFFICES ASSUME NEW u \in Threads, Still(u)'
               PROVE  standsFor[u] \in came'[Meet(u)] \/ \E w \in Threads : Holds(w, Meet(u))'
    BY <1>2, <1>3 DEF Waiting
  <2>1. CASE u = t
    BY <1>3, <2>1
  <2>2. CASE u # t
    <3>1. Still(u) /\ standsFor[u] # Root
      BY <1>3, <2>2 DEF Places, Still
    <3>2. Meet(u) \in Barriers
      BY <3>1, Meeting DEF TypeOK
    <3> QED  BY <1>3, <3>1, <3>2 DEF Waiting
  <2> QED  BY <2>1, <2>2
<1>5. n \notin came[b]
  BY <1>1, OneStandsForIt DEF Counters, Still
<1>6. came'[b] = Members(b) => cntr[b] = 1
  <2> SUFFICES ASSUME came'[b] = Members(b) PROVE cntr[b] = 1
    OBVIOUS
  <2>1. IsFiniteSet(Members(b)) /\ came[b] \subseteq Members(b) /\ Members(b) = came[b] \cup {n}
    BY <1>1, <1>3, FiniteMembers DEF Counters
  <2>2. IsFiniteSet(came[b])
    BY <2>1, FS_Subset
  <2>3. Cardinality(Members(b)) = Cardinality(came[b]) + 1 /\ Cardinality(came[b]) \in Nat
    BY <1>5, <2>1, <2>2, FS_AddElement, FS_CardinalityType
  <2> QED  BY <1>1, <2>3, FiniteMembers DEF Counters
<1>7. LastGoesOn'
  <2> SUFFICES ASSUME NEW c \in Barriers, came'[c] = Members(c)
               PROVE  \E u \in Threads : pc'[u] = "reset" /\ Meet(u) = c
    BY <1>3 DEF LastGoesOn
  <2>1. CASE c = b
    BY <1>2, <1>6, <2>1
  <2>2. CASE c # b
    <3>1. PICK u \in Threads : pc[u] = "reset" /\ Meet(u) = c
      BY <1>3, <2>2 DEF LastGoesOn
    <3> QED  BY <1>1, <1>2, <3>1
  <2> QED  BY <2>1, <2>2
<1> QED  BY <1>4, <1>7

LEMMA ResetWaiting ==
  ASSUME IInv, Waiting, LastGoesOn, NEW t \in Threads, Reset(t)
  PROVE  Waiting' /\ LastGoesOn'
<1> USE DEF IInv
<1>0. PICK b \in Barriers : b = Meet(t)
  BY Meeting DEF Reset, TypeOK, Places
<1>1. /\ standsFor[t] \in Nodes /\ standsFor[t] # Root /\ pc[t] = "reset"
      /\ Below[standsFor[t]] \subseteq Below[b] /\ t \in Below[b] /\ b \in Below[b]
  <2>1. standsFor[t] \in Nodes /\ standsFor[t] # Root /\ pc[t] = "reset" /\ t \in Below[standsFor[t]]
    BY DEF Reset, TypeOK, Places
  <2>2. Below[standsFor[t]] \subseteq Below[b]
    BY <1>0, <2>1, Meeting
  <2> QED  BY <2>1, <2>2, Subtree DEF Nodes
<1>2. /\ \A u \in Threads \ {t} : pc'[u] = pc[u] /\ standsFor'[u] = standsFor[u]
      /\ pc'[t] \in {"finalize", "climb"} /\ standsFor'[t] = b
      /\ came'[b] = {} /\ \A c \in Barriers \ {b} : came'[c] = came[c]
      /\ UNCHANGED <<round, prevRound>>
  BY <1>0, <1>1 DEF Reset, TypeOK
<1>3. \A u \in Threads \ {t} : Meet(u)' = Meet(u) /\ (Still(u)' <=> Still(u))
  BY <1>2 DEF Meet, Still
<1>4. \A u \in Threads, c \in Barriers : Holds(u, c) => Holds(u, c)'
  BY <1>1, <1>2 DEF Holds
<1>5. Holds(t, b)'
  BY <1>1, <1>2 DEF Holds
<1>6. Waiting'
  <2> SUFFICES ASSUME NEW u \in Threads, Still(u)'
               PROVE  \/ standsFor'[u] \in came'[Meet(u)']
                      \/ \E w \in Threads : Holds(w, Meet(u))'
    BY DEF Waiting
  <2>1. u # t
    BY <1>2 DEF Still
  <2>2. Still(u) /\ standsFor[u] # Root /\ standsFor'[u] = standsFor[u] /\ Meet(u)' = Meet(u)
    BY <1>2, <1>3, <2>1 DEF Places, Still
  <2>3. PICK c \in Barriers : c = Meet(u)
    BY <2>2, Meeting DEF TypeOK
  <2>4. CASE c = b
    BY <1>5, <2>2, <2>3, <2>4 DEF Holds
  <2>5. CASE c # b /\ standsFor[u] \in came[c]
    BY <1>2, <2>2, <2>3, <2>5
  <2>6. CASE c # b /\ standsFor[u] \notin came[c]
    <3>1. PICK w \in Threads : Holds(w, c)
      BY <2>2, <2>3, <2>6 DEF Waiting
    <3>2. Holds(w, c)'
      BY <1>4, <3>1
    <3> QED  BY <2>2, <2>3, <3>2 DEF Holds
  <2> QED  BY <2>4, <2>5, <2>6
<1>7. LastGoesOn'
  <2> SUFFICES ASSUME NEW c \in Barriers, came'[c] = Members(c)
               PROVE  \E u \in Threads : pc'[u] = "reset" /\ Meet(u)' = c
    BY DEF LastGoesOn
  <2>1. c # b
    BY <1>2, BarriersAreATree
  <2>2. PICK u \in Threads : pc[u] = "reset" /\ Meet(u) = c
    BY <1>2, <2>1 DEF LastGoesOn
  <2>3. u # t
    BY <1>0, <2>1, <2>2
  <2> QED  BY <1>2, <1>3, <2>2, <2>3
<1> QED  BY <1>6, <1>7

LEMMA OpenWaiting ==
  ASSUME IInv, Waiting, LastGoesOn, NEW t \in Threads, Open(t)
  PROVE  Waiting' /\ LastGoesOn'
<1> DEFINE b == standsFor[t]
           n == CHOOSE m \in Members(b) : t \in Below[m]
<1> USE DEF IInv
<1>1. /\ b \in Barriers /\ Holds(t, b) /\ t \in Under(b) /\ b \in Nodes
      /\ n \in Members(b) /\ n \in Nodes /\ t \in Below[n]
      /\ Below[n] \subseteq Below[b] /\ b \notin Below[n] /\ pc[t] = "open"
  BY ComesFrom DEF Open, Nodes, Holds, Under
<1>2. /\ \A u \in Threads \ {t} : pc'[u] = pc[u] /\ standsFor'[u] = standsFor[u]
      /\ pc'[t] \in {"outside", "open"} /\ standsFor'[t] = n
      /\ round' = [round EXCEPT ![b] = (@ + 1) % RoundSize]
      /\ UNCHANGED <<came, prevRound>>
  BY DEF Open, GoBack, TypeOK
<1> HIDE DEF n
<1>3. round'[b] # round[b] /\ \A c \in Barriers \ {b} : round'[c] = round[c]
  BY <1>1, <1>2, NextRound DEF TypeOK
<1>4. \A u \in Threads \ {t} : Meet(u)' = Meet(u)
  BY <1>2 DEF Meet
\* what t holds but b is below the member t goes back to
<1>5. ASSUME NEW u \in Threads, NEW c \in Barriers \ {b}, Holds(u, c)
      PROVE  Holds(u, c)'
  <2>1. CASE u # t
    BY <1>2, <1>5, <2>1 DEF Holds
  <2>2. CASE u = t
    <3>1. c \in Below[b] /\ t \in Below[c]
      BY <1>5, <2>2 DEF Holds
    <3>2. PICK m \in Members(b) : c \in Below[m]
      BY <1>1, <3>1, InsideMember
    <3>3. t \in Below[m]
      BY <3>1, <3>2, Subtree DEF Members
    <3>4. m = n
      BY <1>1, <3>2, <3>3, OneMember DEF Under
    <3> QED  BY <1>2, <2>2, <3>1, <3>2, <3>4 DEF Holds
  <2> QED  BY <2>1, <2>2
<1>6. Waiting'
  <2> SUFFICES ASSUME NEW u \in Threads, Still(u)'
               PROVE  \/ standsFor'[u] \in came'[Meet(u)']
                      \/ \E w \in Threads : Holds(w, Meet(u))'
    BY DEF Waiting
  <2>1. u # t
    BY <1>2 DEF Still
  <2>2. pc[u] = "spin" /\ standsFor[u] # Root /\ standsFor'[u] = standsFor[u]
        /\ Meet(u)' = Meet(u)
    BY <1>2, <1>4, <2>1 DEF Places, Still
  <2>3. PICK c \in Barriers : c = Meet(u)
    BY <2>2, Meeting DEF TypeOK
  <2>4. c # b
    <3> SUFFICES ASSUME c = b PROVE FALSE
      OBVIOUS
    <3>1. u \in Below[standsFor[u]] /\ Below[standsFor[u]] \subseteq Below[b]
      BY <2>2, <2>3, Meeting DEF TypeOK, Places
    <3>2. Still(u)
      BY <1>1, <2>1, <3>1 DEF HeldIsStill, Under
    <3> QED  BY <1>2, <1>3, <2>2, <2>3, <3>2 DEF Still
  <2>5. Still(u)
    BY <1>2, <1>3, <2>2, <2>3, <2>4 DEF Still
  <2>6. CASE standsFor[u] \in came[c]
    BY <1>2, <2>2, <2>3, <2>6
  <2>7. CASE standsFor[u] \notin came[c]
    <3>1. PICK w \in Threads : Holds(w, c)
      BY <2>3, <2>5, <2>7 DEF Waiting
    <3>2. Holds(w, c)'
      BY <1>5, <2>4, <3>1
    <3> QED  BY <2>2, <2>3, <3>2 DEF Holds
  <2> QED  BY <2>6, <2>7
<1>7. LastGoesOn'
  <2> SUFFICES ASSUME NEW c \in Barriers, came[c] = Members(c)
               PROVE  \E u \in Threads : pc'[u] = "reset" /\ Meet(u)' = c
    BY <1>2 DEF LastGoesOn
  <2>1. PICK u \in Threads : pc[u] = "reset" /\ Meet(u) = c
    BY DEF LastGoesOn
  <2>2. u # t
    BY <1>1, <2>1
  <2> QED  BY <1>2, <1>4, <2>1, <2>2
<1> QED  BY <1>6, <1>7

LEMMA NextWaiting ==
  IInv /\ Waiting /\ LastGoesOn /\ [Next]_vars => (Waiting /\ LastGoesOn)'
<1> SUFFICES ASSUME IInv, Waiting, LastGoesOn, [Next]_vars PROVE Waiting' /\ LastGoesOn'
  OBVIOUS
<1>1. CASE UNCHANGED vars
  BY <1>1 DEF vars, barrierVars, Waiting, LastGoesOn, Still, Holds, Meet
<1>2. ASSUME NEW t \in Threads, LoadRound(t) \/ Finalize(t)
      PROVE  Waiting' /\ LastGoesOn'
  <2>1. /\ UNCHANGED <<round, standsFor, came>> /\ pc[t] # "reset" /\ pc'[t] # "spin"
        /\ \A u \in Threads \ {t} : pc'[u] = pc[u] /\ prevRound'[u] = prevRound[u]
    BY <1>2 DEF IInv, TypeOK, LoadRound, Finalize, barrierVars
  <2> QED  BY <2>1, WaitingElsewhere
<1>3. ASSUME NEW t \in Threads, StopSpinning(t) PROVE Waiting' /\ LastGoesOn'
  <2>1. standsFor' = [standsFor EXCEPT ![t] = standsFor[t]] /\ standsFor \in [Threads -> Nodes]
    BY <1>3 DEF StopSpinning, GoBack, IInv, TypeOK
  <2>2. standsFor' = standsFor
    BY <2>1
  <2>3. /\ UNCHANGED <<round, came>> /\ pc[t] # "reset" /\ pc'[t] # "spin"
        /\ \A u \in Threads \ {t} : pc'[u] = pc[u] /\ prevRound'[u] = prevRound[u]
    BY <1>3 DEF IInv, TypeOK, StopSpinning, GoBack
  <2> QED  BY <2>2, <2>3, WaitingElsewhere
<1>4. QED
  BY <1>1, <1>2, <1>3, ArriveWaiting, ResetWaiting, OpenWaiting DEF Next, Step

\* What is above a member of b is b or above it.
LEMMA Above ==
  ASSUME NEW b \in Barriers, NEW n \in Members(b), NEW s \in Nodes,
         n \in Below[s], s # n
  PROVE  b \in Below[s]
<1>1. b \in Nodes /\ n \in Nodes /\ n \in Below[n] /\ n \in Below[b] /\ s \in Below[s]
  BY Subtree DEF Nodes
<1>2. b \in Below[s] \/ s \in Below[b]
  BY <1>1, BarriersAreATree
<1>3. SUFFICES ASSUME s \in Below[b], s # b PROVE FALSE
  BY <1>1, <1>2
<1>4. PICK m \in Members(b) : s \in Below[m]
  BY <1>3, InsideMember
<1>5. n \in Below[m]
  BY <1>4, Subtree DEF Members
<1>6. m = n
  <2>1. Parent[m] = Parent[n] /\ m \in Nodes \ {Root} /\ n \in Nodes \ {Root}
    BY DEF Members
  <2> QED  BY <1>1, <1>5, <2>1, BarriersAreATree
<1>7. n \in Barriers
  BY <1>3, <1>4, <1>6, Leaves DEF Nodes, Members
<1>8. PICK k \in Members(n) : s \in Below[k]
  BY <1>4, <1>6, <1>7, InsideMember
<1>9. n \in Below[k] /\ n \notin Below[k]
  BY <1>1, <1>8, Subtree DEF Members
<1> QED  BY <1>9

\* The nodes of a subtree, and how many they are.
SizeOf(n) == Cardinality(Below[n])

LEMMA Sizes ==
  /\ Cardinality(Nodes) \in Nat
  /\ \A n \in Nodes : SizeOf(n) \in Nat /\ SizeOf(n) <= Cardinality(Nodes)
  /\ \A n, m \in Nodes : m \in Below[n] => SizeOf(m) <= SizeOf(n)
  /\ \A n, m \in Nodes : Below[m] \subseteq Below[n] /\ n \notin Below[m] => SizeOf(m) < SizeOf(n)
<1>1. IsFiniteSet(Nodes) /\ Cardinality(Nodes) \in Nat
  BY BarriersAreATree, FS_Union, FS_CardinalityType DEF Nodes
<1>2. ASSUME NEW n \in Nodes
      PROVE  /\ IsFiniteSet(Below[n]) /\ SizeOf(n) \in Nat /\ SizeOf(n) <= Cardinality(Nodes)
             /\ n \in Below[n]
  BY <1>1, Subtree, FS_Subset, FS_CardinalityType DEF SizeOf
<1>3. ASSUME NEW n \in Nodes, NEW m \in Nodes, Below[m] \subseteq Below[n]
      PROVE  SizeOf(m) <= SizeOf(n) /\ (n \notin Below[m] => SizeOf(m) < SizeOf(n))
  <2>1. /\ SizeOf(m) <= SizeOf(n)
        /\ SizeOf(m) = SizeOf(n) => Below[m] = Below[n]
    BY <1>2, <1>3, FS_Subset DEF SizeOf
  <2> QED  BY <1>2, <2>1
<1>4. \A n, m \in Nodes : m \in Below[n] => Below[m] \subseteq Below[n]
  BY BarriersAreATree
<1> QED  BY <1>1, <1>2, <1>3, <1>4

\* A guard of wait is open: t is not about to come on its own account, and does
\* not spin, or its barrier has been opened.
GoesOn(t) == pc[t] \notin {"outside", "spin"} \/ LetGo(t)

\* Of the subtrees in which a released thread still is, the largest one is that of
\* a thread that opens it or has been let go.
LEMMA ReleasedGoOn ==
  ASSUME IInv, Waiting, released # {}
  PROVE  \E u \in released : pc[u] = "open" \/ LetGo(u)
<1> USE DEF IInv
<1> DEFINE N == Cardinality(Nodes)
           D == {u \in Threads : Under(standsFor[u]) \cap released # {}}
           S == {N - SizeOf(standsFor[u]) : u \in D}
<1>1. \A u \in Threads : standsFor[u] \in Nodes /\ u \in Under(standsFor[u])
  BY DEF TypeOK, Places, Under
<1>2. S \in SUBSET Nat /\ S # {}
  <2>1. D # {}
    BY <1>1 DEF TypeOK
  <2> QED  BY <1>1, <2>1, Sizes
<1> HIDE DEF S
<1>3. PICK s \in S : \A r \in S : s <= r
  BY <1>2, LeastOf
<1>4. PICK u \in D : \A v \in D : SizeOf(standsFor[v]) <= SizeOf(standsFor[u])
  <2>1. PICK u \in D : s = N - SizeOf(standsFor[u])
    BY <1>3 DEF S
  <2>2. ASSUME NEW v \in D PROVE SizeOf(standsFor[v]) <= SizeOf(standsFor[u])
    <3>1. N - SizeOf(standsFor[u]) <= N - SizeOf(standsFor[v])
      BY <1>3, <2>1 DEF S
    <3>2. N \in Nat /\ SizeOf(standsFor[u]) \in Nat /\ SizeOf(standsFor[v]) \in Nat
      BY <1>1, Sizes
    <3> HIDE DEF N
    <3> QED  BY <3>1, <3>2
  <2> QED  BY <2>2
<1>5. u \in Threads /\ standsFor[u] \in Nodes /\ u \in Under(standsFor[u])
  BY <1>1, <1>4
<1>6. PICK x \in released : x \in Under(standsFor[u]) /\ x \in Threads
  BY <1>4 DEF TypeOK
<1>7. x \notin arrived
  BY <1>6 DEF Rounds
<1>8. ~Climbs(u)
  BY <1>5, <1>6, <1>7 DEF Rounds
<1>9. ~(pc[u] = "outside" \/ First(u))
  <2> SUFFICES ASSUME pc[u] = "outside" \/ First(u) PROVE FALSE
    OBVIOUS
  <2>1. standsFor[u] = u /\ u \notin released
    BY <1>5 DEF Places, First, Rounds
  <2>2. x = u
    BY <1>5, <1>6, <2>1, Leaves DEF Under
  <2> QED  BY <1>6, <2>1, <2>2
<1>10. ~Still(u)
  <2> SUFFICES ASSUME Still(u) PROVE FALSE
    OBVIOUS
  <2>1. standsFor[u] # Root
    BY <1>5 DEF Places, Still
  <2>2. /\ Meet(u) \in Barriers /\ Meet(u) \in Nodes
        /\ Below[standsFor[u]] \subseteq Below[Meet(u)] /\ Meet(u) \notin Below[standsFor[u]]
    BY <1>5, <2>1, Meeting DEF Nodes
  <2>3. standsFor[u] \notin came[Meet(u)]
    BY <1>6, <1>7, <2>2 DEF Rounds
  <2>4. PICK v \in Threads : Holds(v, Meet(u))
    BY <1>5, <2>3 DEF Waiting
  <2>5. Meet(u) \in Below[standsFor[v]] /\ standsFor[v] \in Nodes
    BY <1>1, <2>4 DEF Holds
  <2>6. Below[Meet(u)] \subseteq Below[standsFor[v]]
    BY <2>5, Subtree
  <2>7. v \in D
    BY <1>6, <2>2, <2>6 DEF Under
  <2>8. /\ SizeOf(standsFor[u]) < SizeOf(Meet(u)) /\ SizeOf(Meet(u)) <= SizeOf(standsFor[v])
        /\ SizeOf(standsFor[v]) <= SizeOf(standsFor[u])
    BY <1>4, <1>5, <2>2, <2>5, <2>7, Sizes
  <2>9. SizeOf(standsFor[u]) \in Nat /\ SizeOf(Meet(u)) \in Nat /\ SizeOf(standsFor[v]) \in Nat
    BY <1>5, <2>2, <2>5, Sizes
  <2> QED  BY <2>8, <2>9
<1>11. pc[u] = "open" \/ LetGo(u)
  BY <1>5, <1>8, <1>9, <1>10 DEF TypeOK, Climbs, First, Still, LetGo
<1>12. Under(standsFor[u]) \subseteq released
  BY <1>5, <1>11 DEF Rounds
<1> QED  BY <1>5, <1>11, <1>12

\* If all stood still there would be a smallest subtree that nobody stands for,
\* with a member that has not come: a smaller one, or a thread outside.
LEMMA AllInsideGoOn ==
  ASSUME IInv, Waiting, LastGoesOn, \A t \in Threads : pc[t] # "outside"
  PROVE  \E t \in Threads : GoesOn(t)
<1> USE DEF IInv
<1>1. SUFFICES ASSUME \A t \in Threads : Still(t) PROVE FALSE
  BY DEF GoesOn, Still, LetGo
<1> DEFINE Free(n) == \A t \in Threads : n \notin Below[standsFor[t]]
           E == {b \in Barriers : Free(b)}
           S == {SizeOf(b) : b \in E}
<1>2. \A t \in Threads : standsFor[t] \in Nodes /\ standsFor[t] # Root /\ t \in Below[standsFor[t]]
  BY <1>1 DEF TypeOK, Places, Still
<1>3. Root \in E
  <2> SUFFICES ASSUME NEW t \in Threads, Root \in Below[standsFor[t]] PROVE FALSE
    BY BarriersAreATree
  <2>1. Meet(t) \in Barriers /\ Meet(t) \notin Below[standsFor[t]]
    BY <1>2, Meeting
  <2>2. Below[Root] \subseteq Below[standsFor[t]] /\ Meet(t) \in Below[Root]
    BY <1>2, <2>1, BarriersAreATree DEF Nodes
  <2> QED  BY <2>1, <2>2
<1>4. S \in SUBSET Nat /\ S # {}
  BY <1>3, Sizes DEF Nodes
<1> HIDE DEF S
<1>5. PICK s \in S : \A r \in S : s <= r
  BY <1>4, LeastOf
<1>6. PICK b \in E : \A c \in E : SizeOf(b) <= SizeOf(c)
  BY <1>5 DEF S
<1>7. b \in Barriers /\ b \in Nodes /\ Free(b)
  BY <1>6 DEF Nodes
<1>8. PICK n \in Members(b) : n \notin came[b]
  <2>1. came[b] # Members(b)
    BY <1>1, <1>7 DEF LastGoesOn, Still
  <2>2. came[b] \subseteq Members(b)
    BY <1>7 DEF Counters
  <2> QED  BY <2>1, <2>2
<1>9. n \in Nodes /\ Parent[n] = b /\ Below[n] \subseteq Below[b] /\ b \notin Below[n]
  BY <1>7, <1>8, Subtree
<1>10. Free(n)
  <2> SUFFICES ASSUME NEW t \in Threads, n \in Below[standsFor[t]] PROVE FALSE
    OBVIOUS
  <2>1. CASE standsFor[t] = n
    <3>1. Meet(t) = b
      BY <1>9, <2>1 DEF Meet
    <3>2. PICK u \in Threads : Holds(u, b)
      BY <1>1, <1>8, <2>1, <3>1 DEF Waiting
    <3> QED  BY <1>7, <3>2 DEF Holds
  <2>2. CASE standsFor[t] # n
    <3>1. b \in Below[standsFor[t]]
      BY <1>2, <1>7, <1>8, <2>2, Above
    <3> QED  BY <1>7, <3>1
  <2> QED  BY <2>1, <2>2
<1>11. CASE n \in Threads
  BY <1>2, <1>10, <1>11
<1>12. CASE n \in Barriers
  <2>1. SizeOf(b) <= SizeOf(n)
    BY <1>6, <1>10, <1>12
  <2>2. SizeOf(n) < SizeOf(b) /\ SizeOf(n) \in Nat /\ SizeOf(b) \in Nat
    BY <1>7, <1>9, Sizes
  <2> QED  BY <2>1, <2>2
<1> QED  BY <1>9, <1>11, <1>12 DEF Nodes

\* HierarchicBarrier::wait loses nobody (Barrier.hpp:25-44, 113): as long as a
\* thread that was released has not left, one of those can go on, whoever of the
\* others calls again or never does; and when all threads are inside, some thread
\* has more to do than to spin.  This needs that every barrier counts at least
\* one member (IsTree), as the trees of create do (CreateBuildsATree).
THEOREM NobodyIsLeftBehind ==
  Spec => [](/\ released # {} => \E t \in released : pc[t] = "open" \/ LetGo(t)
             /\ (\A t \in Threads : pc[t] # "outside") => \E t \in Threads : GoesOn(t))
<1> DEFINE Goes == /\ released # {} => \E t \in released : pc[t] = "open" \/ LetGo(t)
                   /\ (\A t \in Threads : pc[t] # "outside") => \E t \in Threads : GoesOn(t)
<1>1. IInv /\ Waiting /\ LastGoesOn => Goes
  BY ReleasedGoOn, AllInsideGoOn
<1>2. Spec => []Goes
  <2> HIDE DEF Goes
  <2> QED  BY <1>1, InitWaiting, NextWaiting, Invariance, PTL DEF Spec
<1> QED  BY <1>2

\* What a call of wait has left: up to the root, or to where it spins, then the
\* finalizer, then the barriers it opens on its way back.
CallStages ==
  [climb |-> 3, arrive |-> 3, reset |-> 3, spin |-> 3, finalize |-> 2, open |-> 1,
   outside |-> 0]

NodesLeft(t) ==
  IF pc[t] = "open" THEN SizeOf(standsFor[t]) ELSE Cardinality(Nodes) - SizeOf(standsFor[t])

CallRank(t) ==
  <<CallStages[pc[t]], NodesLeft(t),
    IF pc[t] = "climb" THEN 2 ELSE IF pc[t] = "arrive" THEN 1 ELSE 0>>

CallsLeft == [t \in Threads |-> CallRank(t)]

\* The program calls wait, or a call comes forward and keeps the others where
\* they are.
CallsGoDown ==
  \/ \E t \in Threads : pc[t] = "outside" /\ pc'[t] = "arrive"
  \/ <<CallsLeft', CallsLeft>> \in FamilyDescent(Threads)

LEMMA CallsAreRanks == TypeOK => CallsLeft \in [Threads -> Triples]
<1> SUFFICES ASSUME TypeOK, NEW t \in Threads PROVE CallRank(t) \in Triples
  BY DEF CallsLeft
<1>1. CallStages[pc[t]] \in Nat
  BY DEF TypeOK, CallStages
<1>2. NodesLeft(t) \in Nat
  <2>1. SizeOf(standsFor[t]) \in Nat /\ Cardinality(Nodes) \in Nat
        /\ SizeOf(standsFor[t]) <= Cardinality(Nodes)
    BY Sizes DEF TypeOK
  <2> QED  BY <2>1 DEF NodesLeft
<1> QED  BY <1>1, <1>2 DEF CallRank, Triples

LEMMA CallGoesDown ==
  ASSUME IInv, NEW t \in Threads, Step(t), pc[t] # "outside"
  PROVE  Smaller(CallRank(t)', CallRank(t))
<1> USE DEF IInv
<1>1. standsFor[t] \in Nodes
  BY DEF TypeOK
<1>2. ASSUME CallStages[pc'[t]] < CallStages[pc[t]] PROVE Smaller(CallRank(t)', CallRank(t))
  BY <1>2 DEF CallRank, Smaller
<1>3. CASE LoadRound(t) \/ Arrive(t)
  <2>1. standsFor' = standsFor
    BY <1>3 DEF LoadRound, Arrive
  <2>2. \/ pc[t] = "climb" /\ pc'[t] = "arrive"
        \/ pc[t] = "arrive" /\ pc'[t] \in {"reset", "spin"}
    BY <1>3 DEF LoadRound, Arrive, TypeOK
  <2>3. NodesLeft(t)' = NodesLeft(t)
    BY <2>1, <2>2 DEF NodesLeft
  <2> QED  BY <2>2, <2>3 DEF CallRank, CallStages, Smaller
<1>4. CASE Reset(t)
  <2>1. PICK b \in Barriers :
          /\ b = Meet(t) /\ Below[standsFor[t]] \subseteq Below[b] /\ b \notin Below[standsFor[t]]
    BY <1>4, Meeting DEF Reset, TypeOK, Places
  <2>2. pc[t] = "reset" /\ pc'[t] \in {"finalize", "climb"} /\ standsFor'[t] = b
    BY <1>4, <2>1 DEF Reset, TypeOK
  <2>3. CASE pc'[t] = "finalize"
    BY <1>2, <2>2, <2>3 DEF CallStages
  <2>4. CASE pc'[t] = "climb"
    <3>1. PICK x \in Nat, y \in Nat, k \in Nat :
            /\ x = SizeOf(standsFor[t]) /\ y = SizeOf(b) /\ k = Cardinality(Nodes)
            /\ x < y /\ y <= k
      <4>1. b \in Nodes
        BY DEF Nodes
      <4> QED  BY <1>1, <2>1, <4>1, Sizes
    <3>2. k - y < k - x
      BY <3>1
    <3>3. NodesLeft(t) = k - x /\ NodesLeft(t)' = k - y
      BY <2>2, <2>4, <3>1 DEF NodesLeft, SizeOf
    <3> QED  BY <2>2, <2>4, <3>2, <3>3 DEF CallRank, CallStages, Smaller
  <2> QED  BY <2>2, <2>3, <2>4
<1>5. CASE Finalize(t)
  BY <1>2, <1>5 DEF Finalize, TypeOK, CallStages
<1>6. CASE Open(t)
  <2>1. PICK n \in Nodes :
          /\ Below[n] \subseteq Below[standsFor[t]] /\ standsFor[t] \notin Below[n]
          /\ n = CHOOSE m \in Members(standsFor[t]) : t \in Below[m]
    BY <1>6, ComesFrom DEF Open
  <2>2. pc[t] = "open" /\ pc'[t] \in {"outside", "open"} /\ standsFor'[t] = n
    BY <1>6, <2>1 DEF Open, GoBack, TypeOK
  <2>3. CASE pc'[t] = "outside"
    BY <1>2, <2>2, <2>3 DEF CallStages
  <2>4. CASE pc'[t] = "open"
    <3>1. SizeOf(n) < SizeOf(standsFor[t])
      BY <1>1, <2>1, Sizes
    <3>2. NodesLeft(t)' = SizeOf(n) /\ NodesLeft(t) = SizeOf(standsFor[t])
      BY <2>2, <2>4 DEF NodesLeft, SizeOf
    <3> QED  BY <2>2, <2>4, <3>1, <3>2 DEF CallRank, Smaller
  <2> QED  BY <2>2, <2>3, <2>4
<1>7. CASE StopSpinning(t)
  BY <1>2, <1>7 DEF StopSpinning, GoBack, TypeOK, CallStages
<1> QED  BY <1>3, <1>4, <1>5, <1>6, <1>7 DEF Step

\* A step of a thread is about its own call.
LEMMA OtherCalls ==
  ASSUME TypeOK, NEW t \in Threads, Step(t), NEW u \in Threads \ {t}
  PROVE  CallRank(u)' = CallRank(u)
<1>1. pc'[u] = pc[u] /\ standsFor'[u] = standsFor[u]
  BY DEF TypeOK, Step, LoadRound, Arrive, Reset, Finalize, Open, StopSpinning, GoBack
<1> QED  BY <1>1 DEF CallRank, NodesLeft, SizeOf

\* A call of HierarchicBarrier::wait takes only finitely many steps (Barrier.hpp:25-44,
\* 113): between two calls of the program every step of any thread brings one call
\* forward and none back.  With NobodyIsLeftBehind, who is released leaves.
THEOREM CallsOfWaitEnd == Spec => [][CallsGoDown]_vars
<1>1. (TypeOK => CallsLeft \in [Threads -> Triples])'
  BY CallsAreRanks, PTL
<1>2. ASSUME IInv, IInv', [Next]_vars PROVE [CallsGoDown]_vars
  <2> SUFFICES ASSUME Next PROVE CallsGoDown
    BY <1>2
  <2>1. PICK t \in Threads : Step(t)
    BY DEF Next
  <2>2. CallsLeft \in [Threads -> Triples] /\ CallsLeft' \in [Threads -> Triples]
    BY <1>1, <1>2, CallsAreRanks DEF IInv
  <2>3. CASE pc[t] = "outside"
    <3>1. pc'[t] = "arrive"
      BY <1>2, <2>1, <2>3 DEF IInv, TypeOK, Step, LoadRound, Arrive, Reset, Finalize, Open,
                              StopSpinning
    <3> QED  BY <2>3, <3>1 DEF CallsGoDown
  <2>4. CASE pc[t] # "outside"
    <3>1. Smaller(CallRank(t)', CallRank(t))
      BY <1>2, <2>1, <2>4, CallGoesDown
    <3>2. \A u \in Threads \ {t} : CallRank(u)' = CallRank(u)
      BY <1>2, <2>1, OtherCalls DEF IInv
    <3>3. /\ DOMAIN CallsLeft = Threads
          /\ \A u \in Threads : CallsLeft[u] = CallRank(u) /\ CallsLeft'[u] = CallRank(u)'
      BY DEF CallsLeft
    <3>4. Lower(CallsLeft', CallsLeft)
      BY <3>1, <3>2, <3>3 DEF Lower, NotLarger
    <3> QED  BY <2>2, <3>4 DEF CallsGoDown, FamilyDescent
  <2> QED  BY <2>3, <2>4
<1> QED  BY <1>2, Invariance, PTL DEF Spec
=============================================================================
