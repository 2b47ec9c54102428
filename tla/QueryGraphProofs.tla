-------------------------- MODULE QueryGraphProofs --------------------------
(***************************************************************************)
(* What both executors need: when load_data is right (for any graph, any   *)
(* columns and any history, provided the aliases it hands out clear the    *)
(* keys it still has to visit), what a topological order gives, and what   *)
(* the steps of a vertex do to the dictionaries.                           *)
(***************************************************************************)
EXTENDS QueryGraph, Ranks, FiniteSetTheorems, WellFoundedInduction, TLAPS

-----------------------------------------------------------------------------
(* load_data.                                                              *)

\* No buffer has an alias the counter has not reached, so that the insert
\* into the dictionary always places what it is given.
AliasesBelowCounter ==
  /\ DOMAIN device_data \subseteq (1..total_data_set_in_device) \X Device
  /\ DOMAIN host_data \subseteq 1..total_data_set_in_device

\* The condition on keys and aliases, carried along the loop.
Clear ==
  \/ \A k \in Columns : k <= total_data_set_in_device
  \/ \E n \in Nat : /\ Columns = 1..n
                    /\ to_load = (total_data_set_in_device + 1)..n

ScanInv ==
  /\ total_data_set_in_device \in Nat
  /\ data_pointer \in [Edge -> Nat]
  /\ to_load \subseteq Columns
  /\ AliasesBelowCounter
  /\ Clear
  \* an edge not yet visited still has its key; one visited leads to its
  \* column, under an alias that no later round takes for a key
  /\ \A e \in OutEdges(Start) :
       /\ Key[e] \in to_load => data_pointer[e] = Key[e]
       /\ Key[e] \in Columns \ to_load =>
            HoldsItsColumn(e) /\ data_pointer[e] \notin to_load

LEMMA InitScanInv == AliasesClearKeys /\ ScanInit => ScanInv
<1> SUFFICES ASSUME AliasesClearKeys, ScanInit PROVE ScanInv
  OBVIOUS
<1>1. PICK c \in EarlierAliases : total_data_set_in_device = c
  BY DEF ScanInit
<1>2. c \in Nat
  BY ScanAssumption
<1>3. Clear
  BY <1>1, <1>2 DEF AliasesClearKeys, ScanInit, Clear
<1>4. AliasesBelowCounter
  BY <1>1, <1>2, ScanAssumption DEF ScanInit, AliasesBelowCounter
<1>5. QED
  BY <1>1, <1>2, <1>3, <1>4, ScanAssumption DEF ScanInit, ScanInv, OutEdges

\* What one round does to the rest of the state.
LEMMA ScanStep ==
  ASSUME ScanInv, NEW k \in Columns, LoadColumn(k)
  PROVE  ScanInv'
<1> DEFINE alias == total_data_set_in_device + 1
<1>1. /\ total_data_set_in_device' = alias /\ alias \in Nat
      /\ total_data_set_in_device \in Nat /\ k \in Nat
      /\ k \in to_load /\ to_load' = to_load \ {k}
      /\ \A j \in to_load : k <= j
      /\ Columns \subseteq Nat
  BY ScanAssumption DEF ScanInv, LoadColumn, PlaceData
<1>2. /\ <<alias, FirstDevice>> \notin DOMAIN device_data
      /\ alias \notin DOMAIN host_data
  BY <1>1 DEF ScanInv, AliasesBelowCounter
<1>3. /\ DOMAIN device_data' = DOMAIN device_data \cup {<<alias, FirstDevice>>}
      /\ device_data'[<<alias, FirstDevice>>] = Column(k)
      /\ \A x \in DOMAIN device_data : device_data'[x] = device_data[x]
  BY <1>1, <1>2 DEF LoadColumn, PlaceData, Insert
<1>4. /\ DOMAIN host_data' = DOMAIN host_data \cup {alias}
      /\ host_data'[alias] = Column(k)
      /\ \A x \in DOMAIN host_data : host_data'[x] = host_data[x]
  BY <1>1, <1>2 DEF LoadColumn, PlaceData, Assign
<1>5. /\ data_pointer' \in [Edge -> Nat]
      /\ \A e \in OutEdges(Start) :
           data_pointer'[e] = IF data_pointer[e] = k THEN alias ELSE data_pointer[e]
  BY <1>1 DEF LoadColumn, ScanInv, OutEdges
<1>6. AliasesBelowCounter'
  <2>1. /\ DOMAIN device_data \subseteq (1..total_data_set_in_device) \X Device
        /\ DOMAIN host_data \subseteq 1..total_data_set_in_device
    BY DEF ScanInv, AliasesBelowCounter
  <2>2. /\ 1..total_data_set_in_device \subseteq 1..alias
        /\ alias \in 1..alias
    BY <1>1
  <2>3. FirstDevice \in Device
    BY ScanAssumption
  <2>4. QED
    BY <1>1, <1>3, <1>4, <2>1, <2>2, <2>3 DEF AliasesBelowCounter
<1>7. Clear'
  <2>1. CASE \A j \in Columns : j <= total_data_set_in_device
    BY <1>1, <2>1 DEF Clear
  <2>2. CASE \E n \in Nat : /\ Columns = 1..n
                            /\ to_load = (total_data_set_in_device + 1)..n
    <3>1. PICK n \in Nat : /\ Columns = 1..n
                           /\ to_load = alias..n
      BY <2>2
    <3>2. k = alias
      BY <1>1, <3>1
    <3>3. to_load' = (alias + 1)..n
      BY <1>1, <3>1, <3>2
    <3>4. QED
      BY <1>1, <3>1, <3>3 DEF Clear
  <2>3. QED
    BY <2>1, <2>2 DEF ScanInv, Clear
<1>8. alias \notin to_load'
  <2>1. CASE \A j \in Columns : j <= total_data_set_in_device
    BY <1>1, <2>1 DEF ScanInv
  <2>2. CASE \E n \in Nat : /\ Columns = 1..n
                            /\ to_load = (total_data_set_in_device + 1)..n
    <3>1. PICK n \in Nat : to_load = alias..n
      BY <2>2
    <3>2. k = alias
      BY <1>1, <3>1
    <3>3. QED
      BY <1>1, <3>2
  <2>3. QED
    BY <2>1, <2>2 DEF ScanInv, Clear
<1>9. ASSUME NEW e \in OutEdges(Start)
      PROVE  /\ Key[e] \in to_load' => data_pointer'[e] = Key[e]
             /\ Key[e] \in Columns \ to_load' =>
                  HoldsItsColumn(e)' /\ data_pointer'[e] \notin to_load'
  <2>1. CASE Key[e] \in to_load'
    BY <1>1, <1>5, <2>1 DEF ScanInv
  <2>2. CASE Key[e] = k
    <3>1. data_pointer'[e] = alias
      BY <1>1, <1>5, <2>2 DEF ScanInv
    <3>2. HoldsItsColumn(e)'
      BY <1>3, <1>4, <2>2, <3>1 DEF HoldsItsColumn
    <3>3. QED
      BY <1>1, <1>8, <2>2, <3>1, <3>2
  <2>3. CASE Key[e] \in Columns \ to_load
    <3>1. HoldsItsColumn(e) /\ data_pointer[e] \notin to_load
      BY <2>3 DEF ScanInv
    <3>2. data_pointer'[e] = data_pointer[e]
      BY <1>1, <1>5, <3>1
    <3>3. HoldsItsColumn(e)'
      BY <1>3, <1>4, <3>1, <3>2 DEF HoldsItsColumn
    <3>4. QED
      BY <1>1, <2>3, <3>1, <3>2, <3>3
  <2>4. QED
    BY <1>1, <2>1, <2>2, <2>3
<1>10. to_load' \subseteq Columns
  BY <1>1 DEF ScanInv
<1>11. QED
  BY <1>1, <1>5, <1>6, <1>7, <1>9, <1>10 DEF ScanInv, OutEdges

LEMMA NextScanInv == ScanInv /\ [ScanNext]_scanVars => ScanInv'
<1> SUFFICES ASSUME ScanInv, [ScanNext]_scanVars PROVE ScanInv'
  OBVIOUS
<1>1. CASE ScanNext
  BY <1>1, ScanStep DEF ScanNext
<1>2. CASE UNCHANGED scanVars
  BY <1>2 DEF scanVars, ScanInv, AliasesBelowCounter, Clear, HoldsItsColumn, OutEdges
<1>3. QED
  BY <1>1, <1>2

\* load_data gives every scan edge its own column in both layers, for every
\* graph and every set of columns, when the aliases clear the keys.
THEOREM LoadIsRight ==
  ASSUME AliasesClearKeys
  PROVE  ScanSpec => []ScanEdgesHoldTheirColumn
<1>1. ScanInit => ScanInv
  BY InitScanInv
<1>2. ScanInv => ScanEdgesHoldTheirColumn
  BY DEF ScanInv, ScanEdgesHoldTheirColumn
<1>3. QED
  BY <1>1, <1>2, NextScanInv, PTL DEF ScanSpec

-----------------------------------------------------------------------------
(* Topological orders.                                                     *)

\* An order has every element of a finite set, once.
LEMMA OrderIsOnto ==
  ASSUME NEW S, IsFiniteSet(S), NEW order \in Orders(S)
  PROVE  /\ Cardinality(S) \in Nat
         /\ order \in Seq(S) /\ Len(order) = Cardinality(S)
         /\ \A i, j \in 1..Cardinality(S) : order[i] = order[j] => i = j
         /\ \A s \in S : \E i \in 1..Cardinality(S) : order[i] = s
<1> DEFINE n == Cardinality(S)
<1>1. n \in Nat
  BY FS_CardinalityType
<1>2. /\ order \in [1..n -> S]
      /\ \A i, j \in 1..n : order[i] = order[j] => i = j
  BY DEF Orders
<1>3. order \in Injection(1..n, S)
  BY <1>2 DEF Injection, IsInjective
<1>4. Cardinality(1..n) = n
  BY <1>1, FS_Interval
<1>5. order \in Surjection(1..n, S)
  BY <1>3, <1>4, FS_Injection
<1>6. QED
  BY <1>1, <1>2, <1>5 DEF Surjection

\* The scan comes first, and the source of every in-edge before its reader.
LEMMA TopologicalOrder ==
  ASSUME IsFiniteSet(Vertex), NEW order \in TopologicalOrders(Vertex)
  PROVE  /\ Cardinality(Vertex) \in Nat /\ Cardinality(Vertex) > 0
         /\ order \in Seq(Vertex) /\ Len(order) = Cardinality(Vertex)
         /\ \A i, j \in 1..Cardinality(Vertex) : order[i] = order[j] => i = j
         /\ \A v \in Vertex : \E i \in 1..Cardinality(Vertex) : order[i] = v
         /\ \A j \in 1..Cardinality(Vertex) : \A n \in DOMAIN InEdges[order[j]] :
              \E i \in 1..(j - 1) : order[i] = Source[InEdges[order[j]][n]]
         /\ order[1] = Start
<1> DEFINE c == Cardinality(Vertex)
<1>1. order \in Orders(Vertex)
  BY DEF TopologicalOrders
<1>2. /\ c \in Nat
      /\ order \in Seq(Vertex) /\ Len(order) = c
      /\ \A i, j \in 1..c : order[i] = order[j] => i = j
      /\ \A v \in Vertex : \E i \in 1..c : order[i] = v
  BY <1>1, OrderIsOnto
<1>3. Start \in Vertex
  BY DEF Vertex
<1>4. c > 0
  BY <1>2, <1>3
<1>5. ASSUME NEW j \in 1..c, NEW n \in DOMAIN InEdges[order[j]]
      PROVE  \E i \in 1..(j - 1) : order[i] = Source[InEdges[order[j]][n]]
  <2>1. SourceCame(Vertex, order, j, n)
    BY <1>5 DEF TopologicalOrders
  <2>2. order[j] \in Vertex
    BY <1>2
  <2>3. InEdges[order[j]][n] \in Edge
    BY <2>2, ScanAssumption
  <2>4. Source[InEdges[order[j]][n]] \in Vertex
    BY <2>3, ScanAssumption
  <2>5. QED
    BY <2>1, <2>4 DEF SourceCame
<1>6. order[1] = Start
  <2>1. 1 \in 1..c /\ order[1] \in Vertex
    BY <1>2, <1>4
  <2>2. \A n \in DOMAIN InEdges[order[1]] : FALSE
    BY <1>5, <2>1
  <2>3. InEdges[order[1]] \in Seq(Edge)
    BY <2>1, ScanAssumption
  <2>4. InEdges[order[1]] = <<>>
    BY <2>2, <2>3
  <2>5. QED
    BY <2>1, <2>4, GraphAssumption
<1>7. QED
  BY <1>2, <1>4, <1>5, <1>6


-----------------------------------------------------------------------------
(* Ranks that only go down come to an end.                                 *)

LEMMA LeastOf ==
  ASSUME NEW S \in SUBSET Nat, S # {}
  PROVE  \E s \in S : \A t \in S : s <= t
<1>1. PICK s \in S : \A t \in S : <<t, s>> \notin OpToRel(<, Nat)
  BY WFMin, NatLessThanWellFounded
<1>2. \A t \in S : ~(t < s)
  BY <1>1 DEF OpToRel
<1>3. QED
  BY <1>2


\* Triples of naturals are well founded in their lexicographic order.
LEMMA TriplesEnd == IsWellFoundedOn(Descent, Triples)
<1>1. \A T \in SUBSET Triples : T # {} => \E x \in T : \A y \in T : ~ (<<y, x>> \in Descent)
  <2> SUFFICES ASSUME NEW T \in SUBSET Triples, T # {}
               PROVE  \E x \in T : \A y \in T : <<y, x>> \notin Descent
    OBVIOUS
  <2> DEFINE A == {x[1] : x \in T}
  <2>1. PICK a \in A : \A b \in A : a <= b
    <3>1. A \in SUBSET Nat /\ A # {}
      BY DEF Triples
    <3> HIDE DEF A
    <3>2. QED
      BY <3>1, LeastOf
  <2> DEFINE B == {x[2] : x \in {z \in T : z[1] = a}}
  <2>2. PICK b \in B : \A c \in B : b <= c
    <3>1. B \in SUBSET Nat /\ B # {}
      BY DEF Triples
    <3> HIDE DEF B
    <3>2. QED
      BY <3>1, LeastOf
  <2> DEFINE C == {x[3] : x \in {z \in T : z[1] = a /\ z[2] = b}}
  <2>3. PICK c \in C : \A k \in C : c <= k
    <3>1. C \in SUBSET Nat /\ C # {}
      BY DEF Triples
    <3> HIDE DEF C
    <3>2. QED
      BY <3>1, LeastOf
  <2>4. PICK x \in T : x[1] = a /\ x[2] = b /\ x[3] = c
    OBVIOUS
  <2>5. ASSUME NEW y \in T, Smaller(y, x) PROVE FALSE
    <3>1. /\ y[1] \in Nat /\ y[2] \in Nat /\ y[3] \in Nat
          /\ a \in Nat /\ b \in Nat /\ c \in Nat
      BY <2>4 DEF Triples
    <3>2. y[1] \in A
      OBVIOUS
    <3>3. y[1] = a => y[2] \in B
      OBVIOUS
    <3>4. y[1] = a /\ y[2] = b => y[3] \in C
      OBVIOUS
    <3> HIDE DEF A, B, C
    <3>5. a <= y[1] /\ (y[1] = a => b <= y[2]) /\ (y[1] = a /\ y[2] = b => c <= y[3])
      BY <2>1, <2>2, <2>3, <3>2, <3>3, <3>4
    <3>6. QED
      BY <2>4, <2>5, <3>1, <3>5 DEF Smaller
  <2>6. QED
    BY <2>4, <2>5 DEF Descent
<1>2. QED
  BY <1>1, MinWF

\* So are the families of them over a finite set: with its members in some
\* order, one step down in a family is one in the lexicographic order.
LEMMA FamiliesEnd ==
  ASSUME NEW I, IsFiniteSet(I)
  PROVE  IsWellFoundedOn(FamilyDescent(I), [I -> Triples])
<1> DEFINE n == Cardinality(I)
           L == LexProductOrdering(Descent, Triples, n)
<1>1. n \in Nat /\ \E e : e \in Bijection(1..n, I)
  BY FS_CardinalityType DEF ExistsBijection
<1>2. PICK e : e \in Bijection(1..n, I)
  BY <1>1
<1>3. e \in [1..n -> I] /\ \A x \in I : \E i \in 1..n : e[i] = x
  BY <1>2 DEF Bijection, Surjection, Injection
<1>4. IsWellFoundedOn(L, [1..n -> Triples])
  BY <1>1, TriplesEnd, WFLexProductOrdering
<1> HIDE DEF n
<1>5. ASSUME NEW f \in [I -> Triples], NEW g \in [I -> Triples], Lower(f, g)
      PROVE  <<[i \in 1..n |-> f[e[i]]], [i \in 1..n |-> g[e[i]]]>> \in L
  <2> DEFINE S == {i \in 1..n : f[e[i]] # g[e[i]]}
  <2>1. S # {} /\ S \in SUBSET Nat
    <3>1. PICK x \in I : Smaller(f[x], g[x])
      BY <1>5 DEF Lower
    <3>2. f[x] # g[x]
      <4>1. g[x] \in Triples
        OBVIOUS
      <4>2. g[x][1] \in Nat /\ g[x][2] \in Nat /\ g[x][3] \in Nat
        BY <4>1 DEF Triples
      <4>3. QED
        BY <3>1, <4>2 DEF Smaller
    <3>3. QED
      BY <1>1, <1>3, <3>2
  <2>2. PICK j \in S : \A i \in S : j <= i
    <3> HIDE DEF S
    <3>1. QED
      BY <2>1, LeastOf
  <2>3. j \in 1..n /\ f[e[j]] # g[e[j]]
    BY <2>2
  <2>4. \A i \in 1..(j - 1) : f[e[i]] = g[e[i]]
    <3>1. \A i \in 1..(j - 1) : i \in 1..n /\ ~(j <= i)
      BY <1>1, <2>3
    <3>2. QED
      BY <2>2, <3>1
  <2>5. <<f[e[j]], g[e[j]]>> \in Descent
    <3>1. e[j] \in I
      BY <1>3, <2>3
    <3>2. Smaller(f[e[j]], g[e[j]])
      BY <1>5, <2>3, <3>1 DEF Lower, NotLarger
    <3>3. QED
      BY <3>1, <3>2 DEF Descent
  <2>6. \A i \in 1..(j - 1) : i \in 1..n
    BY <1>1, <2>3
  <2>7. QED
    BY <1>3, <2>3, <2>4, <2>5, <2>6 DEF LexProductOrdering
<1>6. \A T \in SUBSET [I -> Triples] :
        T # {} => \E f \in T : \A g \in T : ~ (<<g, f>> \in FamilyDescent(I))
  <2> SUFFICES ASSUME NEW T \in SUBSET [I -> Triples], T # {}
               PROVE  \E f \in T : \A g \in T : <<g, f>> \notin FamilyDescent(I)
    OBVIOUS
  <2> DEFINE Q == {[i \in 1..n |-> f[e[i]]] : f \in T}
  <2>1. Q \subseteq [1..n -> Triples] /\ Q # {}
    <3>1. ASSUME NEW f \in [I -> Triples] PROVE [i \in 1..n |-> f[e[i]]] \in [1..n -> Triples]
      BY <1>3
    <3>2. PICK f \in T : TRUE
      OBVIOUS
    <3>3. [i \in 1..n |-> f[e[i]]] \in Q
      OBVIOUS
    <3>4. ASSUME NEW p \in Q PROVE p \in [1..n -> Triples]
      <4>1. PICK g \in T : p = [i \in 1..n |-> g[e[i]]]
        OBVIOUS
      <4>2. QED
        BY <3>1, <4>1
    <3>5. QED
      BY <3>3, <3>4
  <2>2. PICK q \in Q : \A p \in Q : <<p, q>> \notin L
    <3> HIDE DEF Q, L
    <3>1. QED
      BY <1>4, <2>1, WFMin
  <2>3. PICK f \in T : q = [i \in 1..n |-> f[e[i]]]
    BY <2>2
  <2>4. ASSUME NEW g \in T, <<g, f>> \in FamilyDescent(I) PROVE FALSE
    <3>1. g \in [I -> Triples] /\ f \in [I -> Triples] /\ Lower(g, f)
      BY <2>4 DEF FamilyDescent
    <3> HIDE DEF L
    <3>2. <<[i \in 1..n |-> g[e[i]]], q>> \in L
      BY <1>5, <2>3, <3>1
    <3>3. [i \in 1..n |-> g[e[i]]] \in Q
      OBVIOUS
    <3> HIDE DEF Q
    <3>4. QED
      BY <2>2, <3>2, <3>3
  <2>5. QED
    BY <2>4
<1>7. QED
  BY <1>6, MinWF
=============================================================================
