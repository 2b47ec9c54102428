------------------------- MODULE HierarchicBarrier -------------------------
(***************************************************************************)
(* Barrier::wait and HierarchicBarrier::wait: threads meet at the leaves   *)
(* of a tree of spinning barriers.  The last one at a barrier goes on to   *)
(* its parent in the finalizer, the last one at the root runs the caller's *)
(* finalizer, and on the way back everybody who went up opens the barriers *)
(* it came through.                                                        *)
(*                                                                         *)
(* The tree is a constant: Parent leads from a thread to its barrier and   *)
(* from a barrier to its parent.  BarrierTree says which trees create      *)
(* builds.  The operations on the two atomics are single steps.            *)
(***************************************************************************)
EXTENDS Integers, FiniteSets

CONSTANTS
  Threads, Barriers,
  Root,           \* the barrier without parent
  Parent,         \* of every thread and every barrier but the root
  ThreadCount,    \* threadCount of every barrier
  Below,          \* the nodes of the subtree under a node, with itself
  RoundSize       \* values of round: 2^8

Nodes == Threads \cup Barriers

Members(b) == {n \in Nodes \ {Root} : Parent[n] = b}

\* Barriers with parents and counts are a tree with the threads at its leaves,
\* and below is its order.
IsTree(threads, barriers, root, parent, count, below) ==
  LET nodes      == threads \cup barriers
      members(b) == {n \in nodes \ {root} : parent[n] = b}
  IN  /\ IsFiniteSet(threads) /\ IsFiniteSet(barriers)
      /\ threads \cap barriers = {}
      /\ root \in barriers
      /\ parent \in [nodes \ {root} -> barriers]
      /\ count = [b \in barriers |-> Cardinality(members(b))]
      /\ \A b \in barriers : members(b) # {}
      /\ below \in [nodes -> SUBSET nodes]
      /\ \A n \in nodes : below[n] = {n} \cup UNION {below[m] : m \in members(n)}
      /\ \A n \in nodes : \A m \in below[n] : below[m] \subseteq below[n]
      /\ \A n \in nodes : \A m \in members(n) : n \notin below[m]
      /\ \A n1, n2 \in nodes :
           \/ below[n1] \cap below[n2] = {}
           \/ n1 \in below[n2] \/ n2 \in below[n1]
      /\ \A n1, n2 \in nodes \ {root} :
           parent[n1] = parent[n2] => n1 = n2 \/ below[n1] \cap below[n2] = {}
      /\ below[root] = nodes

ASSUME BarrierAssumption ==
  /\ IsTree(Threads, Barriers, Root, Parent, ThreadCount, Below)
  /\ RoundSize \in Nat \ {0, 1}

VARIABLES
  cntr, round,    \* the two atomics of every barrier
  pc,             \* where each thread is in wait
  standsFor,      \* the node it represents: itself, or where it was the last
  prevRound,      \* its local variable at the barrier it waits at
  result,         \* what its wait returns
  came,           \* history: which members have come to a barrier this round
  arrived,        \* history: which threads have called wait this round
  released,       \* history: the threads of the last round still inside
  finalizer       \* history: who ran the last finalizer

barrierVars == <<cntr, round, came>>
history == <<arrived, released, finalizer>>
vars == <<cntr, round, pc, standsFor, prevRound, result, came, history>>

\* The barrier where t waits next, or waits now.
Meet(t) == Parent[standsFor[t]]

Init ==
  /\ cntr = ThreadCount
  /\ round = [b \in Barriers |-> 0]
  /\ pc = [t \in Threads |-> "outside"]
  /\ standsFor = [t \in Threads |-> t]
  /\ prevRound = [t \in Threads |-> 0]
  /\ result = [t \in Threads |-> FALSE]
  /\ came = [b \in Barriers |-> {}]
  /\ arrived = {} /\ released = {}
  /\ finalizer \in Threads

\* wait is called, by the program or by the finalizer of the barrier below.
LoadRound(t) ==
  /\ pc[t] \in {"outside", "climb"}
  /\ pc' = [pc EXCEPT ![t] = "arrive"]
  /\ prevRound' = [prevRound EXCEPT ![t] = round[Meet(t)]]
  /\ UNCHANGED <<standsFor, result, barrierVars, history>>

\* Mutant of Arrive: the last but one takes itself for the last.
ArriveEarly(t) ==
  LET b == Meet(t) IN
  /\ pc[t] = "arrive"
  /\ cntr' = [cntr EXCEPT ![b] = @ - 1]
  /\ came' = [came EXCEPT ![b] = @ \cup {standsFor[t]}]
  /\ pc' = [pc EXCEPT ![t] = IF cntr[b] <= 2 THEN "reset" ELSE "spin"]
  /\ arrived' = IF standsFor[t] = t THEN arrived \cup {t} ELSE arrived
  /\ UNCHANGED <<round, standsFor, prevRound, result, released, finalizer>>

\* fetch_sub, and the branch on what it returned
Arrive(t) ==
  LET b == Meet(t) IN
  /\ pc[t] = "arrive"
  /\ cntr' = [cntr EXCEPT ![b] = @ - 1]
  /\ came' = [came EXCEPT ![b] = @ \cup {standsFor[t]}]
  /\ pc' = [pc EXCEPT ![t] = IF cntr[b] = 1 THEN "reset" ELSE "spin"]
  /\ arrived' = IF standsFor[t] = t THEN arrived \cup {t} ELSE arrived
  /\ UNCHANGED <<round, standsFor, prevRound, result, released, finalizer>>

\* Mutants of Reset: the counter is set one too low, or the barrier is
\* opened before the finalizer runs.
ResetShort(t) ==
  LET b == Meet(t) IN
  /\ pc[t] = "reset"
  /\ cntr' = [cntr EXCEPT ![b] = ThreadCount[b] - 1]
  /\ came' = [came EXCEPT ![b] = {}]
  /\ standsFor' = [standsFor EXCEPT ![t] = b]
  /\ pc' = [pc EXCEPT ![t] = IF b = Root THEN "finalize" ELSE "climb"]
  /\ UNCHANGED <<round, prevRound, result, history>>

ResetAndOpen(t) ==
  LET b == Meet(t) IN
  /\ pc[t] = "reset"
  /\ cntr' = [cntr EXCEPT ![b] = ThreadCount[b]]
  /\ round' = [round EXCEPT ![b] = (@ + 1) % RoundSize]
  /\ came' = [came EXCEPT ![b] = {}]
  /\ standsFor' = [standsFor EXCEPT ![t] = b]
  /\ pc' = [pc EXCEPT ![t] = IF b = Root THEN "finalize" ELSE "climb"]
  /\ UNCHANGED <<prevRound, result, history>>

\* cntr = threadCount, then the finalizer is called
Reset(t) ==
  LET b == Meet(t) IN
  /\ pc[t] = "reset"
  /\ cntr' = [cntr EXCEPT ![b] = ThreadCount[b]]
  /\ came' = [came EXCEPT ![b] = {}]
  /\ standsFor' = [standsFor EXCEPT ![t] = b]
  /\ pc' = [pc EXCEPT ![t] = IF b = Root THEN "finalize" ELSE "climb"]
  /\ UNCHANGED <<round, prevRound, result, history>>

\* The caller's finalizer, and the wait of the root returns true.
Finalize(t) ==
  /\ pc[t] = "finalize"
  /\ result' = [result EXCEPT ![t] = TRUE]
  /\ pc' = [pc EXCEPT ![t] = "open"]
  /\ arrived' = {}
  /\ released' = arrived
  /\ finalizer' = t
  /\ UNCHANGED <<standsFor, prevRound, barrierVars>>

\* What is left of a wait when its barrier returns: the rest of the finalizer
\* call at the barrier below, or nothing.
GoBack(t, below) ==
  /\ standsFor' = [standsFor EXCEPT ![t] = below]
  /\ pc' = [pc EXCEPT ![t] = IF below = t THEN "outside" ELSE "open"]
  /\ released' = IF below = t THEN released \ {t} ELSE released
  /\ UNCHANGED <<cntr, came, prevRound, arrived, finalizer>>

\* Mutant of Open: what the finalizer returned is lost on the way.
OpenForgets(t) ==
  LET b == standsFor[t] IN
  /\ pc[t] = "open"
  /\ round' = [round EXCEPT ![b] = (@ + 1) % RoundSize]
  /\ GoBack(t, CHOOSE n \in Members(b) : t \in Below[n])
  /\ result' = [result EXCEPT ![t] = FALSE]

\* round++, return r; the frame below is that of the member t came from
Open(t) ==
  LET b == standsFor[t] IN
  /\ pc[t] = "open"
  /\ round' = [round EXCEPT ![b] = (@ + 1) % RoundSize]
  /\ GoBack(t, CHOOSE n \in Members(b) : t \in Below[n])
  /\ UNCHANGED result

\* The loop on round ends, return false.
StopSpinning(t) ==
  /\ pc[t] = "spin"
  /\ round[Meet(t)] # prevRound[t]
  /\ result' = [result EXCEPT ![t] = FALSE]
  /\ GoBack(t, standsFor[t])
  /\ UNCHANGED round

Step(t) ==
  \/ LoadRound(t) \/ Arrive(t) \/ Reset(t) \/ Finalize(t)
  \/ Open(t) \/ StopSpinning(t)

Next == \E t \in Threads : Step(t)

\* A thread in wait is an operating-system thread that runs or spins; whether
\* the program calls wait again is its own affair.
Fairness == \A t \in Threads : WF_vars(pc[t] # "outside" /\ Step(t))

Spec == Init /\ [][Next]_vars /\ Fairness

-----------------------------------------------------------------------------

TypeOK ==
  /\ cntr \in [Barriers -> Nat]
  /\ \A b \in Barriers : cntr[b] <= ThreadCount[b]
  /\ round \in [Barriers -> 0..RoundSize - 1]
  /\ pc \in [Threads -> {"outside", "climb", "arrive", "reset", "finalize",
                          "open", "spin"}]
  /\ standsFor \in [Threads -> Nodes]
  /\ prevRound \in [Threads -> 0..RoundSize - 1]
  /\ result \in [Threads -> BOOLEAN]
  /\ came \in [Barriers -> SUBSET Nodes]
  /\ arrived \subseteq Threads /\ released \subseteq Threads
  /\ finalizer \in Threads

\* The finalizer runs when nobody else does: all other threads of the group
\* spin, at whatever barrier.  What it writes needs no lock (Barrier.hpp:32).
FinalizerRunsAlone ==
  \A t \in Threads : pc[t] = "finalize" =>
    \A u \in Threads \ {t} : pc[u] = "spin"

\* round is one byte and wraps.  A thread that spins cannot mistake a later
\* round for its own: the barrier is not opened again before it has noticed
\* (the uint8_t of Barrier.hpp:16).
NobodyIsLapped ==
  \A t, u \in Threads :
    pc[t] = "spin" /\ pc[u] = "open" /\ standsFor[u] = Meet(t) =>
      prevRound[t] = round[Meet(t)]

\* In every round wait returns true to one thread, the one that ran the
\* finalizer, through all barriers it came up (Barrier.hpp:33 and 113).
OneIsTold ==
  [][\A t \in Threads : pc[t] # "outside" /\ pc'[t] = "outside" =>
       result'[t] = (t = finalizer)]_vars

\* The whole tree is one barrier: nobody leaves before everybody came, a fast
\* thread that comes again is not counted for the round that is over, and when
\* all have come all are let go (HierarchicBarrier::wait).
Promise == INSTANCE BarrierPromise
KeepsPromise == Promise!Spec
=============================================================================
