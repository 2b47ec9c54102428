----------------------------- MODULE GlobalPool -----------------------------
(***************************************************************************)
(* GlobalPool::allocate: threads cut blocks off the chunk between start    *)
(* and end with a compare-and-swap on start, and the one that finds the    *)
(* chunk used up maps a new one under the mutex refill.  start and end are *)
(* two atomics, so the other threads see every combination of old and new. *)
(*                                                                         *)
(* Addresses are numbers.  A chunk is named by the address of its header;  *)
(* the kernel may map it above or below the last one.                      *)
(***************************************************************************)
EXTENDS Integers, FiniteSets

CONSTANTS
  Threads, Nobody,
  PoolSizes,      \* the sizes that are asked for
  ChunkAddresses, \* bound: where malloc_huge may put a chunk
  Header,         \* sizeof(Chunk)
  FirstSize,      \* allocSize of a new pool: 128 MB
  MaxCalls        \* bound on the number of calls

PoolAssumption ==
  /\ PoolSizes \subseteq Nat \ {0} /\ ChunkAddresses \subseteq Nat \ {0}
  /\ Header \in Nat \ {0} /\ FirstSize \in Nat \ {0}
  /\ MaxCalls \in Nat
  /\ Nobody \notin Threads

VARIABLES
  poolStart, poolEnd,              \* the two atomics start and end
  refill,                          \* who has the mutex
  current,                         \* the newest chunk
  chunkSize,                       \* allocSize
  chunks,                          \* what malloc_huge returned: [at, size]
  pc, size, startL, endL, chunkL,  \* each thread's place and local variables
  poolBlocks                       \* history: what was returned, [from, size, nr]

pool == <<poolStart, poolEnd, refill, current, chunkSize, chunks>>
locals == <<size, startL, endL, chunkL>>
poolVars == <<pool, pc, locals, poolBlocks>>

Data(c) == c + Header

LargerOf(x, y) == IF x > y THEN x ELSE y

PoolInit ==
  /\ current \in ChunkAddresses
  /\ chunks = {[at |-> current, size |-> FirstSize]}
  /\ poolStart = Data(current)
  /\ poolEnd = poolStart + FirstSize
  /\ refill = Nobody
  /\ chunkSize = FirstSize
  /\ pc = [t \in Threads |-> "idle"]
  /\ size = [t \in Threads |-> 0]
  /\ startL = [t \in Threads |-> 0] /\ endL = [t \in Threads |-> 0]
  /\ chunkL = [t \in Threads |-> 0]
  /\ poolBlocks = {}

Goto(t, place) == pc' = [pc EXCEPT ![t] = place]

Call(t, s) ==
  /\ pc[t] = "idle"
  /\ Cardinality(poolBlocks) + Cardinality({u \in Threads : pc[u] # "idle"}) < MaxCalls
  /\ size' = [size EXCEPT ![t] = s]
  /\ Goto(t, "start")
  /\ UNCHANGED <<pool, startL, endL, chunkL, poolBlocks>>

\* The loads before the mutex ("start", "end") and under it ("start2", "end2")
LoadStart(t) ==
  /\ pc[t] \in {"start", "start2"}
  /\ startL' = [startL EXCEPT ![t] = poolStart]
  /\ Goto(t, IF pc[t] = "start" THEN "end" ELSE "end2")
  /\ UNCHANGED <<pool, size, endL, chunkL, poolBlocks>>

TooSmall(t, e) == startL[t] + size[t] >= e

LoadEnd(t) ==
  /\ pc[t] = "end"
  /\ endL' = [endL EXCEPT ![t] = poolEnd]
  /\ Goto(t, IF TooSmall(t, poolEnd) THEN "lock" ELSE "swap")
  /\ UNCHANGED <<pool, size, startL, chunkL, poolBlocks>>

Lock(t) ==
  /\ pc[t] = "lock"
  /\ refill = Nobody
  /\ refill' = t
  /\ Goto(t, "start2")
  /\ UNCHANGED <<poolStart, poolEnd, current, chunkSize, chunks, locals, poolBlocks>>

\* The condition is checked again; if somebody has refilled meanwhile, goto
\* restart leaves the scope of the lock.
Recheck(t) ==
  /\ pc[t] = "end2"
  /\ endL' = [endL EXCEPT ![t] = poolEnd]
  /\ IF TooSmall(t, poolEnd)
     THEN Goto(t, "drainEnd") /\ UNCHANGED refill
     ELSE Goto(t, "start") /\ refill' = Nobody
  /\ UNCHANGED <<poolStart, poolEnd, current, chunkSize, chunks, size, startL, chunkL, poolBlocks>>

\* Nothing more is to be had from the old chunk: start is moved to end.
DrainEnd(t) ==
  /\ pc[t] = "drainEnd"
  /\ endL' = [endL EXCEPT ![t] = poolEnd]
  /\ Goto(t, "drain")
  /\ UNCHANGED <<pool, size, startL, chunkL, poolBlocks>>

\* compare_exchange_weak loads start when it fails, and may fail for no reason.
Drain(t) ==
  /\ pc[t] = "drain"
  /\ \/ /\ poolStart = startL[t]
        /\ poolStart' = endL[t]
        /\ Goto(t, "chunk")
        /\ UNCHANGED startL
     \/ /\ startL' = [startL EXCEPT ![t] = poolStart]
        /\ Goto(t, "drainEnd")
        /\ UNCHANGED poolStart
  /\ UNCHANGED <<poolEnd, refill, current, chunkSize, chunks, size, endL, chunkL, poolBlocks>>

\* Two mappings do not overlap.
Fits(c, n) ==
  \A d \in chunks : \/ c + Header + n <= d.at
                    \/ d.at + Header + d.size <= c

NewSize(t) == LargerOf(chunkSize * 2, size[t])

NewChunk(t) ==
  LET n == NewSize(t) IN
  /\ pc[t] = "chunk"
  /\ chunkSize' = n
  /\ \E c \in ChunkAddresses :
       /\ Fits(c, n)
       /\ chunks' = chunks \cup {[at |-> c, size |-> n]}
       /\ chunkL' = [chunkL EXCEPT ![t] = c]
       /\ startL' = [startL EXCEPT ![t] = Data(c)]
       /\ endL' = [endL EXCEPT ![t] = Data(c) + n]
  /\ Goto(t, "store1")
  /\ UNCHANGED <<poolStart, poolEnd, refill, current, size, poolBlocks>>

\* Mutant of EndFirst: the other way round.
EndLast(t) == chunkL[t] >= current

\* "order is important": below the old chunk, end is stored first.
EndFirst(t) == chunkL[t] < current

Store1(t) ==
  /\ pc[t] = "store1"
  /\ IF EndFirst(t)
     THEN poolEnd' = endL[t] /\ UNCHANGED poolStart
     ELSE poolStart' = startL[t] /\ UNCHANGED poolEnd
  /\ Goto(t, "store2")
  /\ UNCHANGED <<refill, current, chunkSize, chunks, locals, poolBlocks>>

\* The other one; then the chunk is current and the mutex free.
Store2(t) ==
  /\ pc[t] = "store2"
  /\ IF EndFirst(t)
     THEN poolStart' = startL[t] /\ UNCHANGED poolEnd
     ELSE poolEnd' = endL[t] /\ UNCHANGED poolStart
  /\ current' = chunkL[t]
  /\ refill' = Nobody
  /\ Goto(t, "swap")
  /\ UNCHANGED <<chunkSize, chunks, locals, poolBlocks>>

Swap(t) ==
  /\ pc[t] = "swap"
  /\ \/ /\ poolStart = startL[t]
        /\ poolStart' = startL[t] + size[t]
        /\ poolBlocks' = poolBlocks \cup {[from |-> startL[t], size |-> size[t],
                                   nr |-> Cardinality(poolBlocks)]}
        /\ Goto(t, "idle")
     \/ /\ Goto(t, "start")
        /\ UNCHANGED <<poolStart, poolBlocks>>
  /\ UNCHANGED <<poolEnd, refill, current, chunkSize, chunks, locals>>

PoolNext ==
  \E t \in Threads :
    \/ \E s \in PoolSizes : Call(t, s)
    \/ LoadStart(t) \/ LoadEnd(t) \/ Lock(t) \/ Recheck(t)
    \/ DrainEnd(t) \/ Drain(t) \/ NewChunk(t) \/ Store1(t) \/ Store2(t) \/ Swap(t)

PoolSpec == PoolInit /\ [][PoolNext]_poolVars

-----------------------------------------------------------------------------

PoolTypeOK ==
  /\ poolStart \in Nat /\ poolEnd \in Nat
  /\ refill \in Threads \cup {Nobody}
  /\ \A t \in Threads : refill = t <=>
       pc[t] \in {"start2", "end2", "drainEnd", "drain", "chunk", "store1", "store2"}
  /\ current \in ChunkAddresses
  /\ chunkSize \in Nat
  /\ \A c \in chunks : c.at \in ChunkAddresses /\ c.size \in Nat
  /\ pc \in [Threads -> {"idle", "start", "end", "lock", "start2", "end2",
               "drainEnd", "drain", "chunk", "store1", "store2", "swap"}]
  /\ size \in [Threads -> PoolSizes \cup {0}]
  /\ startL \in [Threads -> Nat] /\ endL \in [Threads -> Nat]
  /\ chunkL \in [Threads -> ChunkAddresses \cup {0}]
  /\ \A b \in poolBlocks : b.from \in Nat /\ b.size \in PoolSizes

\* No byte is given to two callers, however the loads of start and end by one
\* thread and the stores by another interleave (MemoryPool.cpp:57, "order is
\* important"), and what is returned lies within one chunk, behind its header.
PoolBlocksAreSafe ==
  /\ \A a, b \in poolBlocks :
       a # b => a.from + a.size <= b.from \/ b.from + b.size <= a.from
  /\ \A b \in poolBlocks : \E c \in chunks :
       Data(c.at) <= b.from /\ b.from + b.size <= Data(c.at) + c.size
=============================================================================
