----------------------------- MODULE Allocator -----------------------------
(***************************************************************************)
(* Allocator::allocate, the allocator of one worker: aligned blocks, cut   *)
(* from ever larger pieces of the global pool.  A piece may begin at any   *)
(* address and belongs to this worker alone, as GlobalPool shows.          *)
(***************************************************************************)
EXTENDS Integers, FiniteSets

CONSTANTS
  Alignment,      \* 64 bytes
  Sizes,          \* the sizes that are asked for
  InitialSize,    \* allocSize of a new allocator: 2 MB
  Addresses,      \* bound: where the pool's pieces may begin
  MaxAllocations  \* bound on the number of blocks

ASSUME AllocatorAssumption ==
  /\ Alignment \in Nat \ {0} /\ InitialSize \in Nat \ {0}
  /\ Sizes \subseteq Nat \ {0}
  /\ Addresses \subseteq Nat /\ MaxAllocations \in Nat

VARIABLES
  allocSize, start, free,
  pieces,         \* history: what the pool has given, [at, size]
  blocks          \* history: what was returned, [from, size, nr]

vars == <<allocSize, start, free, pieces, blocks>>

Larger(x, y) == IF x > y THEN x ELSE y

Apart(at, n, from, k) == at + n <= from \/ from + k <= at

Init ==
  /\ allocSize = InitialSize
  /\ start = 0 /\ free = 0
  /\ pieces = {} /\ blocks = {}

\* Between 1 and Alignment: an aligned start is moved on, too.
AlignDiff(at) == Alignment - (at % Alignment)

\* GlobalPool::allocate: n bytes that nobody else has.
FromPool(at, n) ==
  /\ \A p \in pieces : Apart(at, n, p.at, p.size)
  /\ pieces' = pieces \cup {[at |-> at, size |-> n]}

\* setSource fetches a piece at once; what was left of the old one is lost.
SetSource ==
  /\ \E at \in Addresses : FromPool(at, allocSize) /\ start' = at
  /\ free' = allocSize
  /\ UNCHANGED <<allocSize, blocks>>

\* Mutant of CutOff: start goes on by what was asked for, free by what was used.
CutOffUnaligned(at, room, n, padded) ==
  /\ blocks' = blocks \cup {[from |-> at + AlignDiff(at), size |-> n,
                             nr |-> Cardinality(blocks)]}
  /\ start' = at + n
  /\ free' = room - padded

\* The end of allocate: n bytes at the first aligned place after at are
\* returned, of the room that is left there.
CutOff(at, room, n, padded) ==
  /\ blocks' = blocks \cup {[from |-> at + AlignDiff(at), size |-> n,
                             nr |-> Cardinality(blocks)]}
  /\ start' = at + padded
  /\ free' = room - padded

Allocate(n) ==
  LET padded == n + AlignDiff(start) IN
  /\ pieces # {} /\ Cardinality(blocks) < MaxAllocations
  /\ free >= padded
  /\ CutOff(start, free, n, padded)
  /\ UNCHANGED <<allocSize, pieces>>

\* Mutant of Refill: the new piece is as large as the request at the old place.
RefillTight(n) ==
  LET padded == n + AlignDiff(start) IN
  /\ pieces # {} /\ Cardinality(blocks) < MaxAllocations
  /\ free < padded
  /\ allocSize' = Larger(allocSize * 2, padded)
  /\ \E at \in Addresses :
       /\ FromPool(at, allocSize')
       /\ CutOff(at, allocSize', n, padded + AlignDiff(at))

\* Not enough is left.  The alignment is added a second time, for the new
\* piece: this is what the extra Alignment of the new size is for.
Refill(n) ==
  LET padded == n + AlignDiff(start) IN
  /\ pieces # {} /\ Cardinality(blocks) < MaxAllocations
  /\ free < padded
  /\ allocSize' = Larger(allocSize * 2, padded + Alignment)
  /\ \E at \in Addresses :
       /\ FromPool(at, allocSize')
       /\ CutOff(at, allocSize', n, padded + AlignDiff(at))

Next == SetSource \/ \E n \in Sizes : Allocate(n) \/ Refill(n)

Spec == Init /\ [][Next]_vars

-----------------------------------------------------------------------------

TypeOK ==
  /\ allocSize \in Nat \ {0} /\ start \in Nat /\ free \in Nat
  /\ pieces \subseteq [at : Nat, size : Nat]
  /\ blocks \subseteq [from : Nat, size : Sizes, nr : Nat]

\* No byte is given out twice, though size is changed twice on the way, first
\* for the alignment of the old place and then for that of the new one.
BlocksAreDisjoint ==
  \A a, b \in blocks : a # b => Apart(a.from, a.size, b.from, b.size)

\* What is given out was obtained from the pool, to the last byte: free never
\* promises more than is there (MemoryPool.hpp:61-71).
BlocksLieInPieces ==
  \A b \in blocks : \E p \in pieces :
    p.at <= b.from /\ b.from + b.size <= p.at + p.size
=============================================================================
