--------------------------- MODULE LibraryProofs ---------------------------
(***************************************************************************)
(* What holds of the allocator of a worker, the memory pool behind it and  *)
(* the column files of a table, for every value of the constants.          *)
(***************************************************************************)
EXTENDS Allocator, GlobalPool, ColumnCache, FiniteSetTheorems, SequenceTheorems, TLAPS

-----------------------------------------------------------------------------
(***************************************************************************)
(* For every alignment, every size and every address the pool may return:  *)
(* the allocator of a worker gives out memory that it has, and once only.  *)
(* The rest of the current piece, from start on, is inside that piece and  *)
(* is used by no block: what free counts really is free.                   *)
(***************************************************************************)

InPiece(at, n, p) == p.at <= at /\ at + n <= p.at + p.size

RestIsInPiece == pieces # {} => \E p \in pieces : InPiece(start, free, p)

RestIsUnused == \A b \in blocks : Apart(b.from, b.size, start, free)

AllocatorInv ==
  /\ TypeOK /\ IsFiniteSet(blocks)
  /\ BlocksLieInPieces /\ RestIsInPiece
  /\ RestIsUnused /\ BlocksAreDisjoint

-----------------------------------------------------------------------------

\* An alignment moves an address by 1 to 64 bytes (MemoryPool.hpp:59).
LEMMA AlignDiffBound ==
  ASSUME NEW at \in Nat
  PROVE  AlignDiff(at) \in 1..Alignment
<1>1. at % Alignment \in 0..Alignment - 1
  BY AllocatorAssumption
<1> QED  BY <1>1, AllocatorAssumption DEF AlignDiff

\* The room of a fresh piece is the whole piece.
LEMMA WholePiece ==
  ASSUME NEW at \in Nat, NEW n \in Nat
  PROVE  InPiece(at, n, [at |-> at, size |-> n])
BY DEF InPiece

\* A new piece is away from every block, as the blocks are in old pieces.
LEMMA NewPieceIsUnused ==
  ASSUME TypeOK, BlocksLieInPieces, NEW at \in Nat, NEW n \in Nat, FromPool(at, n)
  PROVE  \A b \in blocks : Apart(b.from, b.size, at, n)
<1> SUFFICES ASSUME NEW b \in blocks PROVE Apart(b.from, b.size, at, n)
  OBVIOUS
<1>1. PICK p \in pieces : p.at <= b.from /\ b.from + b.size <= p.at + p.size
  BY DEF BlocksLieInPieces
<1>2. Apart(at, n, p.at, p.size)  BY DEF FromPool
<1>3. p.at \in Nat /\ p.size \in Nat /\ b.from \in Nat /\ b.size \in Nat
  BY AllocatorAssumption DEF TypeOK
<1> QED  BY <1>1, <1>2, <1>3 DEF Apart

\* Cutting n bytes off unused room that lies in a piece, of which padded bytes
\* are used up, keeps the invariant (the end of Allocator::allocate).
LEMMA CutOffIsSafe ==
  ASSUME AllocatorInv, NEW at \in Nat, NEW room \in Nat, NEW n \in Sizes, NEW padded \in Nat,
         padded >= n + AlignDiff(at), padded <= room,
         CutOff(at, room, n, padded),
         pieces \subseteq pieces', pieces' \subseteq [at : Nat, size : Nat],
         allocSize' \in Nat \ {0},
         \E p \in pieces' : InPiece(at, room, p),
         \A b \in blocks : Apart(b.from, b.size, at, room)
  PROVE  AllocatorInv'
<1> DEFINE new == [from |-> at + AlignDiff(at), size |-> n, nr |-> Cardinality(blocks)]
<1>n. AlignDiff(at) \in Nat /\ AlignDiff(at) >= 1 /\ n \in Nat
  BY AlignDiffBound, AllocatorAssumption
<1>c. Cardinality(blocks) \in Nat  BY FS_CardinalityType DEF AllocatorInv
<1>w. new \in [from : Nat, size : Sizes, nr : Nat]  BY <1>n, <1>c
<1>b. blocks' = blocks \cup {new} /\ start' = at + padded /\ free' = room - padded
  BY DEF CutOff
<1>f. new.from = at + AlignDiff(at) /\ new.size = n  OBVIOUS
<1> HIDE DEF new
<1>o. \A b \in blocks : b.from \in Nat /\ b.size \in Nat
  BY AllocatorAssumption DEF AllocatorInv, TypeOK
<1>1. TypeOK'
  BY <1>w, <1>b DEF AllocatorInv, TypeOK
<1>2. IsFiniteSet(blocks)'
  BY <1>b, FS_AddElement DEF AllocatorInv
<1>p. PICK p \in pieces' : InPiece(at, room, p)  OBVIOUS
<1>t. p.at \in Nat /\ p.size \in Nat  OBVIOUS
<1>3. BlocksLieInPieces'
  <2>1. p.at <= new.from /\ new.from + new.size <= p.at + p.size
    BY <1>p, <1>t, <1>f, <1>n DEF InPiece
  <2> QED  BY <2>1, <1>b DEF AllocatorInv, BlocksLieInPieces
<1>4. RestIsInPiece'
  <2>1. InPiece(start', free', p)  BY <1>p, <1>t, <1>b DEF InPiece
  <2> QED  BY <2>1 DEF RestIsInPiece, InPiece
<1>5. RestIsUnused'
  <2>1. Apart(new.from, new.size, start', free')
    BY <1>b, <1>f, <1>n DEF Apart
  <2>2. ASSUME NEW b \in blocks PROVE Apart(b.from, b.size, start', free')
    BY <1>b, <1>o DEF Apart
  <2> QED  BY <2>1, <2>2, <1>b DEF RestIsUnused, Apart
<1>6. BlocksAreDisjoint'
  <2>1. ASSUME NEW b \in blocks
        PROVE  /\ Apart(b.from, b.size, new.from, new.size)
               /\ Apart(new.from, new.size, b.from, b.size)
    BY <1>f, <1>n, <1>o DEF Apart
  <2> QED  BY <2>1, <1>b DEF AllocatorInv, BlocksAreDisjoint, Apart
<1> QED  BY <1>1, <1>2, <1>3, <1>4, <1>5, <1>6 DEF AllocatorInv

LEMMA AllocatorInitially == Init => AllocatorInv
BY AllocatorAssumption, FS_EmptySet
   DEF Init, AllocatorInv, TypeOK, BlocksLieInPieces, RestIsInPiece, RestIsUnused, BlocksAreDisjoint

LEMMA AllocatorStep == AllocatorInv /\ [Next]_vars => AllocatorInv'
<1> SUFFICES ASSUME AllocatorInv, [Next]_vars PROVE AllocatorInv'
  OBVIOUS
<1>t. allocSize \in Nat \ {0} /\ start \in Nat /\ free \in Nat  BY DEF AllocatorInv, TypeOK
<1>1. CASE SetSource
  <2>1. PICK at \in Addresses : FromPool(at, allocSize) /\ start' = at
    BY <1>1 DEF SetSource
  <2>n. at \in Nat  BY AllocatorAssumption
  <2>2. free' = allocSize /\ allocSize' = allocSize /\ blocks' = blocks
    BY <1>1 DEF SetSource
  <2>3. \A b \in blocks : Apart(b.from, b.size, at, allocSize)
    BY <2>1, <2>n, <1>t, NewPieceIsUnused DEF AllocatorInv
  <2>4. pieces' = pieces \cup {[at |-> at, size |-> allocSize]}
    BY <2>1 DEF FromPool
  <2>5. TypeOK' /\ IsFiniteSet(blocks)'
    BY <2>1, <2>2, <2>4, <2>n, <1>t DEF AllocatorInv, TypeOK
  <2>6. BlocksLieInPieces' /\ BlocksAreDisjoint'
    BY <2>2, <2>4 DEF AllocatorInv, BlocksLieInPieces, BlocksAreDisjoint, Apart
  <2>7. RestIsInPiece'
    <3>1. InPiece(at, allocSize, [at |-> at, size |-> allocSize])
      BY <2>n, <1>t, WholePiece
    <3> QED  BY <3>1, <2>1, <2>2, <2>4 DEF RestIsInPiece, InPiece
  <2>8. RestIsUnused'
    BY <2>1, <2>2, <2>3 DEF RestIsUnused, Apart
  <2> QED  BY <2>5, <2>6, <2>7, <2>8 DEF AllocatorInv
<1>2. ASSUME NEW n \in Sizes, Allocate(n) PROVE AllocatorInv'
  <2> DEFINE padded == n + AlignDiff(start)
  <2>1. /\ pieces # {} /\ free >= padded /\ CutOff(start, free, n, padded)
        /\ allocSize' = allocSize /\ pieces' = pieces
    BY <1>2 DEF Allocate
  <2>2. padded \in Nat /\ padded >= n + AlignDiff(start)
    BY <1>t, AlignDiffBound, AllocatorAssumption
  <2>3. \E p \in pieces' : InPiece(start, free, p)
    BY <2>1 DEF AllocatorInv, RestIsInPiece
  <2>4. \A b \in blocks : Apart(b.from, b.size, start, free)
    BY DEF AllocatorInv, RestIsUnused
  <2>5. pieces \subseteq pieces' /\ pieces' \subseteq [at : Nat, size : Nat]
    BY <2>1 DEF AllocatorInv, TypeOK
  <2> HIDE DEF padded
  <2> QED  BY <2>1, <2>2, <2>3, <2>4, <2>5, <1>t, CutOffIsSafe
<1>3. ASSUME NEW n \in Sizes, Refill(n) PROVE AllocatorInv'
  <2> DEFINE padded == n + AlignDiff(start)
  <2>1. allocSize' = Larger(allocSize * 2, padded + Alignment)
    BY <1>3 DEF Refill
  <2>2. PICK at \in Addresses :
          /\ FromPool(at, allocSize')
          /\ CutOff(at, allocSize', n, padded + AlignDiff(at))
    BY <1>3 DEF Refill
  <2>n. at \in Nat /\ n \in Nat  BY AllocatorAssumption
  <2>d. /\ AlignDiff(start) \in Nat /\ AlignDiff(at) \in Nat
        /\ AlignDiff(at) <= Alignment /\ Alignment \in Nat
    BY <1>t, <2>n, AlignDiffBound, AllocatorAssumption
  <2>3. allocSize' \in Nat \ {0} /\ padded + AlignDiff(at) <= allocSize'
    BY <2>1, <2>n, <2>d, <1>t DEF Larger
  <2>4. /\ padded + AlignDiff(at) \in Nat
        /\ padded + AlignDiff(at) >= n + AlignDiff(at)
    BY <2>n, <2>d
  <2>5. pieces' = pieces \cup {[at |-> at, size |-> allocSize']}
    BY <2>2 DEF FromPool
  <2>6. pieces \subseteq pieces' /\ pieces' \subseteq [at : Nat, size : Nat]
    BY <2>5, <2>3, <2>n DEF AllocatorInv, TypeOK
  <2>7. \E p \in pieces' : InPiece(at, allocSize', p)
    <3>1. allocSize' \in Nat  BY <2>3
    <3> QED  BY <2>5, <2>n, <3>1, WholePiece
  <2>8. \A b \in blocks : Apart(b.from, b.size, at, allocSize')
    BY <2>2, <2>3, <2>n, NewPieceIsUnused DEF AllocatorInv
  <2> HIDE DEF padded
  <2> QED  BY <2>2, <2>3, <2>4, <2>6, <2>7, <2>8, <2>n, CutOffIsSafe
<1>4. CASE UNCHANGED vars
  BY <1>4 DEF vars, AllocatorInv, TypeOK, BlocksLieInPieces, RestIsInPiece, RestIsUnused,
     BlocksAreDisjoint, InPiece, Apart
<1> QED  BY <1>1, <1>2, <1>3, <1>4 DEF Next

LEMMA AllocatorInductive == Spec => []AllocatorInv
BY AllocatorInitially, AllocatorStep, PTL DEF Spec

\* The allocator's sizes and addresses are natural numbers: free never runs below 0,
\* where the unsigned size_t would wrap (MemoryPool.hpp:71).
THEOREM TypeCorrect == Spec => []TypeOK
<1>1. AllocatorInv => TypeOK  BY DEF AllocatorInv
<1> QED  BY AllocatorInductive, <1>1, PTL

\* No byte is given out twice, for every alignment and every pool.
THEOREM Disjoint == Spec => []BlocksAreDisjoint
<1>1. AllocatorInv => BlocksAreDisjoint  BY DEF AllocatorInv
<1> QED  BY AllocatorInductive, <1>1, PTL

\* Every block lies in one piece that the pool has given.
THEOREM InPieces == Spec => []BlocksLieInPieces
<1>1. AllocatorInv => BlocksLieInPieces  BY DEF AllocatorInv
<1> QED  BY AllocatorInductive, <1>1, PTL

-----------------------------------------------------------------------------
(***************************************************************************)
(* For any threads, sizes and addresses of chunks: the pool gives every    *)
(* byte to one caller only.  start passes every address once, as chunks    *)
(* are apart and a header lies before each.  So a thread that finds start  *)
(* where it has loaded it knows that no chunk was taken in between, and    *)
(* the order of the two stores keeps it from a start and an end that are   *)
(* of two chunks and look like room.                                       *)
(***************************************************************************)

To(c) == Data(c.at) + c.size
InChunk(x, c) == Data(c.at) <= x /\ x <= To(c)

ChunksApart == \A c, d \in chunks : c # d => To(c) <= d.at \/ To(d) <= c.at

HasCurrent == \E c \in chunks : c.at = current

\* Nobody takes a new chunk.
Quiet == \A r \in Threads : pc[r] \notin {"chunk", "store1", "store2"}

\* Where start and end are while one chunk follows another.
StartAndEnd ==
  \A c \in chunks : c.at = current =>
    /\ Quiet => InChunk(poolStart, c) /\ poolEnd = To(c)
    /\ \A r \in Threads :
         /\ pc[r] \in {"chunk", "store1"} => poolStart = To(c) /\ poolEnd = To(c)
         /\ pc[r] = "store2" /\ EndFirst(r) => poolStart = To(c) /\ poolEnd = endL[r]
         /\ pc[r] = "store2" /\ ~EndFirst(r) => poolStart = startL[r] /\ poolEnd = To(c)

\* The chunk that r has mapped, and not a byte of it is in use.
IsNew(r, n) ==
  /\ n.at = chunkL[r] /\ n.at # current
  /\ startL[r] = Data(n.at) /\ endL[r] = To(n) /\ size[r] <= n.size

NewChunkIsFree ==
  \A r \in Threads : pc[r] \in {"store1", "store2"} =>
    /\ \E n \in chunks : IsNew(r, n)
    /\ \A b \in poolBlocks : b.from + b.size <= startL[r] \/ endL[r] <= b.from

RestIsFree ==
  Quiet => \A b \in poolBlocks : b.from + b.size <= poolStart \/ poolEnd <= b.from

\* start has not yet come to the new chunk.
Fresh(r) == pc[r] = "store1" \/ (pc[r] = "store2" /\ EndFirst(r))

HasLoaded(u) == pc[u] \in {"end", "swap", "end2", "drainEnd", "drain"}

\* What was loaded from start is not a value that start has yet to take.
IsPast(x) ==
  /\ \E c \in chunks : InChunk(x, c)
  /\ \A c \in chunks : InChunk(x, c) /\ InChunk(poolStart, c) => x <= poolStart
  /\ \A r \in Threads : Fresh(r) => ~(startL[r] <= x /\ x <= endL[r])

LoadsArePast == \A u \in Threads : HasLoaded(u) => IsPast(startL[u])

SwapsAreSafe ==
  \A u \in Threads : pc[u] = "swap" /\ poolStart = startL[u] =>
    Quiet /\ startL[u] + size[u] <= poolEnd

EndIsKnown == \A u \in Threads : pc[u] = "drain" => endL[u] = poolEnd

SizesAreAsked == \A u \in Threads : pc[u] # "idle" => size[u] \in PoolSizes

PoolInv ==
  /\ PoolAssumption /\ PoolTypeOK
  /\ ChunksApart /\ HasCurrent /\ StartAndEnd
  /\ NewChunkIsFree /\ RestIsFree
  /\ LoadsArePast /\ SwapsAreSafe /\ EndIsKnown /\ SizesAreAsked
  /\ PoolBlocksAreSafe

-----------------------------------------------------------------------------

\* Numbers of the state.
LEMMA Numbers ==
  ASSUME PoolInv
  PROVE  /\ poolStart \in Nat /\ poolEnd \in Nat /\ current \in Nat /\ chunkSize \in Nat
         /\ Header \in Nat /\ Header >= 1
         /\ \A c \in chunks : c.at \in Nat /\ c.size \in Nat
         /\ \A t \in Threads : startL[t] \in Nat /\ endL[t] \in Nat /\ size[t] \in Nat /\ chunkL[t] \in Nat
         /\ \A s \in PoolSizes : s \in Nat /\ s >= 1
         /\ \A b \in poolBlocks : b.from \in Nat /\ b.size \in Nat /\ b.size >= 1
<1>1. /\ poolStart \in Nat /\ poolEnd \in Nat /\ chunkSize \in Nat
      /\ Header \in Nat /\ Header >= 1
      /\ \A s \in PoolSizes : s \in Nat /\ s >= 1
      /\ \A a \in ChunkAddresses : a \in Nat
  BY DEF PoolInv, PoolAssumption, PoolTypeOK
<1>2. current \in Nat /\ \A c \in chunks : c.at \in Nat /\ c.size \in Nat
  BY <1>1 DEF PoolInv, PoolTypeOK
<1>3. \A b \in poolBlocks : b.from \in Nat /\ b.size \in Nat /\ b.size >= 1
  BY <1>1 DEF PoolInv, PoolTypeOK
<1>4. \A t \in Threads : startL[t] \in Nat /\ endL[t] \in Nat
  BY DEF PoolInv, PoolTypeOK
<1>5. \A t \in Threads : size[t] \in Nat /\ chunkL[t] \in Nat
  BY <1>1 DEF PoolInv, PoolTypeOK
<1> QED  BY <1>1, <1>2, <1>3, <1>4, <1>5

\* An address lies in one chunk, its end included, and chunks have names.
LEMMA OneHome ==
  ASSUME PoolInv, NEW c \in chunks, NEW d \in chunks, NEW x \in Nat,
         InChunk(x, c), InChunk(x, d)
  PROVE  c = d
<1>1. ~(To(c) <= d.at) /\ ~(To(d) <= c.at)
  BY Numbers DEF InChunk, To, Data
<1> QED  BY <1>1 DEF PoolInv, ChunksApart

LEMMA OneName ==
  ASSUME PoolInv, NEW c \in chunks, NEW d \in chunks, c.at = d.at
  PROVE  c = d
<1>1. ~(To(c) <= d.at) /\ ~(To(d) <= c.at)
  BY Numbers DEF To, Data
<1> QED  BY <1>1 DEF PoolInv, ChunksApart

\* One thread at most is under the mutex.
LEMMA OneRefills ==
  ASSUME PoolInv, NEW t \in Threads, NEW r \in Threads,
         pc[t] \in {"start2", "end2", "drainEnd", "drain", "chunk", "store1", "store2"},
         pc[r] \in {"start2", "end2", "drainEnd", "drain", "chunk", "store1", "store2"}
  PROVE  r = t
BY DEF PoolInv, PoolTypeOK

\* The value of start has been taken already.
LEMMA StartIsPast == PoolInv => IsPast(poolStart)
<1> SUFFICES ASSUME PoolInv PROVE IsPast(poolStart)
  OBVIOUS
<1>c. PICK c \in chunks : c.at = current  BY DEF PoolInv, HasCurrent
<1>n. /\ poolStart \in Nat /\ poolEnd \in Nat /\ Header \in Nat /\ Header >= 1
      /\ c.at \in Nat /\ c.size \in Nat
  BY Numbers
<1>s. CASE Quiet
  <2>1. InChunk(poolStart, c)  BY <1>c, <1>s DEF PoolInv, StartAndEnd
  <2>2. \A r \in Threads : ~Fresh(r)  BY <1>s DEF Fresh, Quiet
  <2> QED  BY <2>1, <2>2, <1>n DEF IsPast
<1>r. ASSUME NEW r \in Threads, pc[r] \in {"chunk", "store1", "store2"}
      PROVE  IsPast(poolStart)
  <2>u. \A q \in Threads : Fresh(q) => q = r
    BY <1>r, OneRefills DEF Fresh
  <2>1. CASE pc[r] = "chunk" 
    <3>1. poolStart = To(c)  BY <2>1, <1>c DEF PoolInv, StartAndEnd
    <3>2. InChunk(poolStart, c)  BY <3>1, <1>n DEF InChunk, To, Data
    <3>3. ~Fresh(r)  BY <2>1 DEF Fresh
    <3> QED  BY <3>2, <3>3, <2>u, <1>n DEF IsPast
  <2>2. CASE pc[r] \in {"store1", "store2"}
    <3>n. PICK n \in chunks : IsNew(r, n)  BY <2>2 DEF PoolInv, NewChunkIsFree
    <3>m. n.at \in Nat /\ n.size \in Nat  BY Numbers
    <3>1. CASE Fresh(r)
      <4>1. poolStart = To(c)  BY <3>1, <1>c DEF Fresh, PoolInv, StartAndEnd
      <4>2. InChunk(poolStart, c)  BY <4>1, <1>n DEF InChunk, To, Data
      <4>3. c # n  BY <3>n, <1>c DEF IsNew
      <4>4. ~InChunk(poolStart, n)  BY <4>2, <4>3, <1>n, OneHome
      <4>5. ~(startL[r] <= poolStart /\ poolStart <= endL[r])
        BY <4>4, <3>n DEF IsNew, InChunk, To
      <4> QED  BY <4>2, <4>5, <2>u, <1>n DEF IsPast
    <3>2. CASE ~Fresh(r)
      <4>1. poolStart = startL[r]
        BY <3>2, <2>2, <1>c DEF Fresh, PoolInv, StartAndEnd
      <4>2. InChunk(poolStart, n)
        BY <4>1, <3>n, <3>m, <1>n DEF IsNew, InChunk, To, Data
      <4> QED  BY <4>2, <3>2, <2>u, <1>n DEF IsPast
    <3> QED  BY <3>1, <3>2
  <2> QED  BY <1>r, <2>1, <2>2
<1> QED  BY <1>s, <1>r DEF Quiet

LEMMA PoolInitially == PoolAssumption /\ PoolInit => PoolInv
<1> SUFFICES ASSUME PoolAssumption, PoolInit PROVE PoolInv
  OBVIOUS
<1>1. PoolTypeOK  BY DEF PoolAssumption, PoolInit, PoolTypeOK, Data
<1>2. ChunksApart /\ HasCurrent /\ PoolBlocksAreSafe
  BY DEF PoolInit, ChunksApart, HasCurrent, PoolBlocksAreSafe
<1>3. \A t \in Threads : pc[t] = "idle"  BY DEF PoolInit
<1>4. StartAndEnd
  BY <1>3 DEF PoolAssumption, PoolInit, StartAndEnd, InChunk, To, Data
<1>5. /\ NewChunkIsFree /\ RestIsFree /\ LoadsArePast /\ SwapsAreSafe
      /\ EndIsKnown /\ SizesAreAsked
  BY <1>3 DEF PoolInit, NewChunkIsFree, RestIsFree, LoadsArePast, HasLoaded, SwapsAreSafe,
     EndIsKnown, SizesAreAsked
<1> QED  BY <1>1, <1>2, <1>4, <1>5 DEF PoolInv

\* A step by which t neither takes nor leaves the part that maps a chunk, and
\* that leaves start, end, the chunks and the blocks alone, has only to respect
\* what the invariant says of t.
LEMMA OwnStep ==
  ASSUME PoolInv, PoolTypeOK', NEW t \in Threads,
         UNCHANGED <<poolStart, poolEnd, current, chunks, poolBlocks>>,
         pc[t] \notin {"chunk", "store1", "store2"},
         pc'[t] \notin {"chunk", "store1", "store2"},
         \A r \in Threads \ {t} :
           /\ pc'[r] = pc[r] /\ size'[r] = size[r] /\ startL'[r] = startL[r]
           /\ endL'[r] = endL[r] /\ chunkL'[r] = chunkL[r],
         HasLoaded(t)' => IsPast(startL'[t]),
         pc'[t] = "swap" /\ poolStart = startL'[t] => Quiet /\ startL'[t] + size'[t] <= poolEnd,
         pc'[t] = "drain" => endL'[t] = poolEnd,
         pc'[t] # "idle" => size'[t] \in PoolSizes
  PROVE  PoolInv'
<1>q. Quiet' <=> Quiet  BY DEF Quiet
<1>f. \A r \in Threads : (Fresh(r)' <=> Fresh(r)) /\ (Fresh(r) => r # t)
  BY DEF Fresh, EndFirst
<1>1. PoolAssumption' /\ ChunksApart' /\ HasCurrent' /\ PoolBlocksAreSafe'
  BY DEF PoolInv, PoolAssumption, ChunksApart, HasCurrent, PoolBlocksAreSafe, To, Data
<1>2. StartAndEnd'
  BY <1>q DEF PoolInv, StartAndEnd, EndFirst, InChunk, To, Data
<1>3. NewChunkIsFree'
  <2> SUFFICES ASSUME NEW r \in Threads, pc'[r] \in {"store1", "store2"}
               PROVE  /\ \E n \in chunks' : IsNew(r, n)'
                      /\ \A b \in poolBlocks' : b.from + b.size <= startL'[r] \/ endL'[r] <= b.from
    BY DEF NewChunkIsFree
  <2>1. r # t /\ pc[r] \in {"store1", "store2"}  OBVIOUS
  <2>2. PICK n \in chunks : IsNew(r, n)  BY <2>1 DEF PoolInv, NewChunkIsFree
  <2>3. IsNew(r, n)'  BY <2>1, <2>2 DEF IsNew, To, Data
  <2>4. \A b \in poolBlocks : b.from + b.size <= startL[r] \/ endL[r] <= b.from
    BY <2>1 DEF PoolInv, NewChunkIsFree
  <2> QED  BY <2>1, <2>3, <2>4
<1>4. RestIsFree'  BY <1>q DEF PoolInv, RestIsFree
<1>5. LoadsArePast'
  <2> SUFFICES ASSUME NEW u \in Threads, HasLoaded(u)' PROVE IsPast(startL[u])'
    BY DEF LoadsArePast
  <2>1. IsPast(startL'[u])
    BY DEF PoolInv, LoadsArePast, HasLoaded
  <2>2. startL'[u] \in Nat  BY DEF PoolTypeOK
  <2> DEFINE x == startL'[u]
  <2>3. x \in Nat /\ IsPast(x)  BY <2>1, <2>2
  <2>4. /\ \E c \in chunks : InChunk(x, c)
        /\ \A c \in chunks : InChunk(x, c) /\ InChunk(poolStart, c) => x <= poolStart
        /\ \A r \in Threads : Fresh(r) => ~(startL[r] <= x /\ x <= endL[r])
    BY <2>3 DEF IsPast
  <2> HIDE DEF x
  <2>5. /\ \E c \in chunks' : InChunk(x, c)
        /\ \A c \in chunks' : InChunk(x, c) /\ InChunk(poolStart', c) => x <= poolStart'
        /\ \A r \in Threads : Fresh(r)' => ~(startL'[r] <= x /\ x <= endL'[r])
    BY <2>4, <1>f
  <2> QED  BY <2>5 DEF IsPast, x, InChunk, To, Data
<1>6. SwapsAreSafe'
  BY <1>q DEF PoolInv, SwapsAreSafe
<1>7. EndIsKnown' /\ SizesAreAsked'
  BY DEF PoolInv, EndIsKnown, SizesAreAsked
<1> QED  BY <1>1, <1>2, <1>3, <1>4, <1>5, <1>6, <1>7 DEF PoolInv

\* A load of end that leaves room behind a loaded start that is start: then no
\* chunk is on its way, whichever of the two stores has been made.
LEMMA RoomIsReal ==
  ASSUME PoolInv, NEW t \in Threads, startL[t] = poolStart, startL[t] + size[t] < poolEnd
  PROVE  Quiet
<1> SUFFICES ASSUME NEW r \in Threads, pc[r] \in {"chunk", "store1", "store2"}
             PROVE  FALSE
  BY DEF Quiet
<1>c. PICK c \in chunks : c.at = current  BY DEF PoolInv, HasCurrent
<1>n. /\ poolStart \in Nat /\ poolEnd \in Nat /\ size[t] \in Nat /\ Header \in Nat /\ Header >= 1
      /\ c.at \in Nat /\ c.size \in Nat
  BY Numbers
<1>1. pc[r] \notin {"chunk", "store1"}
  BY <1>c, <1>n DEF PoolInv, StartAndEnd
<1>2. pc[r] = "store2"  BY <1>1
<1>3. PICK n \in chunks : IsNew(r, n)  BY <1>2 DEF PoolInv, NewChunkIsFree
<1>m. n.at \in Nat /\ n.size \in Nat  BY Numbers
<1>4. To(c) <= n.at \/ To(n) <= c.at
  BY <1>c, <1>3 DEF IsNew, PoolInv, ChunksApart
<1>5. CASE EndFirst(r)
  <2>1. poolStart = To(c) /\ poolEnd = endL[r]
    BY <1>2, <1>5, <1>c DEF PoolInv, StartAndEnd
  <2>2. n.at < c.at /\ poolEnd = To(n)  BY <2>1, <1>5, <1>3, <1>c DEF IsNew, EndFirst
  <2> QED  BY <2>1, <2>2, <1>4, <1>n, <1>m DEF To, Data
<1>6. CASE ~EndFirst(r)
  <2>1. poolStart = Data(n.at) /\ poolEnd = To(c)
    BY <1>2, <1>6, <1>3, <1>c DEF PoolInv, StartAndEnd, IsNew
  <2>2. n.at >= c.at  BY <1>6, <1>3, <1>c, <1>n, <1>m DEF IsNew, EndFirst
  <2> QED  BY <2>1, <2>2, <1>4, <1>n, <1>m DEF To, Data
<1> QED  BY <1>5, <1>6

LEMMA TypesStay == PoolInv /\ [PoolNext]_poolVars => PoolTypeOK'
<1> SUFFICES ASSUME PoolInv, [PoolNext]_poolVars PROVE PoolTypeOK'
  OBVIOUS
<1> USE DEF PoolInv, PoolAssumption
<1>n. PoolTypeOK  OBVIOUS
<1>1. ASSUME NEW t \in Threads, NEW s \in PoolSizes, Call(t, s) PROVE PoolTypeOK'
  BY <1>1 DEF Call, Goto, pool, PoolTypeOK
<1>2. ASSUME NEW t \in Threads, LoadStart(t) PROVE PoolTypeOK'
  BY <1>2 DEF LoadStart, Goto, pool, PoolTypeOK
<1>3. ASSUME NEW t \in Threads, LoadEnd(t) PROVE PoolTypeOK'
  BY <1>3 DEF LoadEnd, Goto, pool, PoolTypeOK
<1>4. ASSUME NEW t \in Threads, Lock(t) PROVE PoolTypeOK'
  BY <1>4 DEF Lock, Goto, locals, PoolTypeOK
<1>5. ASSUME NEW t \in Threads, Recheck(t) PROVE PoolTypeOK'
  BY <1>5 DEF Recheck, Goto, PoolTypeOK
<1>6. ASSUME NEW t \in Threads, DrainEnd(t) PROVE PoolTypeOK'
  BY <1>6 DEF DrainEnd, Goto, pool, PoolTypeOK
<1>7. ASSUME NEW t \in Threads, Drain(t) PROVE PoolTypeOK'
  BY <1>7 DEF Drain, Goto, PoolTypeOK
<1>8. ASSUME NEW t \in Threads, NewChunk(t) PROVE PoolTypeOK'
  <2>1. NewSize(t) \in Nat /\ Header \in Nat
    BY Numbers DEF NewSize, LargerOf
  <2>2. PICK c \in ChunkAddresses :
          /\ chunks' = chunks \cup {[at |-> c, size |-> NewSize(t)]}
          /\ chunkL' = [chunkL EXCEPT ![t] = c]
          /\ startL' = [startL EXCEPT ![t] = Data(c)]
          /\ endL' = [endL EXCEPT ![t] = Data(c) + NewSize(t)]
    BY <1>8 DEF NewChunk
  <2>3. Data(c) \in Nat /\ Data(c) + NewSize(t) \in Nat  BY <2>1 DEF Data
  <2>4. /\ UNCHANGED <<poolStart, poolEnd, refill, current, size, poolBlocks>>
        /\ chunkSize' = NewSize(t) /\ pc[t] = "chunk"
        /\ pc' = [pc EXCEPT ![t] = "store1"]
    BY <1>8 DEF NewChunk, Goto
  <2> QED  BY <2>1, <2>2, <2>3, <2>4 DEF PoolTypeOK
<1>9. ASSUME NEW t \in Threads, Store1(t) PROVE PoolTypeOK'
  BY <1>9 DEF Store1, Goto, locals, PoolTypeOK
<1>10. ASSUME NEW t \in Threads, Store2(t) PROVE PoolTypeOK'
  <2>1. chunkL[t] \in ChunkAddresses
    <3>1. PICK n \in chunks : n.at = chunkL[t]
      BY <1>10 DEF Store2, NewChunkIsFree, IsNew
    <3> QED  BY <3>1 DEF PoolTypeOK
  <2> QED  BY <1>10, <2>1 DEF Store2, Goto, locals, PoolTypeOK
<1>11. ASSUME NEW t \in Threads, Swap(t) PROVE PoolTypeOK'
  <2>1. size[t] \in PoolSizes  BY <1>11 DEF Swap, SizesAreAsked
  <2>2. startL[t] \in Nat /\ size[t] \in Nat  BY Numbers
  <2>3. poolStart' \in Nat /\ \A b \in poolBlocks' : b.from \in Nat /\ b.size \in PoolSizes
    BY <1>11, <2>1, <2>2 DEF Swap, PoolTypeOK
  <2>4. UNCHANGED <<poolEnd, refill, current, chunkSize, chunks, size, startL, endL, chunkL>>
    BY <1>11 DEF Swap, locals
  <2>5. pc[t] = "swap" /\ (pc' = [pc EXCEPT ![t] = "idle"] \/ pc' = [pc EXCEPT ![t] = "start"])
    BY <1>11 DEF Swap, Goto
  <2> QED  BY <2>3, <2>4, <2>5 DEF PoolTypeOK
<1>12. CASE UNCHANGED poolVars
  BY <1>12 DEF poolVars, pool, locals, PoolTypeOK
<1> QED
  BY <1>1, <1>2, <1>3, <1>4, <1>5, <1>6, <1>7, <1>8, <1>9, <1>10, <1>11, <1>12 DEF PoolNext

\* Call, the loads and the mutex.
LEMMA OwnSteps ==
  ASSUME PoolInv, PoolTypeOK', NEW t \in Threads,
         \/ \E s \in PoolSizes : Call(t, s)
         \/ LoadStart(t) \/ LoadEnd(t) \/ Lock(t) \/ Recheck(t) \/ DrainEnd(t)
  PROVE  PoolInv'
<1>p. IsPast(poolStart)  BY StartIsPast
<1>t. PoolTypeOK  BY DEF PoolInv
<1>1. ASSUME NEW s \in PoolSizes, Call(t, s) PROVE PoolInv'
  <2>1. pc[t] = "idle" /\ pc' = [pc EXCEPT ![t] = "start"] /\ size' = [size EXCEPT ![t] = s]
        /\ UNCHANGED <<poolStart, poolEnd, current, chunks, poolBlocks, startL, endL, chunkL>>
    BY <1>1 DEF Call, Goto, pool
  <2>2. pc'[t] = "start" /\ size'[t] = s  BY <2>1, <1>t DEF PoolTypeOK
  <2>3. ~HasLoaded(t)'  BY <2>2 DEF HasLoaded
  <2> QED  BY <2>1, <2>2, <2>3, OwnStep, <1>t DEF PoolTypeOK
<1>2. CASE LoadStart(t)
  <2>1. /\ pc[t] \in {"start", "start2"}
        /\ pc' = [pc EXCEPT ![t] = IF pc[t] = "start" THEN "end" ELSE "end2"]
        /\ startL' = [startL EXCEPT ![t] = poolStart]
        /\ UNCHANGED <<poolStart, poolEnd, current, chunks, poolBlocks, size, endL, chunkL>>
    BY <1>2 DEF LoadStart, Goto, pool
  <2>2. pc'[t] \in {"end", "end2"} /\ startL'[t] = poolStart  BY <2>1, <1>t DEF PoolTypeOK
  <2>3. size'[t] \in PoolSizes  BY <2>1, <1>t DEF PoolInv, SizesAreAsked
  <2>4. IsPast(startL'[t])  BY <2>2, <1>p
  <2> QED  BY <2>1, <2>2, <2>3, <2>4, OwnStep, <1>t DEF PoolTypeOK
<1>3. CASE LoadEnd(t)
  <2>1. /\ pc[t] = "end" /\ endL' = [endL EXCEPT ![t] = poolEnd]
        /\ pc' = [pc EXCEPT ![t] = IF TooSmall(t, poolEnd) THEN "lock" ELSE "swap"]
        /\ UNCHANGED <<poolStart, poolEnd, current, chunks, poolBlocks, size, startL, chunkL>>
    BY <1>3 DEF LoadEnd, Goto, pool
  <2>2. pc'[t] = IF TooSmall(t, poolEnd) THEN "lock" ELSE "swap"  BY <2>1, <1>t DEF PoolTypeOK
  <2>3. size'[t] \in PoolSizes  BY <2>1 DEF PoolInv, SizesAreAsked
  <2>4. IsPast(startL'[t])  BY <2>1 DEF PoolInv, LoadsArePast, HasLoaded
  <2>5. pc'[t] = "swap" /\ poolStart = startL'[t] => Quiet /\ startL'[t] + size'[t] <= poolEnd
    <3> SUFFICES ASSUME pc'[t] = "swap", poolStart = startL[t]
                 PROVE  Quiet /\ startL[t] + size[t] <= poolEnd
      BY <2>1
    <3>1. startL[t] + size[t] < poolEnd  BY <2>2, Numbers DEF TooSmall
    <3> QED  BY <3>1, RoomIsReal, Numbers
  <2> QED  BY <2>1, <2>2, <2>3, <2>4, <2>5, OwnStep, <1>t DEF PoolTypeOK
<1>4. CASE Lock(t)
  <2>1. /\ pc[t] = "lock" /\ pc' = [pc EXCEPT ![t] = "start2"]
        /\ UNCHANGED <<poolStart, poolEnd, current, chunks, poolBlocks, size, startL, endL, chunkL>>
    BY <1>4 DEF Lock, Goto, locals
  <2>2. pc'[t] = "start2"  BY <2>1, <1>t DEF PoolTypeOK
  <2>3. size'[t] \in PoolSizes  BY <2>1 DEF PoolInv, SizesAreAsked
  <2>4. ~HasLoaded(t)'  BY <2>2 DEF HasLoaded
  <2> QED  BY <2>1, <2>2, <2>3, <2>4, OwnStep, <1>t DEF PoolTypeOK
<1>5. CASE Recheck(t)
  <2>1. /\ pc[t] = "end2" /\ endL' = [endL EXCEPT ![t] = poolEnd]
        /\ \/ pc' = [pc EXCEPT ![t] = "drainEnd"]
           \/ pc' = [pc EXCEPT ![t] = "start"]
        /\ UNCHANGED <<poolStart, poolEnd, current, chunks, poolBlocks, size, startL, chunkL>>
    BY <1>5 DEF Recheck, Goto
  <2>2. pc'[t] \in {"drainEnd", "start"}  BY <2>1, <1>t DEF PoolTypeOK
  <2>3. size'[t] \in PoolSizes  BY <2>1 DEF PoolInv, SizesAreAsked
  <2>4. IsPast(startL'[t])  BY <2>1 DEF PoolInv, LoadsArePast, HasLoaded
  <2> QED  BY <2>1, <2>2, <2>3, <2>4, OwnStep, <1>t DEF PoolTypeOK
<1>6. CASE DrainEnd(t)
  <2>1. /\ pc[t] = "drainEnd" /\ endL' = [endL EXCEPT ![t] = poolEnd]
        /\ pc' = [pc EXCEPT ![t] = "drain"]
        /\ UNCHANGED <<poolStart, poolEnd, current, chunks, poolBlocks, size, startL, chunkL>>
    BY <1>6 DEF DrainEnd, Goto, pool
  <2>2. pc'[t] = "drain" /\ endL'[t] = poolEnd  BY <2>1, <1>t DEF PoolTypeOK
  <2>3. size'[t] \in PoolSizes  BY <2>1 DEF PoolInv, SizesAreAsked
  <2>4. IsPast(startL'[t])  BY <2>1 DEF PoolInv, LoadsArePast, HasLoaded
  <2> QED  BY <2>1, <2>2, <2>3, <2>4, OwnStep, <1>t DEF PoolTypeOK
<1> QED  BY <1>1, <1>2, <1>3, <1>4, <1>5, <1>6

\* start is moved to end: a thread that has loaded this very value has seen that
\* there is no room behind it.
LEMMA DrainStep ==
  ASSUME PoolInv, PoolTypeOK', NEW t \in Threads, Drain(t)
  PROVE  PoolInv'
<1>t. PoolTypeOK /\ PoolAssumption'  BY DEF PoolInv, PoolAssumption
<1>0. pc[t] = "drain" /\ UNCHANGED <<poolEnd, refill, current, chunkSize, chunks, size, endL, chunkL, poolBlocks>>
  BY DEF Drain
<1>1. CASE /\ startL' = [startL EXCEPT ![t] = poolStart]
           /\ Goto(t, "drainEnd") /\ UNCHANGED poolStart
  <2>1. pc' = [pc EXCEPT ![t] = "drainEnd"]  BY <1>1 DEF Goto
  <2>2. pc'[t] = "drainEnd" /\ startL'[t] = poolStart  BY <2>1, <1>1, <1>t DEF PoolTypeOK
  <2>3. size'[t] \in PoolSizes  BY <1>0 DEF PoolInv, SizesAreAsked
  <2>4. IsPast(startL'[t])  BY <2>2, StartIsPast
  <2> QED  BY <1>0, <1>1, <2>1, <2>2, <2>3, <2>4, OwnStep, <1>t DEF PoolTypeOK
<1>2. CASE poolStart = startL[t] /\ poolStart' = endL[t] /\ Goto(t, "chunk") /\ UNCHANGED startL
  <2>c. PICK c \in chunks : c.at = current  BY DEF PoolInv, HasCurrent
  <2>n. /\ poolStart \in Nat /\ poolEnd \in Nat /\ Header \in Nat /\ Header >= 1
        /\ c.at \in Nat /\ c.size \in Nat
    BY Numbers
  <2>p. /\ pc' = [pc EXCEPT ![t] = "chunk"] /\ pc'[t] = "chunk"
        /\ \A r \in Threads \ {t} : pc'[r] = pc[r]
    BY <1>2, <1>t DEF Goto, PoolTypeOK
  <2>o. \A r \in Threads \ {t} : pc[r] \notin {"drain", "chunk", "store1", "store2"}
    BY <1>0, OneRefills
  <2>q. Quiet /\ ~Quiet'  BY <1>0, <2>o, <2>p DEF Quiet
  <2>s. InChunk(poolStart, c) /\ poolEnd = To(c) /\ poolStart' = poolEnd
    BY <2>q, <2>c, <1>0, <1>2 DEF PoolInv, StartAndEnd, EndIsKnown
  <2>i. \A d \in chunks : d.at = current => d = c  BY <2>c, OneName
  <2>1. ChunksApart' /\ HasCurrent' /\ PoolBlocksAreSafe' /\ RestIsFree'
    BY <1>0, <2>q DEF PoolInv, ChunksApart, HasCurrent, PoolBlocksAreSafe, RestIsFree, To, Data
  <2>2. StartAndEnd'
    BY <1>0, <2>s, <2>q, <2>p, <2>o, <2>i DEF StartAndEnd, To, Data
  <2>3. NewChunkIsFree'  BY <2>p, <2>o DEF NewChunkIsFree
  <2>w. InChunk(poolEnd, c)  BY <2>s, <2>n DEF InChunk, To, Data
  <2>4. LoadsArePast'
    <3> SUFFICES ASSUME NEW u \in Threads, HasLoaded(u)' PROVE IsPast(startL[u])'
      BY DEF LoadsArePast
    <3>1. IsPast(startL[u])
      BY <2>p, <1>0 DEF PoolInv, LoadsArePast, HasLoaded
    <3>2. startL[u] \in Nat  BY Numbers
    <3>3. \E d \in chunks : InChunk(startL[u], d)  BY <3>1 DEF IsPast
    <3>4. ASSUME NEW d \in chunks, InChunk(startL[u], d), InChunk(poolEnd, d)
          PROVE  startL[u] <= poolEnd
      <4>1. d = c  BY <3>4, <2>w, <2>n, OneHome
      <4> QED  BY <4>1, <3>4, <2>s DEF InChunk
    <3>5. \A r \in Threads : ~Fresh(r)'  BY <2>p, <2>o DEF Fresh
    <3> QED  BY <1>0, <1>2, <2>s, <3>3, <3>4, <3>5 DEF IsPast, InChunk, To, Data
  <2>5. SwapsAreSafe'
    <3> SUFFICES ASSUME NEW u \in Threads, pc'[u] = "swap", poolEnd = startL[u] PROVE FALSE
      BY <2>s, <1>2 DEF SwapsAreSafe
    <3>1. pc[u] = "swap" /\ u # t  BY <2>p
    <3>2. IsPast(startL[u])  BY <3>1 DEF PoolInv, LoadsArePast, HasLoaded
    <3>3. poolEnd <= poolStart  BY <3>2, <2>w, <2>s DEF IsPast
    <3>4. poolStart = startL[u]  BY <3>3, <2>s, <2>n DEF InChunk
    <3>5. startL[u] + size[u] <= poolEnd  BY <3>1, <3>4 DEF PoolInv, SwapsAreSafe
    <3>6. size[u] \in Nat /\ size[u] >= 1
      BY <3>1, Numbers DEF PoolInv, SizesAreAsked
    <3> QED  BY <3>5, <3>6, <2>n
  <2>6. EndIsKnown' /\ SizesAreAsked'
    BY <1>0, <2>p DEF PoolInv, EndIsKnown, SizesAreAsked
  <2> QED  BY <1>t, <2>1, <2>2, <2>3, <2>4, <2>5, <2>6 DEF PoolInv
<1> QED  BY <1>1, <1>2 DEF Drain

\* A new chunk is away from all others, so from all blocks and from every value
\* that start has had.
LEMMA NewChunkStep ==
  ASSUME PoolInv, PoolTypeOK', NEW t \in Threads, NewChunk(t)
  PROVE  PoolInv'
<1>t. PoolTypeOK /\ PoolAssumption'  BY DEF PoolInv, PoolAssumption
<1>c. PICK c \in chunks : c.at = current  BY DEF PoolInv, HasCurrent
<1>0. /\ pc[t] = "chunk" /\ pc' = [pc EXCEPT ![t] = "store1"]
      /\ UNCHANGED <<poolStart, poolEnd, refill, current, size, poolBlocks>>
  BY DEF NewChunk, Goto
<1>1. PICK at \in ChunkAddresses :
        /\ Fits(at, NewSize(t))
        /\ chunks' = chunks \cup {[at |-> at, size |-> NewSize(t)]}
        /\ chunkL' = [chunkL EXCEPT ![t] = at]
        /\ startL' = [startL EXCEPT ![t] = Data(at)]
        /\ endL' = [endL EXCEPT ![t] = Data(at) + NewSize(t)]
  BY DEF NewChunk
<1>d. PICK n : n = [at |-> at, size |-> NewSize(t)]  OBVIOUS
<1>n. /\ poolStart \in Nat /\ poolEnd \in Nat /\ Header \in Nat /\ Header >= 1
      /\ c.at \in Nat /\ c.size \in Nat
      /\ \A d \in chunks : d.at \in Nat /\ d.size \in Nat
      /\ size[t] \in Nat /\ chunkSize \in Nat
  BY Numbers
<1>m. /\ n.at = at /\ n.size = NewSize(t) /\ at \in Nat /\ NewSize(t) \in Nat
      /\ size[t] <= NewSize(t)
  BY <1>d, <1>n, <1>t DEF NewSize, LargerOf, PoolAssumption, PoolInv
<1>f. \A d \in chunks : To(n) <= d.at \/ To(d) <= n.at
  BY <1>1, <1>m, <1>n DEF Fits, To, Data
<1>l. /\ startL'[t] = Data(n.at) /\ endL'[t] = To(n) /\ chunkL'[t] = n.at
      /\ \A r \in Threads \ {t} : /\ startL'[r] = startL[r] /\ endL'[r] = endL[r]
                                  /\ chunkL'[r] = chunkL[r]
  BY <1>1, <1>m, <1>t DEF PoolTypeOK, To
<1>i. chunks' = chunks \cup {n}  BY <1>1, <1>d
<1>p. pc'[t] = "store1" /\ \A r \in Threads \ {t} : pc'[r] = pc[r]
  BY <1>0, <1>t DEF PoolTypeOK
<1>o. \A r \in Threads \ {t} : pc[r] \notin {"drain", "chunk", "store1", "store2"}
  BY <1>0, OneRefills
<1>q. ~Quiet /\ ~Quiet'  BY <1>0, <1>p DEF Quiet
<1>s. poolStart = To(c) /\ poolEnd = To(c)  BY <1>0, <1>c DEF PoolInv, StartAndEnd
<1>a. \A d \in chunks : n.at # d.at /\ n # d
  BY <1>f, <1>m, <1>n DEF To, Data
<1>2. ChunksApart' /\ HasCurrent'
  <2>1. ChunksApart'
    <3> SUFFICES ASSUME NEW d \in chunks', NEW e \in chunks', d # e
                 PROVE  To(d) <= e.at \/ To(e) <= d.at
      BY DEF ChunksApart, To, Data
    <3>1. CASE d \in chunks /\ e \in chunks  BY <3>1 DEF PoolInv, ChunksApart
    <3>2. CASE d = n /\ e \in chunks  BY <3>2, <1>f
    <3>3. CASE e = n /\ d \in chunks  BY <3>3, <1>f
    <3> QED  BY <3>1, <3>2, <3>3, <1>i
  <2> QED  BY <2>1, <1>c, <1>i, <1>0 DEF HasCurrent
<1>3. StartAndEnd'
  <2>1. \A d \in chunks' : d.at = current => d = c
    BY <1>i, <1>a, <1>c, OneName
  <2> QED  BY <1>0, <1>p, <1>o, <1>q, <1>s, <2>1 DEF StartAndEnd, To, Data
<1>4. NewChunkIsFree'
  <2>1. IsNew(t, n)'
    BY <1>l, <1>a, <1>c, <1>0, <1>m DEF IsNew, To, Data
  <2>2. ASSUME NEW b \in poolBlocks
        PROVE  b.from + b.size <= startL'[t] \/ endL'[t] <= b.from
    <3>1. PICK d \in chunks : Data(d.at) <= b.from /\ b.from + b.size <= To(d)
      BY DEF PoolInv, PoolBlocksAreSafe, To
    <3>2. b.from \in Nat /\ b.size \in Nat  BY Numbers
    <3> QED  BY <3>1, <3>2, <1>f, <1>l, <1>m, <1>n DEF To, Data
  <2>3. \A r \in Threads : pc'[r] \in {"store1", "store2"} => r = t  BY <1>p, <1>o
  <2> QED  BY <2>1, <2>2, <2>3, <1>i, <1>0 DEF NewChunkIsFree
<1>5. RestIsFree'  BY <1>q DEF RestIsFree
<1>6. LoadsArePast'
  <2> SUFFICES ASSUME NEW u \in Threads, HasLoaded(u)' PROVE IsPast(startL[u])'
    BY DEF LoadsArePast
  <2>1. u # t  BY <1>p DEF HasLoaded
  <2>2. IsPast(startL[u]) /\ startL'[u] = startL[u]
    BY <2>1, <1>p, <1>l DEF PoolInv, LoadsArePast, HasLoaded
  <2>3. startL[u] \in Nat  BY Numbers
  <2>4. PICK d \in chunks : InChunk(startL[u], d)  BY <2>2 DEF IsPast
  <2>5. ~InChunk(startL[u], n)
    BY <2>4, <2>3, <1>f, <1>m, <1>n DEF InChunk, To, Data
  <2>6. ASSUME NEW e \in chunks', InChunk(startL[u], e), InChunk(poolStart, e)
        PROVE  startL[u] <= poolStart
    BY <2>6, <2>5, <2>2, <1>i DEF IsPast
  <2>7. ASSUME NEW r \in Threads, Fresh(r)' PROVE ~(startL'[r] <= startL[u] /\ startL[u] <= endL'[r])
    <3>1. r = t  BY <2>7, <1>p, <1>o DEF Fresh
    <3> QED  BY <3>1, <2>5, <1>l DEF InChunk
  <2> QED  BY <2>2, <2>4, <2>6, <2>7, <1>i, <1>0 DEF IsPast, InChunk, To, Data
<1>7. SwapsAreSafe'
  BY <1>q, <1>p, <1>l, <1>0 DEF PoolInv, SwapsAreSafe
<1>8. EndIsKnown' /\ SizesAreAsked'
  BY <1>0, <1>p, <1>o DEF PoolInv, EndIsKnown, SizesAreAsked
<1>9. PoolBlocksAreSafe'
  BY <1>i, <1>0 DEF PoolInv, PoolBlocksAreSafe, Data
<1> QED  BY <1>t, <1>2, <1>3, <1>4, <1>5, <1>6, <1>7, <1>8, <1>9 DEF PoolInv

\* The first store: nobody has loaded a start of the new chunk yet.
LEMMA Store1Step ==
  ASSUME PoolInv, PoolTypeOK', NEW t \in Threads, Store1(t)
  PROVE  PoolInv'
<1>t. PoolTypeOK /\ PoolAssumption'  BY DEF PoolInv, PoolAssumption
<1>c. PICK c \in chunks : c.at = current  BY DEF PoolInv, HasCurrent
<1>0. /\ pc[t] = "store1" /\ pc' = [pc EXCEPT ![t] = "store2"]
      /\ UNCHANGED <<refill, current, chunkSize, chunks, size, startL, endL, chunkL, poolBlocks>>
      /\ EndFirst(t) => poolEnd' = endL[t] /\ poolStart' = poolStart
      /\ ~EndFirst(t) => poolStart' = startL[t] /\ poolEnd' = poolEnd
  BY DEF Store1, Goto, locals
<1>x. PICK n \in chunks : IsNew(t, n)  BY <1>0 DEF PoolInv, NewChunkIsFree
<1>n. /\ poolStart \in Nat /\ poolEnd \in Nat /\ Header \in Nat /\ Header >= 1
      /\ n.at \in Nat /\ n.size \in Nat
  BY Numbers
<1>p. pc'[t] = "store2" /\ \A r \in Threads \ {t} : pc'[r] = pc[r]
  BY <1>0, <1>t DEF PoolTypeOK
<1>o. \A r \in Threads \ {t} : pc[r] \notin {"drain", "chunk", "store1", "store2"}
  BY <1>0, OneRefills
<1>q. ~Quiet /\ ~Quiet'  BY <1>0, <1>p DEF Quiet
<1>e. EndFirst(t)' <=> EndFirst(t)  BY <1>0 DEF EndFirst
<1>i. \A d \in chunks : d.at = current => d = c  BY <1>c, OneName
<1>s. poolStart = To(c) /\ poolEnd = To(c)  BY <1>0, <1>c DEF PoolInv, StartAndEnd
<1>w. InChunk(startL[t], n)  BY <1>x, <1>n DEF IsNew, InChunk, To, Data
<1>1. ChunksApart' /\ HasCurrent' /\ PoolBlocksAreSafe' /\ RestIsFree'
  BY <1>0, <1>q DEF PoolInv, ChunksApart, HasCurrent, PoolBlocksAreSafe, RestIsFree, To, Data
<1>2. StartAndEnd'
  BY <1>0, <1>q, <1>p, <1>o, <1>i, <1>s, <1>e DEF StartAndEnd, To, Data
<1>3. NewChunkIsFree'
  <2>1. IsNew(t, n)'  BY <1>x, <1>0 DEF IsNew, To, Data
  <2>2. \A b \in poolBlocks : b.from + b.size <= startL[t] \/ endL[t] <= b.from
    BY <1>0 DEF PoolInv, NewChunkIsFree
  <2>3. \A r \in Threads : pc'[r] \in {"store1", "store2"} => r = t  BY <1>p, <1>o
  <2> QED  BY <2>1, <2>2, <2>3, <1>0 DEF NewChunkIsFree
<1>u. ASSUME NEW u \in Threads, HasLoaded(u)'
      PROVE  /\ u # t /\ IsPast(startL[u]) /\ startL[u] \in Nat
             /\ ~InChunk(startL[u], n)
  <2>1. u # t /\ HasLoaded(u)  BY <1>u, <1>p DEF HasLoaded
  <2>2. IsPast(startL[u])  BY <2>1 DEF PoolInv, LoadsArePast
  <2>3. Fresh(t)  BY <1>0 DEF Fresh
  <2>4. ~InChunk(startL[u], n)  BY <2>2, <2>3, <1>x DEF IsPast, IsNew, InChunk
  <2> QED  BY <2>1, <2>2, <2>4, Numbers
<1>4. LoadsArePast'
  <2> SUFFICES ASSUME NEW u \in Threads, HasLoaded(u)' PROVE IsPast(startL[u])'
    BY DEF LoadsArePast
  <2>1. \E d \in chunks : InChunk(startL[u], d)  BY <1>u DEF IsPast
  <2>2. ASSUME NEW d \in chunks, InChunk(startL[u], d), InChunk(poolStart', d)
        PROVE  startL[u] <= poolStart'
    <3>1. CASE EndFirst(t)  BY <3>1, <2>2, <1>u, <1>0 DEF IsPast
    <3>2. CASE ~EndFirst(t)
      <4>1. poolStart' = startL[t] /\ startL[t] \in Nat  BY <3>2, <1>0, Numbers
      <4>2. d = n  BY <4>1, <2>2, <1>w, OneHome
      <4> QED  BY <4>2, <2>2, <1>u
    <3> QED  BY <3>1, <3>2
  <2>3. ASSUME NEW r \in Threads, Fresh(r)'
        PROVE  ~(startL[r] <= startL[u] /\ startL[u] <= endL[r])
    <3>1. r = t  BY <2>3, <1>p, <1>o DEF Fresh
    <3> QED  BY <3>1, <1>u, <1>x DEF IsNew, InChunk
  <2> QED  BY <2>1, <2>2, <2>3, <1>0 DEF IsPast, InChunk, To, Data
<1>5. SwapsAreSafe'
  <2> SUFFICES ASSUME NEW u \in Threads, pc'[u] = "swap", poolStart' = startL[u] PROVE FALSE
    BY <1>0 DEF SwapsAreSafe
  <2>1. u # t /\ ~InChunk(startL[u], n)  BY <1>u DEF HasLoaded
  <2>2. EndFirst(t)  BY <2>1, <1>w, <1>0
  <2>3. pc[u] = "swap" /\ poolStart = startL[u]  BY <2>1, <2>2, <1>p, <1>0
  <2> QED  BY <2>3, <1>q DEF PoolInv, SwapsAreSafe
<1>6. EndIsKnown' /\ SizesAreAsked'
  BY <1>0, <1>p, <1>o DEF PoolInv, EndIsKnown, SizesAreAsked
<1> QED  BY <1>t, <1>1, <1>2, <1>3, <1>4, <1>5, <1>6 DEF PoolInv

\* The second store: start and end are those of the new chunk.
LEMMA Store2Step ==
  ASSUME PoolInv, PoolTypeOK', NEW t \in Threads, Store2(t)
  PROVE  PoolInv'
<1>t. PoolTypeOK /\ PoolAssumption'  BY DEF PoolInv, PoolAssumption
<1>c. PICK c \in chunks : c.at = current  BY DEF PoolInv, HasCurrent
<1>0. /\ pc[t] = "store2" /\ pc' = [pc EXCEPT ![t] = "swap"]
      /\ current' = chunkL[t]
      /\ UNCHANGED <<chunkSize, chunks, size, startL, endL, chunkL, poolBlocks>>
      /\ EndFirst(t) => poolStart' = startL[t] /\ poolEnd' = poolEnd
      /\ ~EndFirst(t) => poolEnd' = endL[t] /\ poolStart' = poolStart
  BY DEF Store2, Goto, locals
<1>x. PICK n \in chunks : IsNew(t, n)  BY <1>0 DEF PoolInv, NewChunkIsFree
<1>n. /\ poolStart \in Nat /\ poolEnd \in Nat /\ Header \in Nat /\ Header >= 1
      /\ n.at \in Nat /\ n.size \in Nat /\ size[t] \in Nat
  BY Numbers
<1>p. pc'[t] = "swap" /\ \A r \in Threads \ {t} : pc'[r] = pc[r]
  BY <1>0, <1>t DEF PoolTypeOK
<1>o. \A r \in Threads \ {t} : pc[r] \notin {"drain", "chunk", "store1", "store2"}
  BY <1>0, OneRefills
<1>q. ~Quiet /\ Quiet'  BY <1>0, <1>p, <1>o DEF Quiet
<1>s. poolStart' = startL[t] /\ poolEnd' = endL[t]
  BY <1>0, <1>c DEF PoolInv, StartAndEnd
<1>v. poolStart' = Data(n.at) /\ poolEnd' = To(n) /\ InChunk(poolStart', n)
  BY <1>s, <1>x, <1>n DEF IsNew, InChunk, To, Data
<1>1. ChunksApart' /\ HasCurrent' /\ PoolBlocksAreSafe'
  BY <1>0, <1>x DEF PoolInv, IsNew, ChunksApart, HasCurrent, PoolBlocksAreSafe, To, Data
<1>2. StartAndEnd'
  <2>1. \A d \in chunks : d.at = current' => d = n
    BY <1>0, <1>x, OneName DEF IsNew
  <2>2. \A r \in Threads : pc'[r] \notin {"chunk", "store1", "store2"}  BY <1>p, <1>o
  <2> QED  BY <2>1, <2>2, <1>v, <1>0 DEF StartAndEnd, InChunk, To, Data
<1>3. NewChunkIsFree'  BY <1>p, <1>o DEF NewChunkIsFree
<1>4. RestIsFree'
  <2>1. \A b \in poolBlocks : b.from + b.size <= startL[t] \/ endL[t] <= b.from
    BY <1>0 DEF PoolInv, NewChunkIsFree
  <2> QED  BY <2>1, <1>s, <1>0 DEF RestIsFree
<1>u. ASSUME NEW u \in Threads, u # t, HasLoaded(u)'
      PROVE  /\ IsPast(startL[u]) /\ startL[u] \in Nat
             /\ EndFirst(t) => ~InChunk(startL[u], n)
  <2>1. HasLoaded(u)  BY <1>u, <1>p DEF HasLoaded
  <2>2. IsPast(startL[u])  BY <2>1 DEF PoolInv, LoadsArePast
  <2>3. EndFirst(t) => Fresh(t)  BY <1>0 DEF Fresh
  <2>4. EndFirst(t) => ~InChunk(startL[u], n)
    BY <2>2, <2>3, <1>x DEF IsPast, IsNew, InChunk
  <2> QED  BY <2>2, <2>4, Numbers
<1>5. LoadsArePast'
  <2> SUFFICES ASSUME NEW u \in Threads, HasLoaded(u)' PROVE IsPast(startL[u])'
    BY DEF LoadsArePast
  <2>1. \A r \in Threads : ~Fresh(r)'  BY <1>p, <1>o DEF Fresh
  <2>2. CASE u = t
    BY <2>1, <2>2, <1>s, <1>v, <1>n, <1>0 DEF IsPast, InChunk, To, Data
  <2>3. CASE u # t
    <3>1. \E d \in chunks : InChunk(startL[u], d)  BY <2>3, <1>u DEF IsPast
    <3>2. ASSUME NEW d \in chunks, InChunk(startL[u], d), InChunk(poolStart', d)
          PROVE  startL[u] <= poolStart'
      <4>1. CASE EndFirst(t)
        <5>1. poolStart' \in Nat  BY <1>v, <1>n DEF Data
        <5>2. d = n  BY <5>1, <3>2, <1>v, OneHome
        <5> QED  BY <5>2, <3>2, <4>1, <2>3, <1>u
      <4>2. CASE ~EndFirst(t)  BY <4>2, <3>2, <2>3, <1>u, <1>0 DEF IsPast
      <4> QED  BY <4>1, <4>2
    <3> QED  BY <3>1, <3>2, <2>1, <1>0 DEF IsPast, InChunk, To, Data
  <2> QED  BY <2>2, <2>3
<1>6. SwapsAreSafe'
  <2> SUFFICES ASSUME NEW u \in Threads, pc'[u] = "swap", poolStart' = startL[u]
               PROVE  startL[u] + size[u] <= poolEnd'
    BY <1>q, <1>0 DEF SwapsAreSafe
  <2>1. CASE u = t  BY <2>1, <1>v, <1>x, <1>n, <1>s DEF IsNew, To, Data
  <2>2. CASE u # t
    <3>1. ~EndFirst(t)  BY <2>2, <1>u, <1>v DEF HasLoaded
    <3>2. pc[u] = "swap" /\ poolStart = startL[u]  BY <2>2, <3>1, <1>p, <1>0
    <3> QED  BY <3>2, <1>q DEF PoolInv, SwapsAreSafe
  <2> QED  BY <2>1, <2>2
<1>7. EndIsKnown' /\ SizesAreAsked'
  BY <1>0, <1>p, <1>o DEF PoolInv, EndIsKnown, SizesAreAsked
<1> QED  BY <1>t, <1>1, <1>2, <1>3, <1>4, <1>5, <1>6, <1>7 DEF PoolInv

\* The block: it lies between the old start and the new one, where none was.
LEMMA SwapStep ==
  ASSUME PoolInv, PoolTypeOK', NEW t \in Threads, Swap(t)
  PROVE  PoolInv'
<1>t. PoolTypeOK /\ PoolAssumption'  BY DEF PoolInv, PoolAssumption
<1>0. /\ pc[t] = "swap"
      /\ UNCHANGED <<poolEnd, refill, current, chunkSize, chunks, size, startL, endL, chunkL>>
  BY DEF Swap, locals
<1>1. CASE Goto(t, "start") /\ UNCHANGED <<poolStart, poolBlocks>>
  <2>1. pc' = [pc EXCEPT ![t] = "start"]  BY <1>1 DEF Goto
  <2>2. pc'[t] = "start"  BY <2>1, <1>t DEF PoolTypeOK
  <2>3. size'[t] \in PoolSizes  BY <1>0 DEF PoolInv, SizesAreAsked
  <2>4. ~HasLoaded(t)'  BY <2>2 DEF HasLoaded
  <2> QED  BY <1>0, <1>1, <2>1, <2>2, <2>3, <2>4, OwnStep, <1>t DEF PoolTypeOK
<1>2. CASE /\ poolStart = startL[t] /\ poolStart' = startL[t] + size[t]
           /\ poolBlocks' = poolBlocks \cup {[from |-> startL[t], size |-> size[t],
                                      nr |-> Cardinality(poolBlocks)]}
           /\ Goto(t, "idle")
  <2>c. PICK c \in chunks : c.at = current  BY DEF PoolInv, HasCurrent
  <2>b. PICK new : new = [from |-> startL[t], size |-> size[t], nr |-> Cardinality(poolBlocks)]
    OBVIOUS
  <2>i. poolBlocks' = poolBlocks \cup {new} /\ new.from = poolStart /\ new.size = size[t]
    BY <2>b, <1>2
  <2>n. /\ poolStart \in Nat /\ poolEnd \in Nat /\ Header \in Nat /\ Header >= 1
        /\ c.at \in Nat /\ c.size \in Nat
        /\ size[t] \in Nat /\ size[t] >= 1
        /\ \A b \in poolBlocks : b.from \in Nat /\ b.size \in Nat
    BY <1>0, Numbers DEF PoolInv, SizesAreAsked
  <2>p. pc'[t] = "idle" /\ \A r \in Threads \ {t} : pc'[r] = pc[r]
    BY <1>2, <1>t DEF Goto, PoolTypeOK
  <2>q. Quiet /\ poolStart + size[t] <= poolEnd  BY <1>0, <1>2 DEF PoolInv, SwapsAreSafe
  <2>r. Quiet' /\ \A r \in Threads : pc'[r] \notin {"chunk", "store1", "store2"}
    BY <2>q, <2>p DEF Quiet
  <2>s. InChunk(poolStart, c) /\ poolEnd = To(c)  BY <2>q, <2>c DEF PoolInv, StartAndEnd
  <2>w. InChunk(poolStart', c) /\ poolStart' \in Nat
    BY <2>s, <2>q, <2>n, <1>2 DEF InChunk, To, Data
  <2>f. \A b \in poolBlocks : b.from + b.size <= poolStart \/ poolEnd <= b.from
    BY <2>q DEF PoolInv, RestIsFree
  <2>1. ChunksApart' /\ HasCurrent'
    BY <1>0 DEF PoolInv, ChunksApart, HasCurrent, To, Data
  <2>2. StartAndEnd'
    <3>1. \A d \in chunks : d.at = current => d = c  BY <2>c, OneName
    <3> QED  BY <3>1, <2>r, <2>w, <2>s, <1>0 DEF StartAndEnd, InChunk, To, Data
  <2>3. NewChunkIsFree'  BY <2>r DEF NewChunkIsFree
  <2>4. RestIsFree'
    BY <2>f, <2>i, <2>n, <1>0, <1>2 DEF RestIsFree
  <2>5. PoolBlocksAreSafe'
    <3>1. ASSUME NEW a \in poolBlocks', NEW b \in poolBlocks', a # b
          PROVE  a.from + a.size <= b.from \/ b.from + b.size <= a.from
      <4>1. CASE a \in poolBlocks /\ b \in poolBlocks
        BY <3>1, <4>1 DEF PoolInv, PoolBlocksAreSafe
      <4>2. CASE a = new /\ b \in poolBlocks
        BY <4>2, <2>f, <2>i, <2>n, <2>q
      <4>3. CASE b = new /\ a \in poolBlocks
        BY <4>3, <2>f, <2>i, <2>n, <2>q
      <4> QED  BY <3>1, <4>1, <4>2, <4>3, <2>i
    <3>2. Data(c.at) <= new.from /\ new.from + new.size <= Data(c.at) + c.size
      BY <2>s, <2>q, <2>i, <2>n DEF InChunk, To
    <3>3. \A b \in poolBlocks : \E d \in chunks :
            Data(d.at) <= b.from /\ b.from + b.size <= Data(d.at) + d.size
      BY DEF PoolInv, PoolBlocksAreSafe
    <3> QED  BY <3>1, <3>2, <3>3, <2>i, <1>0 DEF PoolBlocksAreSafe, Data
  <2>l. ASSUME NEW u \in Threads, HasLoaded(u)'
        PROVE  /\ u # t /\ pc[u] = pc'[u] /\ IsPast(startL[u]) /\ startL[u] \in Nat
               /\ InChunk(startL[u], c) => startL[u] <= poolStart
    <3>1. u # t /\ HasLoaded(u)  BY <2>l, <2>p DEF HasLoaded
    <3>2. IsPast(startL[u])  BY <3>1 DEF PoolInv, LoadsArePast
    <3> QED  BY <3>1, <3>2, <2>s, <2>p, Numbers DEF IsPast
  <2>6. LoadsArePast'
    <3> SUFFICES ASSUME NEW u \in Threads, HasLoaded(u)' PROVE IsPast(startL[u])'
      BY DEF LoadsArePast
    <3>1. \E d \in chunks : InChunk(startL[u], d)  BY <2>l DEF IsPast
    <3>2. ASSUME NEW d \in chunks, InChunk(startL[u], d), InChunk(poolStart', d)
          PROVE  startL[u] <= poolStart'
      <4>1. d = c  BY <3>2, <2>w, OneHome
      <4>2. startL[u] <= poolStart /\ startL[u] \in Nat  BY <4>1, <3>2, <2>l
      <4> QED  BY <4>2, <2>n, <1>2
    <3>3. \A r \in Threads : ~Fresh(r)'  BY <2>r DEF Fresh
    <3> QED  BY <3>1, <3>2, <3>3, <1>0 DEF IsPast, InChunk, To, Data
  <2>7. SwapsAreSafe'
    <3> SUFFICES ASSUME NEW u \in Threads, pc'[u] = "swap", poolStart' = startL[u] PROVE FALSE
      BY <1>0 DEF SwapsAreSafe
    <3>1. poolStart' <= poolStart  BY <2>l, <2>w DEF HasLoaded
    <3> QED  BY <3>1, <2>n, <1>2
  <2>8. EndIsKnown' /\ SizesAreAsked'
    BY <1>0, <2>p DEF PoolInv, EndIsKnown, SizesAreAsked
  <2> QED  BY <1>t, <2>1, <2>2, <2>3, <2>4, <2>5, <2>6, <2>7, <2>8 DEF PoolInv
<1> QED  BY <1>1, <1>2 DEF Swap

LEMMA PoolStep == PoolInv /\ [PoolNext]_poolVars => PoolInv'
<1> SUFFICES ASSUME PoolInv, [PoolNext]_poolVars PROVE PoolInv'
  OBVIOUS
<1>t. PoolTypeOK'  BY TypesStay
<1>1. ASSUME NEW t \in Threads,
             \/ \E s \in PoolSizes : Call(t, s)
             \/ LoadStart(t) \/ LoadEnd(t) \/ Lock(t) \/ Recheck(t) \/ DrainEnd(t)
      PROVE  PoolInv'
  BY <1>1, <1>t, OwnSteps
<1>2. ASSUME NEW t \in Threads, Drain(t) PROVE PoolInv'
  BY <1>2, <1>t, DrainStep
<1>3. ASSUME NEW t \in Threads, NewChunk(t) PROVE PoolInv'
  BY <1>3, <1>t, NewChunkStep
<1>4. ASSUME NEW t \in Threads, Store1(t) PROVE PoolInv'
  BY <1>4, <1>t, Store1Step
<1>5. ASSUME NEW t \in Threads, Store2(t) PROVE PoolInv'
  BY <1>5, <1>t, Store2Step
<1>6. ASSUME NEW t \in Threads, Swap(t) PROVE PoolInv'
  BY <1>6, <1>t, SwapStep
<1>7. CASE UNCHANGED poolVars
  BY <1>7, <1>t DEF poolVars, pool, locals, PoolInv, PoolAssumption, ChunksApart, HasCurrent,
     StartAndEnd, NewChunkIsFree, RestIsFree, LoadsArePast, SwapsAreSafe, EndIsKnown,
     SizesAreAsked, PoolBlocksAreSafe, Quiet, IsNew, IsPast, Fresh, EndFirst,
     HasLoaded, InChunk, To, Data
<1> QED  BY <1>1, <1>2, <1>3, <1>4, <1>5, <1>6, <1>7 DEF PoolNext

\* For any number of threads, any sizes and any place of the chunks, no byte of
\* the pool is given to two callers, and what is returned lies in one chunk
\* behind its header (MemoryPool.cpp:27-73).
THEOREM PoolIsSafe == PoolAssumption /\ PoolSpec => []PoolBlocksAreSafe
<1>1. PoolInv => PoolBlocksAreSafe  BY DEF PoolInv
<1> QED  BY PoolInitially, PoolStep, <1>1, PTL DEF PoolSpec

\* The pool keeps the types of its variables, and the mutex is held by the one
\* thread that is between its lock and its unlock.
THEOREM PoolTypeCorrect == PoolAssumption /\ PoolSpec => []PoolTypeOK
<1>1. PoolInv => PoolTypeOK  BY DEF PoolInv
<1> QED  BY PoolInitially, PoolStep, <1>1, PTL DEF PoolSpec

-----------------------------------------------------------------------------
(***************************************************************************)
(* For any number of columns, versions of the table and deaths of the      *)
(* process: what the files of a table hold when a relation is used.        *)
(***************************************************************************)

Value == Versions \cup {0}

Writing == stage \in {"open", "allocate", "copy"}

\* What TypeOK leaves open: files is a function of the columns, and what was
\* counted of them while they are not read; a start takes place below the bound.
Counters ==
  /\ files \in [Columns -> Seq(Value) \cup {Absent}]
  /\ Writing => col <= Last /\ columnSize = 0 /\ diffs = 0
  /\ stage = "load" => diffs < col
  /\ stage # "copy" => unwritten = {}
  /\ stage \notin {"down", "up"} => failures < MaxFailures

\* One size was seen as long as diffs is 1.
Reading ==
  stage = "load" =>
    /\ col = 1 => columnSize = 0 /\ diffs = 0
    /\ col > 1 => /\ columnSize \in Nat \ {0} /\ diffs >= 1
                  /\ diffs = 1 => \A c \in 1..(col - 1) : Len(files[c]) = columnSize

\* Of the column that is written, the places memcpy has come to are right.
Copying ==
  /\ stage = "allocate" => files[col] \in Seq(Value)
  /\ stage = "copy" =>
       /\ files[col] \in Seq(Value) /\ Len(files[col]) >= Rows
       /\ \A r \in (1..Rows) \ unwritten : files[col][r] = tbl

\* All columns before one that is there, and before the one that is written, are
\* whole, and those that are read are there.
InOrder ==
  ~replaced =>
    /\ \A c \in Columns : files[c] # Absent =>
         /\ Len(files[c]) <= Rows
         /\ \A b \in Columns : b < c => files[b] = Whole(tbl)
    /\ Writing => \A b \in Columns : b < col => files[b] = Whole(tbl)
    /\ stage \in {"load", "up"} => \A c \in Columns : files[c] # Absent

\* All files are there, of one size, and of this version unless the table was
\* made anew.
Level ==
  /\ \E n \in Nat \ {0} : \A c \in Columns : files[c] \in Seq(Value) /\ Len(files[c]) = n
  /\ ~replaced => \A c \in Columns : files[c] = Whole(tbl)

\* Without a death the files are written in one go.
Undisturbed ==
  ~died =>
    /\ failures = IF cached THEN 1 ELSE 0
    /\ stage = "down" => Level \/ \A c \in Columns : files[c] = Absent
    /\ stage \in {"load", "up"} => Level /\ diffs <= 1
    /\ Writing =>
         /\ \A b \in Columns : b < col => files[b] = Whole(tbl)
         /\ \A b \in Columns : b > col => files[b] = Absent
    /\ stage = "open" => files[col] = Absent
    /\ stage = "allocate" => files[col] = <<>>
    /\ stage = "copy" => Len(files[col]) = Rows

StoreInv ==
  /\ StoreAssumption /\ StoreTypeOK /\ Counters /\ Reading /\ Copying
  /\ InOrder /\ Undisturbed /\ ColumnsAreOfOneSize

-----------------------------------------------------------------------------

LEMMA AbsentIsNoFile == StoreAssumption => Absent \notin Seq(Value) /\ Absent # <<>>
<1> SUFFICES ASSUME StoreAssumption PROVE Absent \notin Seq(Value) /\ Absent # <<>>
  OBVIOUS
<1>1. -1 \notin Value  BY DEF StoreAssumption, Value, Versions
<1>2. Len(Absent) = 1 /\ Absent[1] = -1  BY DEF Absent
<1>3. ASSUME Absent \in Seq(Value) PROVE FALSE
  <2>1. Absent[1] \in Value  BY <1>2, <1>3
  <2> QED  BY <2>1, <1>1, <1>2
<1> QED  BY <1>2, <1>3

\* A whole file.
LEMMA WholeIsFile ==
  ASSUME StoreAssumption, NEW v \in Versions
  PROVE  /\ RowsOf[v] \in Nat \ {0} /\ Whole(v) \in Seq(Value) /\ Len(Whole(v)) = RowsOf[v]
         /\ Whole(v) # Absent
<1>1. RowsOf[v] \in Nat \ {0} /\ v \in Value  BY DEF StoreAssumption, Versions, Value
<1>2. Whole(v) \in Seq(Value) /\ Len(Whole(v)) = RowsOf[v]  BY <1>1 DEF Whole
<1> QED  BY <1>1, <1>2, AbsentIsNoFile

\* A file of the right length and right values is whole.
LEMMA RightIsWhole ==
  ASSUME StoreAssumption, NEW v \in Versions, NEW f \in Seq(Value),
         Len(f) = RowsOf[v], \A r \in 1..RowsOf[v] : f[r] = v
  PROVE  f = Whole(v)
<1>1. f = [r \in 1..Len(f) |-> f[r]]  OBVIOUS
<1> QED  BY <1>1 DEF Whole

\* posix_fallocate.
LEMMA Longer ==
  ASSUME StoreAssumption, NEW f \in Seq(Value), NEW n \in Nat
  PROVE  LET g == f \o [r \in 1..n |-> 0] IN
         /\ g \in Seq(Value) /\ Len(g) = Len(f) + n
         /\ n = 0 => g = f
<1> DEFINE z == [r \in 1..n |-> 0]
<1>1. z \in Seq(Value) /\ Len(z) = n  BY DEF Value
<1>2. n = 0 => z = <<>>  BY <1>1
<1> HIDE DEF z
<1>3. f \o z \in Seq(Value) /\ Len(f \o z) = Len(f) + n  BY <1>1
<1>4. n = 0 => f \o z = f  BY <1>2
<1> QED  BY <1>3, <1>4 DEF z

\* memcpy at one place.
LEMMA OneValue ==
  ASSUME NEW f \in Seq(Value), NEW r \in 1..Len(f), NEW v \in Value
  PROVE  LET g == [f EXCEPT ![r] = v] IN
         /\ g \in Seq(Value) /\ Len(g) = Len(f) /\ g[r] = v
         /\ \A q \in 1..Len(f) : q # r => g[q] = f[q]
OBVIOUS

LEMMA StoreInitially == StoreAssumption /\ StoreInit => StoreInv
<1> SUFFICES ASSUME StoreAssumption, StoreInit PROVE StoreInv
  OBVIOUS
<1>1. StoreTypeOK
  <2>1. Last \in Nat /\ Last >= 1 /\ MaxFailures \in Nat  BY DEF StoreAssumption
  <2>2. /\ col \in 1..(Last + 1) /\ columnSize \in Nat /\ diffs \in 0..Last
        /\ failures \in 0..MaxFailures
    BY <2>1 DEF StoreInit
  <2>3. /\ cached \in BOOLEAN /\ tbl \in Versions /\ unwritten \subseteq 1..Rows
        /\ \A c \in Columns : files[c] = Absent
    BY DEF StoreInit
  <2> QED  BY <2>2, <2>3 DEF StoreTypeOK, StoreInit
<1>3. Counters
  BY DEF StoreAssumption, StoreInit, Counters, Writing
<1>2. Reading /\ Copying /\ InOrder /\ Undisturbed /\ ColumnsAreOfOneSize
  BY DEF StoreInit, Reading, Copying, InOrder, Undisturbed, ColumnsAreOfOneSize, Writing
<1> QED  BY <1>1, <1>2, <1>3 DEF StoreInv

LEMMA Facts ==
  ASSUME StoreInv
  PROVE  /\ Last \in Nat /\ Last >= 1 /\ 1 \in Columns /\ Last \in Columns
         /\ tbl \in Versions /\ tbl \in Value
         /\ Rows \in Nat /\ Rows >= 1 /\ Rows = RowsOf[tbl]
         /\ Whole(tbl) \in Seq(Value) /\ Len(Whole(tbl)) = Rows /\ Whole(tbl) # Absent
         /\ col \in Nat /\ col >= 1 /\ col <= Last + 1 /\ columnSize \in Nat /\ diffs \in Nat
         /\ \A c \in Columns : files[c] \in Seq(Value) \/ files[c] = Absent
         /\ Absent \notin Seq(Value)
         /\ <<>> \in Seq(Value) /\ <<>> # Absent /\ Len(<<>>) = 0
<1>1. Last \in Nat /\ Last >= 1 /\ 1 \in Columns /\ Last \in Columns
  BY DEF StoreInv, StoreAssumption, Columns
<1>2. tbl \in Versions /\ tbl \in Value  BY DEF StoreInv, StoreTypeOK, Value
<1>3. /\ RowsOf[tbl] \in Nat \ {0} /\ Whole(tbl) \in Seq(Value)
      /\ Len(Whole(tbl)) = RowsOf[tbl] /\ Whole(tbl) # Absent
  BY <1>2, WholeIsFile DEF StoreInv
<1>4. col \in Nat /\ col >= 1 /\ col <= Last + 1 /\ columnSize \in Nat /\ diffs \in Nat
  BY <1>1 DEF StoreInv, StoreTypeOK
<1>5. \A c \in Columns : files[c] \in Seq(Value) \/ files[c] = Absent
  BY DEF StoreInv, Counters
<1>6. Absent \notin Seq(Value) /\ <<>> # Absent  BY AbsentIsNoFile DEF StoreInv
<1>7. <<>> \in Seq(Value) /\ Len(<<>>) = 0  OBVIOUS
<1> QED  BY <1>1, <1>2, <1>3, <1>4, <1>5, <1>6, <1>7 DEF Rows

LEMMA StartStep == StoreInv /\ Start => StoreInv'
<1> SUFFICES ASSUME StoreInv, Start PROVE StoreInv'
  OBVIOUS
<1>0. /\ stage = "down" /\ failures < MaxFailures /\ cached' = TRUE
      /\ col' = 1 /\ columnSize' = 0 /\ diffs' = 0
      /\ UNCHANGED <<tbl, files, unwritten, died, replaced>>
  BY DEF Start
<1>s. \/ ~cached /\ stage' = "down" /\ failures' = failures + 1
      \/ cached /\ failures' = failures /\ Missing /\ stage' = "open"
      \/ cached /\ failures' = failures /\ ~Missing /\ stage' = "load"
  BY DEF Start, Fail
<1>f. Last \in Nat /\ Last >= 1 /\ MaxFailures \in Nat /\ failures \in Nat
  BY Facts DEF StoreInv, StoreAssumption, StoreTypeOK
<1>l. Level' <=> Level  BY <1>0 DEF Level, Whole
<1>u. unwritten = {}  BY <1>0 DEF StoreInv, Counters
<1>1. StoreAssumption'  BY DEF StoreInv, StoreAssumption
<1>2. StoreTypeOK'
  BY <1>0, <1>s, <1>f DEF StoreInv, StoreTypeOK, Rows
<1>3. Counters'
  BY <1>0, <1>s, <1>f, <1>u DEF StoreInv, Counters, Writing
<1>4. Reading' /\ Copying'
  BY <1>0, <1>s DEF Reading, Copying
<1>5. InOrder'
  <2>1. stage' = "load" => \A c \in Columns : files[c] # Absent
    BY <1>s DEF Missing
  <2>2. ~replaced => \A c \in Columns : files[c] # Absent =>
          /\ Len(files[c]) <= Rows
          /\ \A b \in Columns : b < c => files[b] = Whole(tbl)
    BY DEF StoreInv, InOrder
  <2>3. \A b \in Columns : ~(b < col')  BY <1>0 DEF Columns
  <2>4. stage' # "up"  BY <1>s
  <2> QED  BY <2>1, <2>2, <2>3, <2>4, <1>0 DEF InOrder, Rows, Whole
<1>6. Undisturbed'
  <2> SUFFICES ASSUME ~died PROVE Undisturbed'
    BY <1>0 DEF Undisturbed
  <2>1. failures = (IF cached THEN 1 ELSE 0) /\ (Level \/ \A c \in Columns : files[c] = Absent)
    BY <1>0 DEF StoreInv, Undisturbed
  <2>2. Missing => ~Level  BY Facts DEF Missing, Level
  <2>3. ~Missing => Level  BY <2>1, Facts DEF Missing
  <2>4. failures' = 1  BY <1>s, <2>1
  <2>5. stage' = "open" => \A c \in Columns : files[c] = Absent
    BY <1>s, <2>1, <2>2
  <2>6. stage' = "load" => Level  BY <1>s, <2>3
  <2>7. 1 \in Columns /\ \A c \in Columns : ~(c < 1)  BY Facts DEF Columns
  <2> QED
    BY <1>0, <1>s, <1>l, <2>1, <2>4, <2>5, <2>6, <2>7 DEF Undisturbed, Writing
<1>7. ColumnsAreOfOneSize'  BY <1>s DEF ColumnsAreOfOneSize
<1> QED  BY <1>1, <1>2, <1>3, <1>4, <1>5, <1>6, <1>7 DEF StoreInv

\* A step that writes to the file of col only.
LEMMA WriteStep ==
  ASSUME StoreInv, Writing, stage' \in {"allocate", "copy"},
         UNCHANGED <<cached, tbl, col, columnSize, diffs, died, replaced, failures>>,
         files' \in [Columns -> Seq(Value) \cup {Absent}], files'[col] \in Seq(Value),
         \A c \in Columns : c # col => files'[c] = files[c],
         files[col] = Whole(tbl) => files'[col] = Whole(tbl),
         ~replaced => Len(files'[col]) <= Rows,
         unwritten' \subseteq 1..Rows, stage' # "copy" => unwritten' = {},
         Copying',
         ~died => /\ stage' = "allocate" => files'[col] = <<>>
                  /\ stage' = "copy" => Len(files'[col]) = Rows
  PROVE  StoreInv'
<1>w. col <= Last  BY DEF StoreInv, Counters
<1>c. col \in Columns  BY <1>w, Facts DEF Columns
<1>n. \A b \in Columns : b \in Nat /\ (b < col => b # col) /\ (b > col => b # col)
  BY Facts DEF Columns
<1>1. StoreAssumption'  BY DEF StoreInv, StoreAssumption
<1>2. StoreTypeOK'  BY DEF StoreInv, StoreTypeOK, Rows, Value
<1>3. Counters'  BY DEF StoreInv, Counters, Writing
<1>4. Reading'  BY DEF Reading
<1>5. InOrder'
  <2> SUFFICES ASSUME ~replaced PROVE InOrder'
    BY DEF InOrder
  <2>1. \A b \in Columns : b < col => files[b] = Whole(tbl)
    BY DEF StoreInv, InOrder
  <2>2. \A b \in Columns : b < col => files'[b] = Whole(tbl)
    BY <2>1, <1>n
  <2>3. ASSUME NEW c \in Columns, files'[c] # Absent
        PROVE  Len(files'[c]) <= Rows /\ \A b \in Columns : b < c => files'[b] = Whole(tbl)
    <3>1. CASE c = col  BY <3>1, <2>2
    <3>2. CASE c # col
      <4>1. Len(files'[c]) <= Rows /\ \A b \in Columns : b < c => files[b] = Whole(tbl)
        BY <2>3, <3>2 DEF StoreInv, InOrder
      <4>2. col < c => files'[col] = Whole(tbl)
        BY <4>1, <1>c
      <4> QED  BY <4>1, <4>2
    <3> QED  BY <3>1, <3>2
  <2> QED  BY <2>2, <2>3 DEF InOrder, Rows, Whole
<1>6. Undisturbed'
  <2> SUFFICES ASSUME ~died PROVE Undisturbed'
    BY DEF Undisturbed
  <2>1. /\ failures = IF cached THEN 1 ELSE 0
        /\ \A b \in Columns : b < col => files[b] = Whole(tbl)
        /\ \A b \in Columns : b > col => files[b] = Absent
    BY DEF StoreInv, Undisturbed
  <2> QED  BY <2>1, <1>n DEF Undisturbed, Writing, Rows, Whole
<1>7. ColumnsAreOfOneSize'  BY DEF ColumnsAreOfOneSize
<1> QED  BY <1>1, <1>2, <1>3, <1>4, <1>5, <1>6, <1>7 DEF StoreInv

LEMMA OpenStep == StoreInv /\ Open => StoreInv'
<1> SUFFICES ASSUME StoreInv, Open PROVE StoreInv'
  OBVIOUS
<1>0. /\ stage = "open" /\ stage' = "allocate"
      /\ files' = [files EXCEPT ![col] = IF @ = Absent THEN <<>> ELSE @]
      /\ UNCHANGED <<cached, tbl, col, unwritten, columnSize, diffs, died, replaced, failures>>
  BY DEF Open
<1>w. Writing /\ col <= Last /\ unwritten = {}  BY <1>0 DEF StoreInv, Counters, Writing
<1>c. col \in Columns  BY <1>w, Facts DEF Columns
<1>d. files \in [Columns -> Seq(Value) \cup {Absent}]  BY DEF StoreInv, Counters
<1>1. /\ files'[col] = IF files[col] = Absent THEN <<>> ELSE files[col]
      /\ \A c \in Columns : c # col => files'[c] = files[c]
  BY <1>0, <1>c, <1>d
<1>2. files'[col] \in Seq(Value)  BY <1>1, <1>c, Facts
<1>3. files' \in [Columns -> Seq(Value) \cup {Absent}]  BY <1>0, <1>d, <1>2, <1>1
<1>4. files[col] = Whole(tbl) => files'[col] = Whole(tbl)  BY <1>1, Facts
<1>5. ~replaced => Len(files'[col]) <= Rows
  <2>1. CASE files[col] = Absent  BY <2>1, <1>1, Facts
  <2>2. CASE files[col] # Absent  BY <2>2, <1>1, <1>c DEF StoreInv, InOrder
  <2> QED  BY <2>1, <2>2
<1>6. Copying'  BY <1>0, <1>2 DEF Copying
<1>7. ~died => files'[col] = <<>>  BY <1>0, <1>1 DEF StoreInv, Undisturbed
<1> QED  BY <1>0, <1>w, <1>1, <1>2, <1>3, <1>4, <1>5, <1>6, <1>7, WriteStep

LEMMA AllocateStep == StoreInv /\ Extend => StoreInv'
<1> SUFFICES ASSUME StoreInv, Extend PROVE StoreInv'
  OBVIOUS
<1>0. /\ stage = "allocate" /\ stage' = "copy" /\ unwritten' = 1..Rows
      /\ files' = [files EXCEPT ![col] =
           @ \o [r \in 1..(IF Rows > Len(@) THEN Rows - Len(@) ELSE 0) |-> 0]]
      /\ UNCHANGED <<cached, tbl, col, columnSize, diffs, died, replaced, failures>>
  BY DEF Extend
<1>w. Writing /\ col <= Last  BY <1>0 DEF StoreInv, Counters, Writing
<1>c. col \in Columns  BY <1>w, Facts DEF Columns
<1>d. files \in [Columns -> Seq(Value) \cup {Absent}]  BY DEF StoreInv, Counters
<1>s. files[col] \in Seq(Value) /\ Len(files[col]) \in Nat /\ files[col] # Absent
  BY <1>0, Facts DEF StoreInv, Copying
<1> DEFINE more == IF Rows > Len(files[col]) THEN Rows - Len(files[col]) ELSE 0
<1>m. more \in Nat /\ Rows \in Nat  BY <1>s, Facts
<1>1. /\ files'[col] = files[col] \o [r \in 1..more |-> 0]
      /\ \A c \in Columns : c # col => files'[c] = files[c]
  BY <1>0, <1>c, <1>d
<1>2. /\ files'[col] \in Seq(Value) /\ Len(files'[col]) = Len(files[col]) + more
      /\ more = 0 => files'[col] = files[col]
  BY <1>1, <1>s, <1>m, Longer DEF StoreInv
<1>e. Len(files'[col]) = IF Rows > Len(files[col]) THEN Rows ELSE Len(files[col])
  <2>1. CASE Rows > Len(files[col])
    <3>1. more = Rows - Len(files[col])  BY <2>1
    <3> HIDE DEF more
    <3> QED  BY <3>1, <2>1, <1>2, <1>s, <1>m
  <2>2. CASE ~(Rows > Len(files[col]))
    <3>1. more = 0  BY <2>2
    <3> HIDE DEF more
    <3> QED  BY <3>1, <2>2, <1>2, <1>s, <1>m
  <2> QED  BY <2>1, <2>2
<1>3. files' \in [Columns -> Seq(Value) \cup {Absent}]  BY <1>0, <1>d, <1>2, <1>1
<1>4. files[col] = Whole(tbl) => files'[col] = Whole(tbl)
  BY <1>2, Facts
<1>5. ~replaced => Len(files'[col]) <= Rows
  <2>1. ~replaced => Len(files[col]) <= Rows  BY <1>c, <1>s DEF StoreInv, InOrder
  <2> QED  BY <2>1, <1>e
<1>6. Copying'
  BY <1>0, <1>2, <1>s, <1>m DEF Copying, Rows
<1>7. ~died => Len(files'[col]) = Rows
  <2>1. ~died => Len(files[col]) = 0  BY <1>0, Facts DEF StoreInv, Undisturbed
  <2> QED  BY <2>1, <1>e, Facts
<1> QED  BY <1>0, <1>w, <1>1, <1>2, <1>3, <1>4, <1>5, <1>6, <1>7, WriteStep

LEMMA CopyStep == StoreInv /\ Copy => StoreInv'
<1> SUFFICES ASSUME StoreInv, Copy PROVE StoreInv'
  OBVIOUS
<1>0. /\ stage = "copy"
      /\ UNCHANGED <<cached, tbl, stage, col, columnSize, diffs, died, replaced, failures>>
  BY DEF Copy
<1>r. PICK r \in unwritten :
        files' = [files EXCEPT ![col][r] = tbl] /\ unwritten' = unwritten \ {r}
  BY DEF Copy
<1>w. Writing /\ col <= Last  BY <1>0 DEF StoreInv, Counters, Writing
<1>c. col \in Columns  BY <1>w, Facts DEF Columns
<1>d. files \in [Columns -> Seq(Value) \cup {Absent}]  BY DEF StoreInv, Counters
<1>s. /\ files[col] \in Seq(Value) /\ Len(files[col]) >= Rows /\ Len(files[col]) \in Nat
      /\ \A q \in (1..Rows) \ unwritten : files[col][q] = tbl
  BY <1>0 DEF StoreInv, Copying
<1>u. unwritten \subseteq 1..Rows /\ Rows \in Nat  BY Facts DEF StoreInv, StoreTypeOK
<1>p. r \in 1..Len(files[col])  BY <1>u, <1>s
<1>1. /\ files'[col] = [files[col] EXCEPT ![r] = tbl]
      /\ \A c \in Columns : c # col => files'[c] = files[c]
  BY <1>r, <1>c, <1>d
<1>2. /\ files'[col] \in Seq(Value) /\ Len(files'[col]) = Len(files[col])
      /\ files'[col][r] = tbl
      /\ \A q \in 1..Len(files[col]) : q # r => files'[col][q] = files[col][q]
  BY <1>1, <1>s, <1>p, Facts, OneValue
<1>3. files' \in [Columns -> Seq(Value) \cup {Absent}]  BY <1>r, <1>d, <1>2, <1>1
<1>4. files[col] = Whole(tbl) => files'[col] = Whole(tbl)
  <2> SUFFICES ASSUME files[col] = Whole(tbl) PROVE files'[col] = Whole(tbl)
    OBVIOUS
  <2>1. \A q \in 1..RowsOf[tbl] : files[col][q] = tbl  BY DEF Whole
  <2>2. Len(files'[col]) = RowsOf[tbl]  BY <1>2, Facts
  <2>3. \A q \in 1..RowsOf[tbl] : files'[col][q] = tbl  BY <2>1, <1>2, Facts
  <2> QED  BY <2>2, <2>3, <1>2, Facts, RightIsWhole DEF StoreInv
<1>5. ~replaced => Len(files'[col]) <= Rows
  BY <1>2, <1>c, <1>s, Facts DEF StoreInv, InOrder
<1>6. Copying'
  <2>1. \A q \in (1..Rows) \ unwritten' : files'[col][q] = tbl
    BY <1>r, <1>s, <1>2, <1>u
  <2> QED  BY <2>1, <1>0, <1>2, <1>s DEF Copying, Rows
<1>7. ~died => Len(files'[col]) = Rows  BY <1>0, <1>2 DEF StoreInv, Undisturbed
<1>8. unwritten' \subseteq 1..Rows  BY <1>r, <1>u
<1> QED  BY <1>0, <1>w, <1>1, <1>2, <1>3, <1>4, <1>5, <1>6, <1>7, <1>8, WriteStep

LEMMA CloseStep == StoreInv /\ Close => StoreInv'
<1> SUFFICES ASSUME StoreInv, Close PROVE StoreInv'
  OBVIOUS
<1>0. /\ stage = "copy" /\ unwritten = {}
      /\ stage' = IF col = Last THEN "load" ELSE "open"
      /\ col' = IF col = Last THEN 1 ELSE col + 1
      /\ UNCHANGED <<cached, tbl, files, unwritten, columnSize, diffs, died, replaced, failures>>
  BY DEF Close
<1>w. Writing /\ col <= Last /\ columnSize = 0 /\ diffs = 0
  BY <1>0 DEF StoreInv, Counters, Writing
<1>c. col \in Columns /\ col \in Nat /\ col >= 1 /\ Last \in Nat  BY <1>w, Facts DEF Columns
<1>s. /\ files[col] \in Seq(Value) /\ Len(files[col]) >= Rows /\ Len(files[col]) \in Nat
      /\ \A r \in 1..Rows : files[col][r] = tbl
  BY <1>0, Facts DEF StoreInv, Copying
<1>p. files[col] # Absent  BY <1>s, Facts
<1>f. Len(files[col]) = Rows => files[col] = Whole(tbl)
  BY <1>s, Facts, RightIsWhole DEF StoreInv
<1>1. StoreAssumption'  BY DEF StoreInv, StoreAssumption
<1>2. StoreTypeOK'
  <2>1. col' \in 1..(Last + 1)  BY <1>0, <1>c, <1>w
  <2>2. stage' \in {"load", "open"}  BY <1>0
  <2> QED  BY <2>1, <2>2, <1>0 DEF StoreInv, StoreTypeOK, Rows
<1>3. Counters'  BY <1>0, <1>w, <1>c DEF StoreInv, Counters, Writing
<1>4. Reading' /\ Copying'  BY <1>0, <1>w DEF Reading, Copying
<1>n. \A b \in Columns : b \in Nat /\ b >= 1 /\ b <= Last
  BY <1>c DEF Columns
<1>5. InOrder'
  <2> SUFFICES ASSUME ~replaced PROVE InOrder'
    BY <1>0 DEF InOrder
  <2>1. \A c \in Columns : files[c] # Absent =>
          /\ Len(files[c]) <= Rows
          /\ \A b \in Columns : b < c => files[b] = Whole(tbl)
    BY DEF StoreInv, InOrder
  <2>2. \A b \in Columns : b < col => files[b] = Whole(tbl)
    BY <1>w DEF StoreInv, InOrder
  <2>3. files[col] = Whole(tbl)
    BY <2>1, <1>s, <1>p, <1>c, <1>f, Facts
  <2>4. CASE col = Last
    <3>1. \A c \in Columns : c < col \/ c = col  BY <2>4, <1>n, <1>c
    <3>2. \A c \in Columns : files[c] # Absent  BY <3>1, <2>2, <2>3, Facts
    <3> QED  BY <3>2, <2>1, <2>4, <1>0 DEF InOrder, Writing, Rows, Whole
  <2>5. CASE col # Last
    <3>1. \A b \in Columns : b < col + 1 => b < col \/ b = col  BY <1>n, <1>c
    <3> QED  BY <3>1, <2>1, <2>2, <2>3, <2>5, <1>0 DEF InOrder, Writing, Rows, Whole
  <2> QED  BY <2>4, <2>5
<1>6. Undisturbed'
  <2> SUFFICES ASSUME ~died PROVE Undisturbed'
    BY <1>0 DEF Undisturbed
  <2>1. /\ failures = IF cached THEN 1 ELSE 0
        /\ \A b \in Columns : b < col => files[b] = Whole(tbl)
        /\ \A b \in Columns : b > col => files[b] = Absent
        /\ files[col] = Whole(tbl)
    BY <1>0, <1>w, <1>f DEF StoreInv, Undisturbed
  <2>2. CASE col = Last
    <3>1. \A c \in Columns : c < col \/ c = col  BY <2>2, <1>n, <1>c
    <3>2. \A c \in Columns : files[c] = Whole(tbl)  BY <3>1, <2>1
    <3>3. Level'
      <4>1. Whole(tbl) \in Seq(Value) /\ Len(Whole(tbl)) = Rows /\ Rows \in Nat \ {0}
        BY Facts
      <4>2. files' = files /\ Whole(tbl)' = Whole(tbl)
        BY <1>0 DEF Whole
      <4>3. \A c \in Columns : files'[c] \in Seq(Value) /\ Len(files'[c]) = Rows
        BY <3>2, <4>1, <4>2
      <4> QED  BY <3>2, <4>1, <4>2, <4>3 DEF Level
    <3> QED  BY <3>3, <2>1, <2>2, <1>0, <1>w DEF Undisturbed, Writing
  <2>3. CASE col # Last
    <3>1. \A b \in Columns : /\ b < col + 1 => b < col \/ b = col
                             /\ b > col + 1 => b > col
      BY <1>n, <1>c
    <3>2. col + 1 \in Columns /\ col + 1 > col  BY <2>3, <1>w, <1>c DEF Columns
    <3> QED  BY <3>1, <3>2, <2>1, <2>3, <1>0 DEF Undisturbed, Writing, Whole
  <2> QED  BY <2>2, <2>3
<1>7. ColumnsAreOfOneSize'  BY <1>0 DEF ColumnsAreOfOneSize
<1> QED  BY <1>1, <1>2, <1>3, <1>4, <1>5, <1>6, <1>7 DEF StoreInv

LEMMA LoadStep == StoreInv /\ Load => StoreInv'
<1> SUFFICES ASSUME StoreInv, Load PROVE StoreInv'
  OBVIOUS
<1>0. /\ stage = "load" /\ col <= Last
      /\ UNCHANGED <<cached, tbl, files, unwritten, died, replaced>>
  BY DEF Load
<1>c. col \in Columns /\ col \in Nat /\ col >= 1 /\ Last \in Nat /\ diffs \in Nat /\ columnSize \in Nat
  BY <1>0, Facts DEF Columns
<1>d. diffs < col /\ unwritten = {} /\ failures < MaxFailures
  BY <1>0 DEF StoreInv, Counters
<1>m. failures \in Nat /\ MaxFailures \in Nat  BY DEF StoreInv, StoreTypeOK, StoreAssumption
<1>l. Level' <=> Level  BY <1>0 DEF Level, Whole
<1>v. ~died => Level /\ diffs <= 1 /\ failures = IF cached THEN 1 ELSE 0
  BY <1>0 DEF StoreInv, Undisturbed
<1>s. stage' \in {"down", "load"}  BY <1>0 DEF Load, Fail
<1>1. StoreAssumption' /\ Copying' /\ ColumnsAreOfOneSize'
  BY <1>s DEF StoreInv, StoreAssumption, Copying, ColumnsAreOfOneSize
<1>2. InOrder'
  <2>1. ~replaced => /\ \A c \in Columns : files[c] # Absent
                     /\ \A c \in Columns : files[c] # Absent =>
                          /\ Len(files[c]) <= Rows
                          /\ \A b \in Columns : b < c => files[b] = Whole(tbl)
    BY <1>0 DEF StoreInv, InOrder
  <2> QED  BY <2>1, <1>s, <1>0 DEF InOrder, Writing, Rows, Whole
<1>3. CASE files[col] \in {Absent, <<>>}
  <2>0. stage' = "down" /\ failures' = failures + 1 /\ UNCHANGED <<col, columnSize, diffs>>
    BY <1>3 DEF Load, Fail
  <2>1. ASSUME ~died PROVE FALSE
    <3>1. PICK n \in Nat \ {0} : files[col] \in Seq(Value) /\ Len(files[col]) = n
      BY <2>1, <1>v, <1>c DEF Level
    <3>2. files[col] # Absent  BY <3>1, Facts
    <3>3. files[col] = <<>>  BY <3>2, <1>3
    <3>4. Len(files[col]) = 0  BY <3>3
    <3> QED  BY <3>1, <3>4
  <2>2. StoreTypeOK'  BY <2>0, <1>0, <1>d, <1>m DEF StoreInv, StoreTypeOK, Rows
  <2>3. Counters'  BY <2>0, <1>0, <1>d DEF StoreInv, Counters, Writing
  <2>4. Reading'  BY <2>0 DEF Reading
  <2>5. Undisturbed'  BY <2>1, <1>0 DEF Undisturbed
  <2> QED  BY <1>1, <1>2, <2>2, <2>3, <2>4, <2>5 DEF StoreInv
<1>4. CASE files[col] \notin {Absent, <<>>}
  <2>0. /\ stage' = stage /\ failures' = failures /\ col' = col + 1
        /\ columnSize' = Len(files[col])
        /\ diffs' = diffs + IF Len(files[col]) # columnSize THEN 1 ELSE 0
    BY <1>4 DEF Load, Differs
  <2>f. files[col] \in Seq(Value)  BY <1>4, <1>c, Facts
  <2>g. Len(files[col]) \in Nat \ {0}  BY <2>f, <1>4
  <2>h. diffs' \in Nat /\ (diffs' = diffs \/ diffs' = diffs + 1)
    BY <2>0, <1>c
  <2>r. /\ col = 1 => columnSize = 0 /\ diffs = 0
        /\ col > 1 => /\ columnSize \in Nat \ {0} /\ diffs >= 1
                      /\ diffs = 1 => \A c \in 1..(col - 1) : Len(files[c]) = columnSize
    BY <1>0 DEF StoreInv, Reading
  <2>1. StoreTypeOK'
    <3>1. diffs' \in 0..Last /\ col' \in 1..(Last + 1)  BY <2>0, <2>h, <1>c, <1>d, <1>0
    <3> QED  BY <3>1, <2>0, <2>g, <1>0, <1>d, <1>m DEF StoreInv, StoreTypeOK, Rows
  <2>2. Counters'
    <3>1. diffs' < col'  BY <2>0, <2>h, <1>c, <1>d
    <3> QED  BY <3>1, <2>0, <1>0, <1>d DEF StoreInv, Counters, Writing
  <2>3. Reading'
    <3>1. CASE col = 1
      <4>1. diffs' = 1 /\ col' = 2  BY <3>1, <2>r, <2>0, <2>g
      <4>2. \A c \in 1..1 : Len(files[c]) = columnSize'  BY <3>1, <2>0
      <4> QED  BY <4>1, <4>2, <2>0, <2>g, <1>0 DEF Reading
    <3>2. CASE col > 1
      <4>1. diffs' >= 1 /\ col' > 1 /\ col' - 1 = col  BY <3>2, <2>r, <2>h, <2>0, <1>c
      <4>2. ASSUME diffs' = 1, NEW c \in 1..col PROVE Len(files[c]) = columnSize'
        <5>1. diffs = 1 /\ columnSize' = columnSize  BY <4>2, <3>2, <2>r, <2>0, <1>c
        <5>2. CASE c = col  BY <5>2, <2>0
        <5>3. CASE c # col
          <6>1. c \in 1..(col - 1)  BY <5>3, <1>c
          <6> QED  BY <6>1, <5>1, <3>2, <2>r
        <5> QED  BY <5>2, <5>3
      <4> QED  BY <4>1, <4>2, <2>0, <2>g, <1>0 DEF Reading
    <3> QED  BY <3>1, <3>2, <1>c
  <2>4. Undisturbed'
    <3> SUFFICES ASSUME ~died PROVE Undisturbed'
      BY <1>0 DEF Undisturbed
    <3>1. PICK n \in Nat \ {0} : \A c \in Columns : Len(files[c]) = n
      BY <1>v DEF Level
    <3>2. diffs' <= 1
      <4>1. CASE col = 1  BY <4>1, <2>r, <2>h
      <4>2. CASE col > 1
        <5>1. diffs = 1  BY <4>2, <2>r, <1>v, <1>c
        <5>2. 1 \in 1..(col - 1) /\ 1 \in Columns  BY <4>2, <1>c, Facts
        <5>3. columnSize = n  BY <5>1, <5>2, <4>2, <2>r, <3>1
        <5>4. Len(files[col]) = n  BY <3>1, <1>c
        <5> QED  BY <5>1, <5>3, <5>4, <2>0
      <4> QED  BY <4>1, <4>2, <1>c
    <3> QED  BY <3>2, <1>v, <1>l, <2>0, <1>0 DEF Undisturbed, Writing
  <2> QED  BY <1>1, <1>2, <2>1, <2>2, <2>3, <2>4 DEF StoreInv
<1> QED  BY <1>3, <1>4

LEMMA AcceptStep == StoreInv /\ Accept => StoreInv'
<1> SUFFICES ASSUME StoreInv, Accept PROVE StoreInv'
  OBVIOUS
<1>0. /\ stage = "load" /\ col > Last
      /\ UNCHANGED <<cached, tbl, files, col, unwritten, columnSize, diffs, died, replaced>>
  BY DEF Accept
<1>s. \/ diffs > 1 /\ stage' = "down" /\ failures' = failures + 1
      \/ ~(diffs > 1) /\ stage' = "up" /\ failures' = failures
  BY DEF Accept, Fail
<1>c. col \in Nat /\ col = Last + 1 /\ Last \in Nat /\ Last >= 1 /\ diffs \in Nat
  BY <1>0, Facts
<1>d. unwritten = {} /\ failures < MaxFailures  BY <1>0 DEF StoreInv, Counters
<1>m. failures \in Nat /\ MaxFailures \in Nat  BY DEF StoreInv, StoreTypeOK, StoreAssumption
<1>l. Level' <=> Level  BY <1>0 DEF Level, Whole
<1>v. ~died => Level /\ diffs <= 1 /\ failures = IF cached THEN 1 ELSE 0
  BY <1>0 DEF StoreInv, Undisturbed
<1>1. StoreAssumption' /\ Copying' /\ Reading'
  BY <1>s DEF StoreInv, StoreAssumption, Copying, Reading
<1>2. StoreTypeOK'  BY <1>0, <1>s, <1>d, <1>m DEF StoreInv, StoreTypeOK, Rows
<1>3. Counters'  BY <1>0, <1>s, <1>d DEF StoreInv, Counters, Writing
<1>4. InOrder'
  <2>1. ~replaced => /\ \A c \in Columns : files[c] # Absent
                     /\ \A c \in Columns : files[c] # Absent =>
                          /\ Len(files[c]) <= Rows
                          /\ \A b \in Columns : b < c => files[b] = Whole(tbl)
    BY <1>0 DEF StoreInv, InOrder
  <2> QED  BY <2>1, <1>s, <1>0 DEF InOrder, Writing, Rows, Whole
<1>5. Undisturbed'
  BY <1>0, <1>s, <1>v, <1>l, <1>c DEF Undisturbed, Writing
<1>6. ColumnsAreOfOneSize'
  <2> SUFFICES ASSUME ~(diffs > 1), NEW c \in Columns PROVE Len(files[c]) = columnSize
    BY <1>0, <1>s DEF ColumnsAreOfOneSize
  <2>1. diffs >= 1 /\ (diffs = 1 => \A b \in 1..(col - 1) : Len(files[b]) = columnSize)
    BY <1>0, <1>c DEF StoreInv, Reading
  <2>2. diffs = 1 /\ c \in 1..(col - 1)  BY <2>1, <1>c DEF Columns
  <2> QED  BY <2>1, <2>2
<1> QED  BY <1>1, <1>2, <1>3, <1>4, <1>5, <1>6 DEF StoreInv

LEMMA EndStep == StoreInv /\ End => StoreInv'
<1> SUFFICES ASSUME StoreInv, End PROVE StoreInv'
  OBVIOUS
<1>0. /\ stage = "up" /\ stage' = "down"
      /\ UNCHANGED <<cached, tbl, files, col, unwritten, columnSize, diffs, died, replaced, failures>>
  BY DEF End
<1>l. Level' <=> Level  BY <1>0 DEF Level, Whole
<1>1. StoreAssumption' /\ Copying' /\ Reading' /\ ColumnsAreOfOneSize'
  BY <1>0 DEF StoreInv, StoreAssumption, Copying, Reading, ColumnsAreOfOneSize
<1>2. StoreTypeOK' /\ Counters'  BY <1>0 DEF StoreInv, StoreTypeOK, Counters, Writing, Rows
<1>3. InOrder'
  BY <1>0 DEF StoreInv, InOrder, Writing, Rows, Whole
<1>4. Undisturbed'
  BY <1>0, <1>l DEF StoreInv, Undisturbed, Writing
<1> QED  BY <1>1, <1>2, <1>3, <1>4 DEF StoreInv

LEMMA DieStep == StoreInv /\ Die => StoreInv'
<1> SUFFICES ASSUME StoreInv, Die PROVE StoreInv'
  OBVIOUS
<1>0. /\ failures < MaxFailures /\ stage' = "down" /\ failures' = failures + 1
      /\ died' = TRUE /\ unwritten' = {}
      /\ UNCHANGED <<cached, tbl, files, col, columnSize, diffs, replaced>>
  BY DEF Die, Fail
<1>m. failures \in Nat /\ MaxFailures \in Nat  BY DEF StoreInv, StoreTypeOK, StoreAssumption
<1>1. StoreAssumption' /\ Copying' /\ Reading' /\ ColumnsAreOfOneSize' /\ Undisturbed'
  BY <1>0 DEF StoreInv, StoreAssumption, Copying, Reading, ColumnsAreOfOneSize, Undisturbed
<1>2. StoreTypeOK' /\ Counters'  BY <1>0, <1>m DEF StoreInv, StoreTypeOK, Counters, Writing, Rows
<1>3. InOrder'
  BY <1>0 DEF StoreInv, InOrder, Writing, Rows, Whole
<1> QED  BY <1>1, <1>2, <1>3 DEF StoreInv

LEMMA ReplaceStep == StoreInv /\ Replace => StoreInv'
<1> SUFFICES ASSUME StoreInv, Replace PROVE StoreInv'
  OBVIOUS
<1>0. /\ stage = "down" /\ tbl' \in Versions /\ replaced' = TRUE
      /\ UNCHANGED <<cached, files, stage, col, unwritten, columnSize, diffs, died, failures>>
  BY DEF Replace
<1>u. unwritten = {}  BY <1>0 DEF StoreInv, Counters
<1>1. StoreAssumption' /\ Copying' /\ Reading' /\ ColumnsAreOfOneSize' /\ InOrder'
  BY <1>0 DEF StoreInv, StoreAssumption, Copying, Reading, ColumnsAreOfOneSize, InOrder
<1>2. StoreTypeOK' /\ Counters'
  BY <1>0, <1>u DEF StoreInv, StoreTypeOK, Counters, Writing, Rows
<1>3. Undisturbed'
  BY <1>0 DEF StoreInv, Undisturbed, Level, Writing
<1> QED  BY <1>1, <1>2, <1>3 DEF StoreInv

LEMMA StoreStep == StoreInv /\ [StoreNext]_storeVars => StoreInv'
<1>1. CASE StoreInv /\ UNCHANGED storeVars
  BY <1>1 DEF storeVars, StoreInv, StoreAssumption, StoreTypeOK, Counters, Reading, Copying, InOrder,
     Undisturbed, ColumnsAreOfOneSize, Level, Writing, Rows, Whole
<1> QED
  BY <1>1, StartStep, OpenStep, AllocateStep, CopyStep, CloseStep, LoadStep, AcceptStep,
     EndStep, DieStep, ReplaceStep DEF StoreNext

LEMMA StoreInductive == StoreAssumption /\ StoreSpec => []StoreInv
BY StoreInitially, StoreStep, PTL DEF StoreSpec

\* The columns and versions that the code counts stay in their ranges.
THEOREM StoreTypeCorrect == StoreAssumption /\ StoreSpec => []StoreTypeOK
<1>1. StoreInv => StoreTypeOK  BY DEF StoreInv
<1> QED  BY StoreInductive, <1>1, PTL

\* Whatever died and whichever versions the files are from, a relation in use has
\* columns of one size, for any number of columns (Import.cpp:228-230).
THEOREM OneSize == StoreAssumption /\ StoreSpec => []ColumnsAreOfOneSize
<1>1. StoreInv => ColumnsAreOfOneSize  BY DEF StoreInv
<1> QED  BY StoreInductive, <1>1, PTL

\* A death in the middle of writing is noticed in all columns but the last
\* (Import.cpp:193-196).
THEOREM OnlyLast == StoreAssumption /\ StoreSpec => []OnlyTheLastIsPartial
<1>1. StoreInv => OnlyTheLastIsPartial
  <2> SUFFICES ASSUME StoreInv, stage = "up", ~replaced
               PROVE  /\ \A c \in Columns \ {Last} : files[c] = Whole(tbl)
                      /\ ~died => files[Last] = Whole(tbl)
    BY DEF OnlyTheLastIsPartial
  <2>1. \A b \in Columns : b < Last => files[b] = Whole(tbl)
    BY Facts DEF StoreInv, InOrder
  <2>2. \A c \in Columns \ {Last} : c < Last  BY Facts DEF Columns
  <2>3. ~died => files[Last] = Whole(tbl)
    BY Facts DEF StoreInv, Undisturbed, Level
  <2> QED  BY <2>1, <2>2, <2>3
<1> QED  BY StoreInductive, <1>1, PTL

\* Without a death only the start that makes the directory fails (Import.cpp:191).
THEOREM OneFailure == StoreAssumption /\ StoreSpec => []FailsOnlyOnce
<1>1. StoreInv => FailsOnlyOnce  BY DEF StoreInv, Undisturbed, FailsOnlyOnce
<1> QED  BY StoreInductive, <1>1, PTL
=============================================================================
