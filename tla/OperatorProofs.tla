--------------------------- MODULE OperatorProofs ---------------------------
(***************************************************************************)
(* Proofs about what the operators on data do: the hash map of the         *)
(* library, the two kernels of the hash join, and the kernels of Query 6.  *)
(*                                                                         *)
(* Hashmap, for every number of threads, entries, buckets and tags:        *)
(* inserts that race for the head of a chain lose nothing, and the table   *)
(* is an EntryStore to those that look things up meanwhile.  Structure     *)
(* says what the chains look like; Push is the one way they grow.          *)
(* Ownership says that an entry a thread has not swapped in is its own.    *)
(* A walk stands at some place n of the chain as it was when the head was  *)
(* read, and what is left of it decides the answer.  Counting says which   *)
(* entries nrEntries cannot have counted.                                  *)
(*                                                                         *)
(* HashJoin, for every size, every number of parts and every input: the    *)
(* work items share no slot, so that linear probing without an atomic      *)
(* operation keeps every key, and the result is the join.                  *)
(*                                                                         *)
(* Query6, for every table and every even width of a word: the bits of a   *)
(* bitmap lead back to the rows they came from, and the sum that the work  *)
(* items make in any order is the one of all positions.                    *)
(***************************************************************************)
EXTENDS Hashmap, HashJoin, Query6, Ranks, FiniteSetTheorems, WellFoundedInduction, TLAPS

Spots(b) == 1..Len(chain[b])

\* An entry is in the chain of its own bucket, and once.
InItsBucket == \A b \in Buckets : \A i \in Spots(b) : Bucket(chain[b][i]) = b

Once == \A b \in Buckets : \A i, j \in Spots(b) : chain[b][i] = chain[b][j] => i = j

Structure == ChainsAreLinked /\ InItsBucket /\ Once /\ TagsCoverTheChain

IsStored(e) == \E b \in Buckets : \E i \in Spots(b) : chain[b][i] = e

\* The entry is in the hands of the thread's insertAll.
Owns(t, e) == e \in batch[t] \/ (pc[t] = "swap" /\ entry[t] = e)

Ownership ==
  /\ \A t \in Threads : pc[t] = "swap" =>
       /\ entry[t] \in Entries /\ entry[t] \notin batch[t]
       /\ next[entry[t]] = loc[t].ptr
  /\ \A t \in Threads : pc[t] \notin {"load", "swap"} => batch[t] = {}
  /\ \A t, u \in Threads : \A e \in Entries : Owns(t, e) /\ Owns(u, e) => t = u
  /\ \A t \in Threads : \A e \in Entries : Owns(t, e) => e \notin fresh /\ ~IsStored(e)
  /\ \A e \in Entries : IsStored(e) => e \notin fresh

Home(t) == BucketOf[HashOf[key[t]]]

\* n entries of the chain are still to be seen.
Stands(t, n) ==
  LET c == chain[Home(t)] IN
  /\ entry[t] = IF n = 0 THEN Null ELSE c[n]
  /\ \A i \in 1..n : KeyOf[c[i]] = key[t] => c[i] \in right[t]
  /\ (\A i \in 1..n : KeyOf[c[i]] # key[t]) => Null \in right[t]

Lookup(t) ==
  /\ pc[t] \in {"find", "walk"} => key[t] \in Keys
  /\ pc[t] \notin {"find", "walk"} => key[t] = Null
  /\ pc[t] # "walk" => right[t] = {}
  /\ pc[t] = "walk" => \E n \in 0..Len(chain[Home(t)]) : Stands(t, n)

Lookups == \A t \in Threads : Lookup(t)

IInv == TypeOK /\ Structure /\ Ownership /\ Lookups

LEMMA Hashed ==
  /\ \A k \in Keys : HashOf[k] \in Hashes /\ BucketOf[HashOf[k]] \in Buckets
                     /\ TagOf[HashOf[k]] \in Tags
  /\ \A e \in Entries : /\ KeyOf[e] \in Keys /\ Hash(e) \in Hashes
                        /\ Bucket(e) \in Buckets /\ TagOf[Hash(e)] \in Tags
  BY HashmapAssumption DEF Hash, Bucket

LEMMA StoredIs ==
  ASSUME NEW e
  PROVE  e \in stored <=> IsStored(e)
  BY DEF stored, Members, IsStored, Spots

LEMMA Append1 ==
  ASSUME NEW s \in Seq(Entries), NEW e \in Entries
  PROVE  /\ Append(s, e) \in Seq(Entries)
         /\ Len(Append(s, e)) = Len(s) + 1 /\ Len(s) \in Nat
         /\ \A i \in 1..Len(s) : Append(s, e)[i] = s[i] /\ s[i] \in Entries
         /\ Append(s, e)[Len(s) + 1] = e
  OBVIOUS

-----------------------------------------------------------------------------
(* A chain grows.                                                          *)

\* What Swap and Create have in common.
Pushes(e) ==
  /\ chain' = [chain EXCEPT ![Bucket(e)] = Append(@, e)]
  /\ entries' = [entries EXCEPT ![Bucket(e)] = Update(entries[Bucket(e)], e)]
  /\ next' \in [Entries -> Pointers]
  /\ next'[e] = entries[Bucket(e)].ptr
  /\ \A f \in Entries : f # e => next'[f] = next[f]

LEMMA PushedChain ==
  ASSUME TypeOK, NEW e \in Entries, Pushes(e)
  PROVE  /\ \A d \in Buckets : d # Bucket(e) => chain'[d] = chain[d] /\ entries'[d] = entries[d]
         /\ chain'[Bucket(e)] = Append(chain[Bucket(e)], e)
         /\ entries'[Bucket(e)] = Update(entries[Bucket(e)], e)
         /\ chain[Bucket(e)] \in Seq(Entries)
         /\ entries[Bucket(e)] \in Words
         /\ chain' \in [Buckets -> Seq(Entries)]
         /\ entries' \in [Buckets -> Words]
<1>1. Bucket(e) \in Buckets /\ TagOf[Hash(e)] \in Tags
  BY Hashed
<1>2. chain[Bucket(e)] \in Seq(Entries) /\ entries[Bucket(e)] \in Words
  BY <1>1 DEF TypeOK
<1>3. Append(chain[Bucket(e)], e) \in Seq(Entries)
  BY <1>2, Append1
<1>4. Update(entries[Bucket(e)], e) \in Words
  BY <1>1, <1>2 DEF Update, Words, Pointers
<1>5. QED
  BY <1>1, <1>2, <1>3, <1>4 DEF TypeOK, Pushes

LEMMA PushStores ==
  ASSUME TypeOK, NEW e \in Entries, Pushes(e), NEW f \in Entries
  PROVE  IsStored(f)' <=> IsStored(f) \/ f = e
<1> DEFINE b == Bucket(e)
<1> b \in Buckets
  BY Hashed
<1>1. /\ chain'[b] = Append(chain[b], e)
      /\ \A d \in Buckets : d # b => chain'[d] = chain[d]
      /\ \A d \in Buckets : chain[d] \in Seq(Entries)
  BY PushedChain DEF TypeOK
<1>2. /\ Len(chain'[b]) = Len(chain[b]) + 1 /\ Len(chain[b]) \in Nat
      /\ \A i \in 1..Len(chain[b]) : chain'[b][i] = chain[b][i]
      /\ chain'[b][Len(chain[b]) + 1] = e
  BY <1>1, Append1
<1> HIDE DEF b
<1>3. ASSUME IsStored(f)' PROVE IsStored(f) \/ f = e
  <2> PICK d \in Buckets : \E i \in 1..Len(chain'[d]) : chain'[d][i] = f
    BY <1>3 DEF IsStored, Spots
  <2> PICK i \in 1..Len(chain'[d]) : chain'[d][i] = f
    OBVIOUS
  <2>1. CASE d = b
    <3>1. CASE i = Len(chain[b]) + 1
      BY <3>1, <2>1, <1>2
    <3>2. CASE i \in 1..Len(chain[b])
      BY <3>2, <2>1, <1>2 DEF IsStored, Spots
    <3> QED
      BY <3>1, <3>2, <2>1, <1>2
  <2>2. CASE d # b
    BY <2>2, <1>1 DEF IsStored, Spots
  <2> QED
    BY <2>1, <2>2
<1>4. ASSUME IsStored(f) PROVE IsStored(f)'
  <2> PICK d \in Buckets : \E i \in 1..Len(chain[d]) : chain[d][i] = f
    BY <1>4 DEF IsStored, Spots
  <2> PICK i \in 1..Len(chain[d]) : chain[d][i] = f
    OBVIOUS
  <2>1. i \in 1..Len(chain'[d]) /\ chain'[d][i] = f
    <3>1. CASE d = b
      BY <3>1, <1>2
    <3>2. CASE d # b
      BY <3>2, <1>1
    <3> QED
      BY <3>1, <3>2
  <2> QED
    BY <2>1 DEF IsStored, Spots
<1>5. ASSUME f = e PROVE IsStored(f)'
  <2>1. Len(chain[b]) + 1 \in 1..Len(chain'[b])
    BY <1>2
  <2> QED
    BY <1>2, <1>5, <2>1 DEF IsStored, Spots
<1> QED
  BY <1>3, <1>4, <1>5

\* A new entry at the head leaves the chains linked, without repetition, and
\* covered by their tags.
LEMMA PushKeepsStructure ==
  ASSUME TypeOK, Structure, NEW e \in Entries, ~IsStored(e), Pushes(e)
  PROVE  Structure'
<1> DEFINE b == Bucket(e)
<1> b \in Buckets
  BY Hashed
<1>1. /\ chain'[b] = Append(chain[b], e)
      /\ entries'[b] = Update(entries[b], e)
      /\ \A d \in Buckets : d # b => chain'[d] = chain[d] /\ entries'[d] = entries[d]
      /\ \A d \in Buckets : chain[d] \in Seq(Entries)
  BY PushedChain DEF TypeOK
<1>2. /\ Len(chain'[b]) = Len(chain[b]) + 1 /\ Len(chain[b]) \in Nat
      /\ \A i \in 1..Len(chain[b]) : chain'[b][i] = chain[b][i] /\ chain[b][i] \in Entries
      /\ chain'[b][Len(chain[b]) + 1] = e
  BY <1>1, Append1
<1>3. /\ \A i \in 1..Len(chain[b]) : chain[b][i] # e
      /\ \A d \in Buckets : \A i \in 1..Len(chain[d]) : chain[d][i] # e /\ chain[d][i] \in Entries
  BY <1>1 DEF IsStored, Spots
<1>4. next'[e] = entries[b].ptr /\ \A f \in Entries : f # e => next'[f] = next[f]
  BY DEF Pushes
<1>b. b = Bucket(e)
  OBVIOUS
<1> HIDE DEF b
<1>5. ASSUME NEW d \in Buckets
      PROVE  /\ entries'[d].ptr = IF chain'[d] = <<>> THEN Null ELSE chain'[d][Len(chain'[d])]
             /\ \A i \in 1..Len(chain'[d]) :
                  next'[chain'[d][i]] = IF i = 1 THEN Null ELSE chain'[d][i - 1]
  <2>1. CASE d # b
    BY <2>1, <1>1, <1>3, <1>4 DEF Structure, ChainsAreLinked
  <2>2. CASE d = b
    <3>1. entries'[b].ptr = e /\ chain'[b] # <<>>
      BY <1>1, <1>2 DEF Update
    <3>2. ASSUME NEW i \in 1..Len(chain[b])
          PROVE  next'[chain'[b][i]] = IF i = 1 THEN Null ELSE chain'[b][i - 1]
      <4>1. next[chain[b][i]] = IF i = 1 THEN Null ELSE chain[b][i - 1]
        BY <2>2 DEF Structure, ChainsAreLinked
      <4>2. chain'[b][i] = chain[b][i] /\ chain[b][i] \in Entries /\ chain[b][i] # e
        BY <1>2, <1>3, <2>2
      <4>3. i # 1 => i - 1 \in 1..Len(chain[b])
        BY <1>2
      <4>4. i # 1 => chain'[b][i - 1] = chain[b][i - 1]
        BY <1>2, <4>3
      <4>5. QED
        BY <1>4, <4>1, <4>2, <4>4
    <3>3. next'[e] = IF Len(chain[b]) + 1 = 1 THEN Null ELSE chain'[b][Len(chain[b])]
      BY <1>1, <1>2, <1>4 DEF Structure, ChainsAreLinked
    <3>4. ASSUME NEW i \in 1..Len(chain'[b])
          PROVE  next'[chain'[b][i]] = IF i = 1 THEN Null ELSE chain'[b][i - 1]
      <4>1. CASE i = Len(chain[b]) + 1
        BY <4>1, <3>3, <1>2
      <4>2. CASE i # Len(chain[b]) + 1
        BY <4>2, <3>2, <1>2
      <4> QED
        BY <4>1, <4>2
    <3> QED
      BY <2>2, <3>1, <3>4, <1>2
  <2> QED
    BY <2>1, <2>2
<1>6. ASSUME NEW d \in Buckets, NEW i \in 1..Len(chain'[d])
      PROVE  Bucket(chain'[d][i]) = d
  <2>1. CASE d # b
    BY <2>1, <1>1 DEF Structure, InItsBucket, Spots
  <2>2. CASE d = b /\ i = Len(chain[b]) + 1
    BY <2>2, <1>2, <1>b
  <2>3. CASE d = b /\ i # Len(chain[b]) + 1
    BY <2>3, <1>2 DEF Structure, InItsBucket, Spots
  <2> QED
    BY <2>1, <2>2, <2>3
<1>7. ASSUME NEW d \in Buckets, NEW i \in 1..Len(chain'[d]), NEW j \in 1..Len(chain'[d]),
             chain'[d][i] = chain'[d][j]
      PROVE  i = j
  <2>1. CASE d # b
    BY <2>1, <1>1, <1>7 DEF Structure, Once, Spots
  <2>2. CASE d = b
    <3>1. CASE i \in 1..Len(chain[b]) /\ j \in 1..Len(chain[b])
      <4>1. chain[b][i] = chain[b][j]
        BY <3>1, <2>2, <1>2, <1>7
      <4> QED
        BY <4>1, <3>1 DEF Structure, Once, Spots
    <3>2. CASE i \notin 1..Len(chain[b]) \/ j \notin 1..Len(chain[b])
      <4>1. chain[b][i] = e \/ i \notin 1..Len(chain[b]) => i = Len(chain[b]) + 1
        BY <2>2, <1>2, <1>3
      <4>2. chain[b][j] = e \/ j \notin 1..Len(chain[b]) => j = Len(chain[b]) + 1
        BY <2>2, <1>2, <1>3
      <4> QED
        BY <4>1, <4>2, <3>2, <2>2, <1>2, <1>3, <1>7
    <3> QED
      BY <3>1, <3>2
  <2> QED
    BY <2>1, <2>2
<1>8. ASSUME UseTags, NEW d \in Buckets, NEW i \in 1..Len(chain'[d])
      PROVE  TagOf[Hash(chain'[d][i])] \in entries'[d].tags
  <2>1. CASE d # b
    BY <2>1, <1>1, <1>8 DEF Structure, TagsCoverTheChain, Members
  <2>2. CASE d = b /\ i = Len(chain[b]) + 1
    BY <2>2, <1>1, <1>2, <1>8 DEF Update
  <2>3. CASE d = b /\ i # Len(chain[b]) + 1
    <3>1. i \in 1..Len(chain[b])
      BY <2>3, <1>2
    <3>2. TagOf[Hash(chain[b][i])] \in entries[b].tags
      BY <3>1, <2>3, <1>8 DEF Structure, TagsCoverTheChain, Members
    <3> QED
      BY <3>1, <3>2, <2>3, <1>1, <1>2, <1>8 DEF Update
  <2> QED
    BY <2>1, <2>2, <2>3
<1>9. ChainsAreLinked'
  BY <1>5 DEF ChainsAreLinked
<1>10. InItsBucket'
  BY <1>6 DEF InItsBucket, Spots, Bucket, Hash
<1>11. Once'
  BY <1>7 DEF Once, Spots
<1>12. TagsCoverTheChain'
  BY <1>8 DEF TagsCoverTheChain, Members, Hash
<1> QED
  BY <1>9, <1>10, <1>11, <1>12 DEF Structure

\* So does a new next of an entry that is in no chain.
LEMMA OutsideKeepsStructure ==
  ASSUME TypeOK, Structure, NEW e \in Entries, ~IsStored(e),
         UNCHANGED <<chain, entries>>,
         \A f \in Entries : f # e => next'[f] = next[f]
  PROVE  Structure'
<1>1. \A b \in Buckets : \A i \in 1..Len(chain[b]) :
        chain[b][i] \in Entries /\ next'[chain[b][i]] = next[chain[b][i]]
  <2> SUFFICES ASSUME NEW b \in Buckets, NEW i \in 1..Len(chain[b])
               PROVE  chain[b][i] \in Entries /\ chain[b][i] # e
    OBVIOUS
  <2> chain[b] \in Seq(Entries)
    BY DEF TypeOK
  <2> QED
    BY DEF IsStored, Spots
<1>2. ChainsAreLinked'
  BY <1>1 DEF Structure, ChainsAreLinked
<1>3. InItsBucket' /\ Once' /\ TagsCoverTheChain'
  BY DEF Structure, InItsBucket, Once, Spots, TagsCoverTheChain, Members, Bucket, Hash
<1> QED
  BY <1>2, <1>3 DEF Structure

-----------------------------------------------------------------------------
(* Lookups beside other steps.                                             *)

\* The lookup of a thread does not feel a step that leaves the thread and the
\* chains alone.
LEMMA LookupFrame ==
  ASSUME NEW t \in Threads, Lookup(t), chain' = chain,
         pc'[t] = pc[t], entry'[t] = entry[t], key'[t] = key[t], right'[t] = right[t]
  PROVE  Lookup(t)'
  BY DEF Lookup, Stands, Home

\* Nor a step that puts an entry in front of a chain.
LEMMA LookupOutlivesPush ==
  ASSUME TypeOK, NEW t \in Threads, Lookup(t), NEW e \in Entries, Pushes(e),
         pc'[t] = pc[t], entry'[t] = entry[t], key'[t] = key[t], right'[t] = right[t]
  PROVE  Lookup(t)'
<1>1. CASE pc[t] # "walk"
  BY <1>1 DEF Lookup
<1>2. CASE pc[t] = "walk"
  <2> DEFINE h == Home(t)
             c == chain[h]
  <2>1. key[t] \in Keys /\ h \in Buckets /\ Home(t)' = h
    BY <1>2, Hashed DEF Lookup, Home
  <2> c \in Seq(Entries)
    BY <2>1 DEF TypeOK
  <2>2. /\ Len(chain'[h]) \in Nat /\ Len(c) <= Len(chain'[h])
        /\ \A i \in 1..Len(c) : chain'[h][i] = c[i]
    <3>1. CASE h = Bucket(e)
      <4>1. chain'[h] = Append(c, e)
        BY <3>1, PushedChain
      <4> HIDE DEF c
      <4> QED
        BY <4>1, Append1
    <3>2. CASE h # Bucket(e)
      BY <3>2, <2>1, PushedChain
    <3> QED
      BY <3>1, <3>2
  <2> PICK n \in 0..Len(c) : Stands(t, n)
    BY <1>2 DEF Lookup
  <2>3. n \in 0..Len(chain'[h])
    BY <2>2
  <2>4. \A i \in 1..n : chain'[h][i] = c[i]
    BY <2>2
  <2>5. n # 0 => n \in 1..n
    OBVIOUS
  <2>6. Stands(t, n)'
    BY <2>1, <2>4, <2>5 DEF Stands
  <2> QED
    BY <1>2, <2>1, <2>3, <2>6 DEF Lookup
<1> QED
  BY <1>1, <1>2

-----------------------------------------------------------------------------
(* The steps.                                                              *)

\* What the counting and the lookups have in common: nothing that Structure and
\* Ownership speak of changes.
Quiet(t) ==
  /\ UNCHANGED <<entries, next, chain, fresh, batch>>
  /\ pc[t] \notin {"load", "swap"} /\ pc'[t] \notin {"load", "swap"}
  /\ \A u \in Threads : u # t =>
       /\ pc'[u] = pc[u] /\ entry'[u] = entry[u] /\ loc'[u] = loc[u]
       /\ key'[u] = key[u] /\ right'[u] = right[u]

LEMMA StepsAreQuiet ==
  ASSUME TypeOK, NEW t \in Threads,
         \/ CountLoad(t) \/ CountStore(t) \/ FindChain(t) \/ Step(t) \/ Return(t)
         \/ \E k \in Keys : StartFind(t, k)
  PROVE  Quiet(t)
<1>1. CASE CountLoad(t) \/ CountStore(t)
  BY <1>1 DEF CountLoad, CountStore, EndInsert, Go, Quiet, TypeOK, lookupVars
<1>2. CASE FindChain(t)
  BY <1>2 DEF FindChain, Go, Quiet, TypeOK, insertVars
<1>3. CASE Step(t)
  BY <1>3 DEF Step, Quiet, TypeOK, insertVars, lookupVars
<1>4. CASE Return(t)
  BY <1>4 DEF Return, Go, Quiet, TypeOK, insertVars
<1>5. CASE \E k \in Keys : StartFind(t, k)
  BY <1>5 DEF StartFind, Go, Quiet, TypeOK, insertVars
<1> QED
  BY <1>1, <1>2, <1>3, <1>4, <1>5

LEMMA QuietKeeps ==
  ASSUME TypeOK, Structure, Ownership, NEW t \in Threads, Quiet(t)
  PROVE  Structure' /\ Ownership'
<1>1. Structure'
  BY DEF Quiet, Structure, ChainsAreLinked, InItsBucket, Once, Spots,
         TagsCoverTheChain, Members, Bucket, Hash
<1>2. ASSUME NEW u \in Threads, NEW e \in Entries
      PROVE  Owns(u, e)' <=> Owns(u, e)
  <2>1. CASE u = t
    BY <2>1 DEF Quiet, Owns
  <2>2. CASE u # t
    BY <2>2 DEF Quiet, Owns
  <2> QED
    BY <2>1, <2>2
<1>3. \A e \in Entries : IsStored(e)' <=> IsStored(e)
  BY DEF Quiet, IsStored, Spots
<1>4. \A u \in Threads : pc'[u] = "swap" => pc[u] = "swap" /\ entry'[u] = entry[u] /\ loc'[u] = loc[u]
  BY DEF Quiet
<1>5. \A u \in Threads : pc'[u] \notin {"load", "swap"} => pc[u] \notin {"load", "swap"}
  BY DEF Quiet
<1>6. batch' = batch /\ next' = next /\ fresh' = fresh
  BY DEF Quiet
<1> QED
  BY <1>1, <1>2, <1>3, <1>4, <1>5, <1>6 DEF Ownership

\* What an insert does, a lookup does not feel, in this thread or another.
LEMMA InsertKeepsLookups ==
  ASSUME TypeOK, Lookups, NEW t \in Threads,
         chain' = chain, UNCHANGED lookupVars,
         pc[t] \notin {"find", "walk"}, pc'[t] \notin {"find", "walk"},
         \A u \in Threads : u # t => pc'[u] = pc[u] /\ entry'[u] = entry[u]
  PROVE  Lookups'
<1> SUFFICES ASSUME NEW u \in Threads PROVE Lookup(u)'
  BY DEF Lookups
<1>1. Lookup(u)
  BY DEF Lookups
<1>2. CASE u # t
  BY <1>1, <1>2, LookupFrame DEF lookupVars
<1>3. CASE u = t
  BY <1>1, <1>3 DEF Lookup, lookupVars
<1> QED
  BY <1>2, <1>3

LEMMA InitIInv == Init => IInv
<1> SUFFICES ASSUME Init PROVE IInv
  OBVIOUS
<1>1. Empty \in Words /\ Null \in Pointers
  BY DEF Empty, Words, Pointers
<1>2. TypeOK
  BY <1>1 DEF Init, TypeOK
<1>3. \A b \in Buckets : chain[b] = <<>> /\ Len(chain[b]) = 0 /\ entries[b] = Empty
  BY DEF Init
<1>4. Structure
  BY <1>3 DEF Structure, ChainsAreLinked, InItsBucket, Once, Spots,
              TagsCoverTheChain, Members, Empty
<1>5. \A e : ~IsStored(e)
  BY <1>3 DEF IsStored, Spots
<1>6. Ownership
  BY <1>5 DEF Init, Ownership, Owns
<1>7. Lookups
  BY DEF Init, Lookups, Lookup
<1> QED
  BY <1>2, <1>4, <1>6, <1>7 DEF IInv

LEMMA StartInsertKeeps ==
  ASSUME IInv, NEW t \in Threads, NEW set \in SUBSET Entries, StartInsert(t, set)
  PROVE  IInv'
<1> USE DEF IInv
<1>1. Cardinality(set) \in Nat
  BY HashmapAssumption, FS_Subset, FS_CardinalityType
<1>2. TypeOK'
  BY <1>1 DEF StartInsert, Go, TypeOK, lookupVars
<1>3. UNCHANGED <<entries, next, chain, entry, loc>> /\ UNCHANGED lookupVars
  BY DEF StartInsert
<1>4. /\ pc[t] = "idle" /\ pc'[t] = "load" /\ batch'[t] = set
      /\ \A u \in Threads : u # t => pc'[u] = pc[u] /\ batch'[u] = batch[u]
      /\ fresh' = fresh \ set /\ set \subseteq fresh
  BY DEF StartInsert, Go, TypeOK
<1>5. Structure'
  BY <1>3 DEF Structure, ChainsAreLinked, InItsBucket, Once, Spots,
              TagsCoverTheChain, Members, Bucket, Hash
<1>6. ASSUME NEW u \in Threads, NEW e \in Entries
      PROVE  Owns(u, e)' <=> Owns(u, e) \/ (u = t /\ e \in set)
  <2>1. CASE u = t
    BY <1>4, <2>1 DEF Owns, Ownership
  <2>2. CASE u # t
    BY <1>3, <1>4, <2>2 DEF Owns
  <2> QED
    BY <2>1, <2>2
<1>7. \A e \in Entries : IsStored(e)' <=> IsStored(e)
  BY <1>3 DEF IsStored, Spots
<1>8. Ownership'
  BY <1>3, <1>4, <1>6, <1>7 DEF Ownership
<1>9. Lookups'
  BY <1>3, <1>4, InsertKeepsLookups
<1> QED
  BY <1>2, <1>5, <1>8, <1>9

LEMMA LoadKeeps ==
  ASSUME IInv, NEW t \in Threads, Load(t)
  PROVE  IInv'
<1> USE DEF IInv
<1> PICK e \in batch[t] :
      /\ entry' = [entry EXCEPT ![t] = e]
      /\ loc' = [loc EXCEPT ![t] = entries[Bucket(e)]]
      /\ next' = [next EXCEPT ![e] = entries[Bucket(e)].ptr]
      /\ batch' = [batch EXCEPT ![t] = @ \ {e}]
  BY DEF Load
<1>1. pc[t] = "load" /\ pc' = [pc EXCEPT ![t] = "swap"]
      /\ UNCHANGED <<entries, nrEntries, size, count, fresh, chain>> /\ UNCHANGED lookupVars
  BY DEF Load, Go
<1>2. e \in Entries /\ Bucket(e) \in Buckets
  BY Hashed DEF TypeOK
<1>3. entries[Bucket(e)] \in Words /\ entries[Bucket(e)].ptr \in Pointers
  BY <1>2 DEF TypeOK, Words
<1>4. TypeOK'
  BY <1>1, <1>2, <1>3 DEF TypeOK, Pointers, lookupVars
<1>5. /\ entry'[t] = e /\ loc'[t] = entries[Bucket(e)] /\ pc'[t] = "swap"
      /\ batch'[t] = batch[t] \ {e} /\ next'[e] = entries[Bucket(e)].ptr
      /\ \A f \in Entries : f # e => next'[f] = next[f]
      /\ \A u \in Threads : u # t => /\ pc'[u] = pc[u] /\ entry'[u] = entry[u]
                                     /\ loc'[u] = loc[u] /\ batch'[u] = batch[u]
  BY <1>1, <1>2 DEF TypeOK
<1>o. Owns(t, e)
  BY DEF Owns
<1>6. Owns(t, e) /\ ~IsStored(e)
  BY <1>o, <1>2 DEF Ownership
<1>7. Structure'
  BY <1>1, <1>2, <1>5, <1>6, OutsideKeepsStructure
<1>8. \A u \in Threads, f \in Entries : Owns(u, f)' <=> Owns(u, f)
  BY <1>1, <1>5, <1>6 DEF Owns
<1>9. \A f \in Entries : IsStored(f)' <=> IsStored(f)
  BY <1>1 DEF IsStored, Spots
<1>10. \A u \in Threads : u # t /\ pc[u] = "swap" => entry[u] # e
  BY <1>2, <1>6 DEF Ownership, Owns
<1>11. \A u \in Threads : pc'[u] = "swap" =>
         /\ entry'[u] \in Entries /\ entry'[u] \notin batch'[u]
         /\ next'[entry'[u]] = loc'[u].ptr
  BY <1>2, <1>5, <1>10 DEF Ownership
<1>12. \A u \in Threads : pc'[u] \notin {"load", "swap"} => batch'[u] = {}
  BY <1>5 DEF Ownership
<1>13. Ownership'
  BY <1>1, <1>8, <1>9, <1>11, <1>12 DEF Ownership
<1>14. Lookups'
  BY <1>1, <1>5, InsertKeepsLookups
<1> QED
  BY <1>4, <1>7, <1>13, <1>14

LEMMA SwapFailsKeeps ==
  ASSUME IInv, NEW t \in Threads, SwapFails(t)
  PROVE  IInv'
<1> USE DEF IInv
<1> DEFINE e == entry[t]
          word == entries[Bucket(e)]
<1>1. /\ pc[t] = "swap" /\ UNCHANGED <<entries, pc, entry, batch, size, count, nrEntries, fresh, chain>>
      /\ UNCHANGED lookupVars
      /\ loc' = [loc EXCEPT ![t] = word] /\ next' = [next EXCEPT ![e] = word.ptr]
  BY DEF SwapFails, insertVars
<1>2. e \in Entries /\ Bucket(e) \in Buckets /\ Owns(t, e) /\ ~IsStored(e)
  BY <1>1, Hashed DEF Ownership, Owns
<1>3. word \in Words /\ word.ptr \in Pointers
  BY <1>2 DEF TypeOK, Words
<1>4. TypeOK'
  BY <1>1, <1>2, <1>3 DEF TypeOK, lookupVars
<1>5. /\ loc'[t] = word /\ next'[e] = word.ptr
      /\ \A f \in Entries : f # e => next'[f] = next[f]
      /\ \A u \in Threads : u # t => loc'[u] = loc[u]
  BY <1>1, <1>2 DEF TypeOK
<1>6. Structure'
  BY <1>1, <1>2, <1>5, OutsideKeepsStructure
<1>7. \A u \in Threads, f \in Entries : Owns(u, f)' <=> Owns(u, f)
  BY <1>1 DEF Owns
<1>8. \A f \in Entries : IsStored(f)' <=> IsStored(f)
  BY <1>1 DEF IsStored, Spots
<1>9. \A u \in Threads : u # t /\ pc[u] = "swap" => entry[u] # e
  BY <1>2 DEF Ownership, Owns
<1>10. \A u \in Threads : pc[u] = "swap" => next'[entry[u]] = loc'[u].ptr
  BY <1>2, <1>5, <1>9 DEF Ownership
<1>11. Ownership'
  BY <1>1, <1>7, <1>8, <1>10 DEF Ownership
<1>12. Lookups'
  BY <1>1, InsertKeepsLookups
<1> QED
  BY <1>4, <1>6, <1>11, <1>12

LEMMA SwapKeeps ==
  ASSUME IInv, NEW t \in Threads, Swap(t)
  PROVE  /\ IInv'
         /\ entry[t] \in Entries /\ ~IsStored(entry[t]) /\ Pushes(entry[t])
<1> USE DEF IInv
<1> DEFINE e == entry[t]
<1>1. /\ pc[t] = "swap" /\ entries[Bucket(e)] = loc[t]
      /\ UNCHANGED <<next, entry, loc, batch, nrEntries, size, count, fresh>>
      /\ UNCHANGED lookupVars
      /\ entries' = [entries EXCEPT ![Bucket(e)] = Update(loc[t], e)]
      /\ chain' = [chain EXCEPT ![Bucket(e)] = Append(@, e)]
      /\ pc' = [pc EXCEPT ![t] = IF batch[t] = {} THEN "count" ELSE "load"]
  BY DEF Swap, Go
<1>2. e \in Entries /\ Owns(t, e) /\ e \notin batch[t] /\ next[e] = loc[t].ptr
  BY <1>1 DEF Ownership, Owns
<1>3. ~IsStored(e) /\ e \notin fresh
  BY <1>2 DEF Ownership
<1>4. Pushes(e)
  BY <1>1, <1>2 DEF Pushes, TypeOK
<1>5. TypeOK'
  BY <1>1, <1>2, <1>4, PushedChain DEF TypeOK, lookupVars
<1>6. Structure'
  BY <1>2, <1>3, <1>4, PushKeepsStructure
<1>7. \A f \in Entries : IsStored(f)' <=> IsStored(f) \/ f = e
  BY <1>2, <1>4, PushStores
<1>8. /\ pc'[t] \notin {"swap", "find", "walk"} /\ (pc'[t] # "load" => batch[t] = {})
      /\ \A u \in Threads : u # t => pc'[u] = pc[u]
  BY <1>1 DEF TypeOK
<1>9. \A u \in Threads, f \in Entries : Owns(u, f)' => Owns(u, f) /\ f # e
  <2> SUFFICES ASSUME NEW u \in Threads, NEW f \in Entries, Owns(u, f)'
               PROVE  Owns(u, f) /\ f # e
    OBVIOUS
  <2>1. CASE u = t
    BY <2>1, <1>1, <1>2, <1>8 DEF Owns
  <2>2. CASE u # t
    <3>1. Owns(u, f)
      BY <2>2, <1>1, <1>8 DEF Owns
    <3> QED
      BY <3>1, <2>2, <1>2 DEF Ownership
  <2> QED
    BY <2>1, <2>2
<1>10. \A u \in Threads : pc'[u] = "swap" => pc[u] = "swap"
  BY <1>8
<1>11. \A u \in Threads : pc'[u] \notin {"load", "swap"} => batch'[u] = {}
  BY <1>1, <1>8 DEF Ownership
<1>12. Ownership'
  BY <1>1, <1>3, <1>7, <1>9, <1>10, <1>11 DEF Ownership
<1>13. Lookups'
  <2> SUFFICES ASSUME NEW u \in Threads PROVE Lookup(u)'
    BY DEF Lookups
  <2>1. Lookup(u)
    BY DEF Lookups
  <2>2. CASE u # t
    BY <2>1, <2>2, <1>1, <1>2, <1>4, <1>8, LookupOutlivesPush DEF lookupVars
  <2>3. CASE u = t
    BY <2>1, <2>3, <1>1, <1>8 DEF Lookup, lookupVars
  <2> QED
    BY <2>2, <2>3
<1> QED
  BY <1>2, <1>3, <1>4, <1>5, <1>6, <1>12, <1>13

LEMMA CreateKeeps ==
  ASSUME IInv, NEW e \in Entries, Create(e)
  PROVE  IInv' /\ ~IsStored(e) /\ Pushes(e)
<1> USE DEF IInv
<1>1. /\ \A t \in Threads : pc[t] = "idle"
      /\ e \in fresh /\ fresh' = fresh \ {e} /\ nrEntries' = nrEntries + 1
      /\ UNCHANGED <<pc, batch, size, entry, loc, count>> /\ UNCHANGED lookupVars
      /\ next' = [next EXCEPT ![e] = entries[Bucket(e)].ptr]
      /\ entries' = [entries EXCEPT ![Bucket(e)] = Update(entries[Bucket(e)], e)]
      /\ chain' = [chain EXCEPT ![Bucket(e)] = Append(@, e)]
  BY DEF Create, Alone
<1>2. ~IsStored(e)
  BY <1>1 DEF Ownership
<1>3. entries[Bucket(e)].ptr \in Pointers
  BY Hashed DEF TypeOK, Words
<1>4. Pushes(e)
  BY <1>1, <1>3 DEF Pushes, TypeOK
<1>5. TypeOK'
  <2>1. chain' \in [Buckets -> Seq(Entries)] /\ entries' \in [Buckets -> Words]
    BY <1>4, PushedChain
  <2>2. next' \in [Entries -> Pointers]
    BY <1>4 DEF Pushes
  <2> QED
    BY <2>1, <2>2, <1>1 DEF TypeOK, lookupVars
<1>6. Structure'
  BY <1>2, <1>4, PushKeepsStructure
<1>7. \A f \in Entries : IsStored(f)' <=> IsStored(f) \/ f = e
  BY <1>4, PushStores
<1>8. \A t \in Threads, f \in Entries : ~Owns(t, f) /\ ~Owns(t, f)'
  BY <1>1 DEF Owns, Ownership
<1>9. Ownership'
  BY <1>1, <1>7, <1>8 DEF Ownership
<1>10. Lookups'
  <2> SUFFICES ASSUME NEW u \in Threads PROVE Lookup(u)'
    BY DEF Lookups
  <2> QED
    BY <1>1, <1>4, LookupOutlivesPush DEF lookupVars, Lookups
<1> QED
  BY <1>2, <1>4, <1>5, <1>6, <1>9, <1>10

LEMMA ClearKeeps ==
  ASSUME IInv, Clear
  PROVE  IInv' /\ \A t \in Threads : key[t] = Null
<1> USE DEF IInv
<1>1. /\ \A t \in Threads : pc[t] = "idle"
      /\ entries' = [b \in Buckets |-> Empty] /\ nrEntries' = 0
      /\ fresh' = Entries /\ chain' = [b \in Buckets |-> <<>>]
      /\ UNCHANGED <<next, pc, batch, size, entry, loc, count>> /\ UNCHANGED lookupVars
  BY DEF Clear, Alone
<1>2. Empty \in Words
  BY DEF Empty, Words, Pointers
<1>3. TypeOK'
  BY <1>1, <1>2 DEF TypeOK, lookupVars
<1>4. \A b \in Buckets : chain'[b] = <<>> /\ Len(chain'[b]) = 0 /\ entries'[b] = Empty
  BY <1>1
<1>5. Structure'
  BY <1>4 DEF Structure, ChainsAreLinked, InItsBucket, Once, Spots,
              TagsCoverTheChain, Members, Empty
<1>6. \A e : ~IsStored(e)'
  BY <1>4 DEF IsStored, Spots
<1>7. \A t \in Threads, e \in Entries : ~Owns(t, e)'
  BY <1>1 DEF Owns, Ownership
<1>8. Ownership'
  BY <1>1, <1>6, <1>7 DEF Ownership
<1>9. Lookups' /\ \A t \in Threads : key[t] = Null
  BY <1>1 DEF Lookups, Lookup, lookupVars
<1> QED
  BY <1>3, <1>5, <1>8, <1>9

\* Where a quiet step of thread t leaves the other threads' lookups.
LEMMA OtherLookups ==
  ASSUME Lookups, NEW t \in Threads, Quiet(t), NEW u \in Threads, u # t
  PROVE  Lookup(u)'
<1>1. Lookup(u)
  BY DEF Lookups
<1> QED
  BY <1>1, LookupFrame DEF Quiet

LEMMA CountKeeps ==
  ASSUME IInv, NEW t \in Threads, CountLoad(t) \/ CountStore(t)
  PROVE  IInv'
<1> USE DEF IInv
<1>1. Quiet(t)
  BY StepsAreQuiet
<1>2. TypeOK'
  <2>1. Empty \in Words /\ Null \in Pointers
    BY DEF Empty, Words, Pointers
  <2>2. CASE CountLoad(t)
    BY <2>2 DEF CountLoad, Go, TypeOK, lookupVars
  <2>3. CASE CountStore(t)
    BY <2>1, <2>3 DEF CountStore, EndInsert, Go, TypeOK, lookupVars
  <2> QED
    BY <2>2, <2>3
<1>3. pc[t] \notin {"find", "walk"} /\ pc'[t] \notin {"find", "walk"} /\ UNCHANGED lookupVars
  BY DEF CountLoad, CountStore, EndInsert, Go, TypeOK
<1>4. Lookups'
  BY <1>1, <1>3, InsertKeepsLookups DEF Quiet
<1> QED
  BY <1>1, <1>2, <1>4, QuietKeeps

LEMMA StartFindKeeps ==
  ASSUME IInv, NEW t \in Threads, NEW k \in Keys, StartFind(t, k)
  PROVE  IInv'
<1> USE DEF IInv
<1>1. Quiet(t)
  BY StepsAreQuiet
<1>2. TypeOK'
  BY DEF StartFind, Go, TypeOK, insertVars
<1>3. Lookup(t)'
  BY DEF StartFind, Go, TypeOK, Lookups, Lookup
<1>4. Lookups'
  BY <1>1, <1>3, OtherLookups DEF Lookups
<1> QED
  BY <1>1, <1>2, <1>4, QuietKeeps

\* The right answers, in terms of one chain.
LEMMA MatchesAreInTheChain ==
  ASSUME TypeOK, Structure, NEW k \in Keys, NEW e \in stored, KeyOf[e] = k
  PROVE  \E i \in Spots(BucketOf[HashOf[k]]) : chain[BucketOf[HashOf[k]]][i] = e
<1> PICK b \in Buckets : \E i \in Spots(b) : chain[b][i] = e
  BY StoredIs DEF IsStored
<1> PICK i \in Spots(b) : chain[b][i] = e
  OBVIOUS
<1>1. b = BucketOf[HashOf[k]]
  BY DEF Structure, InItsBucket, Bucket, Hash
<1> QED
  BY <1>1

LEMMA FindChainKeeps ==
  ASSUME IInv, NEW t \in Threads, FindChain(t)
  PROVE  IInv'
<1> USE DEF IInv
<1> DEFINE k == key[t]
          h == HashOf[k]
          b == BucketOf[h]
          word == entries[b]
          c == chain[b]
          matching == {e \in stored : KeyOf[e] = k}
<1>1. /\ pc[t] = "find"
      /\ entry' = [entry EXCEPT ![t] = IF PassesFilter(word, h) THEN word.ptr ELSE Null]
      /\ right' = [right EXCEPT ![t] = IF matching = {} THEN {Null} ELSE matching]
      /\ pc' = [pc EXCEPT ![t] = "walk"]
      /\ UNCHANGED <<entries, next, loc, key, answer>> /\ UNCHANGED insertVars
  BY DEF FindChain, Go
<1>2. k \in Keys /\ h \in Hashes /\ b \in Buckets
  BY <1>1, Hashed DEF Lookups, Lookup
<1>3. c \in Seq(Entries) /\ word \in Words /\ word.ptr \in Pointers
  BY <1>2 DEF TypeOK, Words
<1>4. stored \subseteq Entries
  BY DEF stored, Members, TypeOK
<1>5. TypeOK'
  BY <1>1, <1>3, <1>4 DEF TypeOK, Pointers, insertVars
<1>6. Quiet(t)
  BY StepsAreQuiet
<1>7. \A i \in 1..Len(c) : c[i] \in stored
  BY <1>2 DEF stored, Members
<1>8. \A e \in matching : \E i \in 1..Len(c) : c[i] = e
  BY <1>2, MatchesAreInTheChain DEF Spots
<1>9. /\ entry'[t] = IF PassesFilter(word, h) THEN word.ptr ELSE Null
      /\ right'[t] = IF matching = {} THEN {Null} ELSE matching
      /\ pc'[t] = "walk" /\ key' = key /\ Home(t)' = b /\ chain' = chain
  BY <1>1 DEF TypeOK, Home, insertVars
<1>10. \E n \in 0..Len(c) : Stands(t, n)'
  <2>1. CASE PassesFilter(word, h)
    <3> PICK l \in Nat : l = Len(c)
      BY <1>3
    <3>0. word.ptr = IF c = <<>> THEN Null ELSE c[Len(c)]
      BY <1>2 DEF Structure, ChainsAreLinked
    <3>1. entry'[t] = IF l = 0 THEN Null ELSE c[l]
      <4>1. c = <<>> <=> l = 0
        BY <1>3
      <4>2. entry'[t] = word.ptr
        BY <1>9, <2>1
      <4>3. QED
        BY <3>0, <4>1, <4>2
    <3>2. \A i \in 1..l : KeyOf[c[i]] = k => c[i] \in right'[t]
      BY <1>7, <1>9
    <3>3. ASSUME \A i \in 1..l : KeyOf[c[i]] # k PROVE Null \in right'[t]
      <4>1. \A e \in matching : FALSE
        BY <1>8, <3>3
      <4>2. matching = {}
        BY <4>1
      <4>3. QED
        BY <1>9, <4>2
    <3>4. Stands(t, l)'
      BY <3>1, <3>2, <3>3, <1>9 DEF Stands
    <3> QED
      BY <3>4, <1>3
  <2>2. CASE ~PassesFilter(word, h)
    <3>1. \A i \in 1..Len(c) : KeyOf[c[i]] # k
      <4> SUFFICES ASSUME NEW i \in 1..Len(c), KeyOf[c[i]] = k PROVE FALSE
        OBVIOUS
      <4>1. TagOf[Hash(c[i])] \in word.tags
        BY <2>2, <1>2 DEF PassesFilter, Structure, TagsCoverTheChain, Members
      <4> QED
        BY <4>1, <2>2 DEF PassesFilter, Hash
    <3>2. matching = {}
      BY <3>1, <1>8
    <3>3. Stands(t, 0)'
      BY <3>2, <2>2, <1>9 DEF Stands
    <3> QED
      BY <3>3, <1>3
  <2> QED
    BY <2>1, <2>2
<1>11. Lookup(t)'
  BY <1>2, <1>9, <1>10 DEF Lookup
<1>12. Lookups'
  BY <1>6, <1>11, OtherLookups DEF Lookups
<1> QED
  BY <1>5, <1>6, <1>12, QuietKeeps

\* The entry a walk has reached is one of the chain, and next leads down it.
LEMMA WalkedTo ==
  ASSUME IInv, NEW t \in Threads, pc[t] = "walk", NEW n \in 0..Len(chain[Home(t)]),
         Stands(t, n)
  PROVE  /\ key[t] \in Keys /\ Home(t) \in Buckets
         /\ n = 0 <=> entry[t] = Null
         /\ n # 0 => /\ entry[t] = chain[Home(t)][n] /\ entry[t] \in Entries
                     /\ next[entry[t]] = IF n = 1 THEN Null ELSE chain[Home(t)][n - 1]
                     /\ IsMatch(t) <=> KeyOf[entry[t]] = key[t]
<1> USE DEF IInv
<1>1. key[t] \in Keys /\ Home(t) \in Buckets
  BY Hashed DEF Lookups, Lookup, Home
<1>2. chain[Home(t)] \in Seq(Entries)
  BY <1>1 DEF TypeOK
<1>3. n # 0 => n \in 1..Len(chain[Home(t)]) /\ chain[Home(t)][n] \in Entries
  BY <1>2
<1>4. n # 0 => entry[t] = chain[Home(t)][n] /\ entry[t] # Null
  BY <1>3, HashmapAssumption DEF Stands
<1>5. n = 0 => entry[t] = Null
  BY DEF Stands
<1>6. n # 0 => next[entry[t]] = IF n = 1 THEN Null ELSE chain[Home(t)][n - 1]
  BY <1>1, <1>3, <1>4 DEF Structure, ChainsAreLinked
<1>7. IsMatch(t) <=> KeyOf[entry[t]] = key[t]
  BY DEF IsMatch, Hash
<1> QED
  BY <1>1, <1>3, <1>4, <1>5, <1>6, <1>7

LEMMA StepKeeps ==
  ASSUME IInv, NEW t \in Threads, Step(t)
  PROVE  IInv'
<1> USE DEF IInv
<1>1. /\ pc[t] = "walk" /\ entry[t] # Null /\ ~IsMatch(t)
      /\ entry' = [entry EXCEPT ![t] = next[entry[t]]]
      /\ UNCHANGED <<entries, next, pc, loc>> /\ UNCHANGED insertVars /\ UNCHANGED lookupVars
  BY DEF Step
<1> DEFINE c == chain[Home(t)]
<1> PICK n \in 0..Len(c) : Stands(t, n)
  BY <1>1 DEF Lookups, Lookup
<1>2. /\ n # 0 /\ entry[t] = c[n] /\ entry[t] \in Entries
      /\ next[entry[t]] = IF n = 1 THEN Null ELSE c[n - 1]
      /\ KeyOf[c[n]] # key[t]
  BY <1>1, WalkedTo
<1>3. TypeOK'
  BY <1>1, <1>2 DEF TypeOK, Pointers, insertVars, lookupVars
<1>4. Quiet(t)
  BY StepsAreQuiet
<1>5. entry'[t] = IF n - 1 = 0 THEN Null ELSE c[n - 1]
  BY <1>1, <1>2 DEF TypeOK
<1>6. /\ \A i \in 1..(n - 1) : KeyOf[c[i]] = key[t] => c[i] \in right[t]
      /\ (\A i \in 1..(n - 1) : KeyOf[c[i]] # key[t]) => Null \in right[t]
  <2>1. \A i \in 1..n : i = n \/ i \in 1..(n - 1)
    OBVIOUS
  <2>2. \A i \in 1..(n - 1) : i \in 1..n
    OBVIOUS
  <2> QED
    BY <2>1, <2>2, <1>2 DEF Stands
<1>7. Stands(t, n - 1)'
  BY <1>1, <1>5, <1>6 DEF Stands, Home, insertVars, lookupVars
<1>8. n - 1 \in 0..Len(c) /\ Home(t)' = Home(t) /\ chain' = chain
  BY <1>1, <1>2 DEF Home, insertVars, lookupVars
<1>9. Lookup(t)'
  BY <1>1, <1>7, <1>8 DEF Lookups, Lookup, lookupVars
<1>10. Lookups'
  BY <1>4, <1>9, OtherLookups DEF Lookups
<1> QED
  BY <1>3, <1>4, <1>10, QuietKeeps

LEMMA ReturnKeeps ==
  ASSUME IInv, NEW t \in Threads, Return(t)
  PROVE  IInv' /\ key[t] \in Keys /\ entry[t] \in right[t]
<1> USE DEF IInv
<1>1. pc[t] = "walk" /\ (entry[t] # Null => IsMatch(t))
  BY DEF Return
<1> DEFINE c == chain[Home(t)]
<1> PICK n \in 0..Len(c) : Stands(t, n)
  BY <1>1 DEF Lookups, Lookup
<1>2. /\ key[t] \in Keys
      /\ n = 0 <=> entry[t] = Null
      /\ n # 0 => entry[t] = c[n] /\ KeyOf[entry[t]] = key[t]
  BY <1>1, WalkedTo
<1>3. entry[t] \in right[t]
  <2>1. CASE n = 0
    BY <2>1, <1>2 DEF Stands
  <2>2. CASE n # 0
    <3>1. n \in 1..n
      BY <2>2
    <3> QED
      BY <3>1, <2>2, <1>2 DEF Stands
  <2> QED
    BY <2>1, <2>2
<1>4. Quiet(t)
  BY StepsAreQuiet
<1>5. TypeOK'
  BY HashmapAssumption DEF Return, Go, TypeOK, Pointers, insertVars
<1>6. Lookup(t)'
  BY DEF Return, Go, TypeOK, Lookup
<1>7. Lookups'
  BY <1>4, <1>6, OtherLookups DEF Lookups
<1> QED
  BY <1>2, <1>3, <1>4, <1>5, <1>7, QuietKeeps

LEMMA NextIInv == IInv /\ [Next]_vars => IInv'
<1> SUFFICES ASSUME IInv, [Next]_vars PROVE IInv'
  OBVIOUS
<1>1. ASSUME NEW t \in Threads, Inserts(t) PROVE IInv'
  BY <1>1, LoadKeeps, SwapKeeps, SwapFailsKeeps, CountKeeps DEF Inserts
<1>2. ASSUME NEW t \in Threads, Finds(t) PROVE IInv'
  BY <1>2, FindChainKeeps, StepKeeps, ReturnKeeps DEF Finds
<1>3. ASSUME NEW t \in Threads, NEW set \in SUBSET Entries, StartInsert(t, set) PROVE IInv'
  BY <1>3, StartInsertKeeps
<1>4. ASSUME NEW t \in Threads, NEW k \in Keys, StartFind(t, k) PROVE IInv'
  BY <1>4, StartFindKeeps
<1>5. ASSUME NEW e \in Entries, Create(e) PROVE IInv'
  BY <1>5, CreateKeeps
<1>6. CASE Clear
  BY <1>6, ClearKeeps
<1>7. CASE UNCHANGED vars
  <2> USE <1>7 DEF vars, IInv
  <2>1. TypeOK'
    BY DEF TypeOK
  <2>2. Structure'
    BY DEF Structure, ChainsAreLinked, InItsBucket, Once, Spots,
           TagsCoverTheChain, Members, Bucket, Hash
  <2>3. Ownership'
    BY DEF Ownership, Owns, IsStored, Spots
  <2>4. Lookups'
    BY LookupFrame DEF Lookups
  <2> QED
    BY <2>1, <2>2, <2>3, <2>4
<1> QED
  BY <1>1, <1>2, <1>3, <1>4, <1>5, <1>6, <1>7 DEF Next

LEMMA AlwaysIInv == SafeSpec => []IInv
  BY InitIInv, NextIInv, PTL DEF SafeSpec

-----------------------------------------------------------------------------
(* The theorems.                                                           *)

\* Every step leaves the words, the entries and the locals of every thread with
\* values of their types.
THEOREM TypeCorrect == SafeSpec => []TypeOK
<1>1. IInv => TypeOK
  BY DEF IInv
<1> QED
  BY <1>1, AlwaysIInv, PTL

\* Inserts of any number of threads that race for the head of a chain cut
\* nothing off: the chain in memory is the sequence of what was inserted.
THEOREM NothingIsCutOff == SafeSpec => []ChainsAreLinked
<1>1. IInv => ChainsAreLinked
  BY DEF IInv, Structure
<1> QED
  BY <1>1, AlwaysIInv, PTL

\* No chain holds an entry that it or another chain already holds, so no walk
\* along next runs in a ring.
THEOREM NoRings == SafeSpec => []EntriesOccurOnce
<1>1. IInv => EntriesOccurOnce
  <2> SUFFICES ASSUME IInv PROVE EntriesOccurOnce
    OBVIOUS
  <2>1. ASSUME NEW b \in Buckets, NEW d \in Buckets,
               NEW i \in 1..Len(chain[b]), NEW j \in 1..Len(chain[d]),
               chain[b][i] = chain[d][j]
        PROVE  b = d /\ i = j
    <3>1. b = d
      BY <2>1 DEF IInv, Structure, InItsBucket, Spots
    <3> QED
      BY <2>1, <3>1 DEF IInv, Structure, Once, Spots
  <2>2. fresh \cap stored = {}
    <3>1. \A e \in stored : e \in Entries /\ IsStored(e)
      BY StoredIs DEF IInv, TypeOK, stored, Members
    <3> QED
      BY <3>1 DEF IInv, Ownership
  <2> QED
    BY <2>1, <2>2 DEF EntriesOccurOnce
<1> QED
  BY <1>1, AlwaysIInv, PTL

\* The sixteen bits in a word never hide an entry of the chain from a lookup.
THEOREM TheFilterHidesNothing == SafeSpec => []TagsCoverTheChain
<1>1. IInv => TagsCoverTheChain
  BY DEF IInv, Structure
<1> QED
  BY <1>1, AlwaysIInv, PTL

-----------------------------------------------------------------------------
(* The size.  Beside the entries that nrEntries counts there are those that*)
(* threads have swapped in and have yet to count: f[t] for thread t.  What *)
(* a thread loads from nrEntries, and adds to later, leaves out its own.   *)

\* The entries of its batch that a thread has still to swap in.
Outstanding(t) == Cardinality(batch[t]) + (IF pc[t] = "swap" THEN 1 ELSE 0)

Counted(f) == {e \in Entries : IsStored(e) /\ \A t \in Threads : e \notin f[t]}

Uncounted(f) ==
  /\ \A t \in Threads : f[t] \subseteq {e \in Entries : IsStored(e)}
  /\ \A t, u \in Threads : t # u => f[t] \cap f[u] = {}
  /\ \A t \in Threads : Cardinality(f[t]) + Outstanding(t) = size[t]
  /\ \A t \in Threads : pc[t] \in {"idle", "find", "walk"} => size[t] = 0
  /\ nrEntries <= Cardinality(Counted(f))
  /\ \A t \in Threads : pc[t] = "add" => count[t] <= Cardinality(Counted(f))

Counting == \E f \in [Threads -> SUBSET Entries] : Uncounted(f)

LEMMA SetsOfEntries ==
  ASSUME NEW S \in SUBSET Entries
  PROVE  /\ IsFiniteSet(S) /\ Cardinality(S) \in Nat
         /\ \A e \in Entries \ S : Cardinality(S \cup {e}) = Cardinality(S) + 1
         /\ \A e \in S : Cardinality(S \ {e}) = Cardinality(S) - 1
<1>1. IsFiniteSet(S)
  BY HashmapAssumption, FS_Subset
<1>2. QED
  BY <1>1, FS_CardinalityType, FS_AddElement, FS_RemoveElement

LEMMA InitCounting == Init => Counting
<1> SUFFICES ASSUME Init PROVE Counting
  OBVIOUS
<1>1. PICK f : f = [t \in Threads |-> {}]
  OBVIOUS
<1>2. Cardinality({}) = 0
  BY FS_EmptySet
<1>3. Counted(f) \in SUBSET Entries /\ Cardinality(Counted(f)) \in Nat
  BY SetsOfEntries DEF Counted
<1>4. \A t \in Threads : f[t] = {} /\ size[t] = 0 /\ pc[t] = "idle" /\ Outstanding(t) = 0
  BY <1>1, <1>2 DEF Init, Outstanding
<1>5. nrEntries = 0
  BY DEF Init
<1>6. \A t \in Threads : Cardinality(f[t]) + Outstanding(t) = size[t]
  BY <1>2, <1>4
<1>7. nrEntries <= Cardinality(Counted(f))
  BY <1>3, <1>5
<1>8. \A t \in Threads : f[t] \subseteq {e \in Entries : IsStored(e)}
  BY <1>4
<1>9. \A t, u \in Threads : t # u => f[t] \cap f[u] = {}
  BY <1>4
<1>10. \A t \in Threads : pc[t] # "add"
  BY <1>4
<1>11. Uncounted(f)
  BY <1>4, <1>6, <1>7, <1>8, <1>9, <1>10 DEF Uncounted
<1>12. QED
  BY <1>1, <1>11 DEF Counting

\* Steps that neither insert nor count.
LEMMA CountingStays ==
  ASSUME Counting, UNCHANGED <<chain, nrEntries, batch, size, count>>,
         \A t \in Threads : /\ pc'[t] = "swap" <=> pc[t] = "swap"
                            /\ pc'[t] = "add" => pc[t] = "add"
                            /\ pc'[t] \in {"idle", "find", "walk"} =>
                                 pc[t] \in {"idle", "find", "walk"}
  PROVE  Counting'
<1>1. PICK f \in [Threads -> SUBSET Entries] : Uncounted(f)
  BY DEF Counting
<1>2. \A e : IsStored(e)' <=> IsStored(e)
  BY DEF IsStored, Spots
<1>3. Counted(f)' = Counted(f)
  BY <1>2 DEF Counted
<1>4. \A t \in Threads : Outstanding(t)' = Outstanding(t)
  BY DEF Outstanding
<1>5. Uncounted(f)'
  BY <1>1, <1>2, <1>3, <1>4 DEF Uncounted
<1>6. QED
  BY <1>5 DEF Counting

LEMMA StartInsertCounting ==
  ASSUME IInv, Counting, NEW t \in Threads, NEW set \in SUBSET Entries, StartInsert(t, set)
  PROVE  Counting'
<1>1. PICK f \in [Threads -> SUBSET Entries] : Uncounted(f)
  BY DEF Counting
<1>2. /\ UNCHANGED <<chain, nrEntries, count>> /\ pc[t] = "idle" /\ pc'[t] = "load"
      /\ batch'[t] = set /\ size'[t] = Cardinality(set)
      /\ \A u \in Threads : u # t => pc'[u] = pc[u] /\ batch'[u] = batch[u] /\ size'[u] = size[u]
  BY DEF StartInsert, Go, IInv, TypeOK
<1>3. \A e : IsStored(e)' <=> IsStored(e)
  BY <1>2 DEF IsStored, Spots
<1>4. Counted(f)' = Counted(f)
  BY <1>3 DEF Counted
<1>5. \A u \in Threads : u # t => Outstanding(u)' = Outstanding(u)
  BY <1>2 DEF Outstanding
<1>6. Cardinality(f[t]) + Outstanding(t)' = size'[t]
  <2>1. Cardinality(f[t]) \in Nat /\ Cardinality(batch[t]) \in Nat /\ Cardinality(set) \in Nat
    BY SetsOfEntries DEF IInv, TypeOK
  <2>2. Cardinality(f[t]) + Outstanding(t) = 0
    BY <1>1, <1>2 DEF Uncounted
  <2>3. Cardinality(f[t]) = 0
    BY <1>2, <2>1, <2>2 DEF Outstanding
  <2>4. Outstanding(t)' = Cardinality(set)
    BY <1>2, <2>1 DEF Outstanding
  <2>5. QED
    BY <1>2, <2>1, <2>3, <2>4
<1>7. Uncounted(f)'
  BY <1>1, <1>2, <1>3, <1>4, <1>5, <1>6 DEF Uncounted
<1>8. QED
  BY <1>7 DEF Counting

LEMMA LoadCounting ==
  ASSUME IInv, Counting, NEW t \in Threads, Load(t)
  PROVE  Counting'
<1>1. PICK f \in [Threads -> SUBSET Entries] : Uncounted(f)
  BY DEF Counting
<1>2. PICK e \in batch[t] :
        /\ UNCHANGED <<chain, nrEntries, count, size>> /\ pc[t] = "load" /\ pc'[t] = "swap"
        /\ batch'[t] = batch[t] \ {e}
        /\ \A u \in Threads : u # t => pc'[u] = pc[u] /\ batch'[u] = batch[u]
  BY DEF Load, Go, IInv, TypeOK
<1>3. \A x : IsStored(x)' <=> IsStored(x)
  BY <1>2 DEF IsStored, Spots
<1>4. Counted(f)' = Counted(f)
  BY <1>3 DEF Counted
<1>5. \A u \in Threads : Outstanding(u)' = Outstanding(u)
  <2>1. batch[t] \in SUBSET Entries
    BY DEF IInv, TypeOK
  <2>2. Cardinality(batch[t] \ {e}) = Cardinality(batch[t]) - 1 /\ Cardinality(batch[t]) \in Nat
    BY <2>1, SetsOfEntries
  <2>3. Outstanding(t) = Cardinality(batch[t]) /\ Outstanding(t)' = Cardinality(batch[t])
    <3>1. Outstanding(t)' = Cardinality(batch[t] \ {e}) + 1
      BY <1>2 DEF Outstanding
    <3>2. Outstanding(t) = Cardinality(batch[t]) + 0
      BY <1>2 DEF Outstanding
    <3>3. QED
      BY <2>2, <3>1, <3>2
  <2>4. \A u \in Threads : u # t => Outstanding(u)' = Outstanding(u)
    BY <1>2 DEF Outstanding
  <2>5. QED
    BY <2>3, <2>4
<1>6. \A u \in Threads : /\ pc'[u] = "add" => pc[u] = "add"
                         /\ pc'[u] \in {"idle", "find", "walk"} =>
                              pc[u] \in {"idle", "find", "walk"}
  BY <1>2
<1>7. Uncounted(f)'
  BY <1>1, <1>2, <1>3, <1>4, <1>5, <1>6 DEF Uncounted
<1>8. QED
  BY <1>7 DEF Counting

LEMMA SwapCounting ==
  ASSUME IInv, Counting, NEW t \in Threads, Swap(t)
  PROVE  Counting'
<1>1. PICK f \in [Threads -> SUBSET Entries] : Uncounted(f)
  BY DEF Counting
<1>2. PICK e \in Entries : e = entry[t] /\ ~IsStored(e) /\ Pushes(e)
  BY SwapKeeps
<1>3. /\ UNCHANGED <<nrEntries, count, size, batch>> /\ pc[t] = "swap"
      /\ pc'[t] \in {"count", "load"}
      /\ \A u \in Threads : u # t => pc'[u] = pc[u]
  BY DEF Swap, Go, IInv, TypeOK
<1>4. \A x \in Entries : IsStored(x)' <=> IsStored(x) \/ x = e
  BY <1>2, PushStores DEF IInv
<1>5. PICK g \in [Threads -> SUBSET Entries] : g = [f EXCEPT ![t] = @ \cup {e}]
  OBVIOUS
<1>6. \A u \in Threads : e \notin f[u]
  BY <1>1, <1>2 DEF Uncounted
<1>7. g[t] = f[t] \cup {e} /\ \A u \in Threads : u # t => g[u] = f[u]
  BY <1>5
<1>8. Counted(g)' = Counted(f)
  BY <1>2, <1>4, <1>6, <1>7 DEF Counted
<1>9. \A u \in Threads : Cardinality(g[u]) + Outstanding(u)' = size'[u]
  <2>1. Cardinality(g[t]) = Cardinality(f[t]) + 1 /\ Cardinality(f[t]) \in Nat
    BY <1>6, <1>7, SetsOfEntries
  <2>2. Cardinality(batch[t]) \in Nat
    BY SetsOfEntries DEF IInv, TypeOK
  <2>3. Cardinality(f[t]) + (Cardinality(batch[t]) + 1) = size[t]
    BY <1>1, <1>3 DEF Uncounted, Outstanding
  <2>4. Outstanding(t)' = Cardinality(batch[t])
    BY <1>3, <2>2 DEF Outstanding
  <2>5. Cardinality(g[t]) + Outstanding(t)' = size'[t]
    BY <1>3, <2>1, <2>2, <2>3, <2>4
  <2>6. \A u \in Threads : u # t => Outstanding(u)' = Outstanding(u)
    BY <1>3 DEF Outstanding
  <2>7. QED
    BY <1>1, <1>3, <1>7, <2>5, <2>6 DEF Uncounted
<1>10. \A u \in Threads : g[u] \subseteq {x \in Entries : IsStored(x)'}
  BY <1>1, <1>4, <1>7 DEF Uncounted
<1>11. \A u, v \in Threads : u # v => g[u] \cap g[v] = {}
  BY <1>1, <1>6, <1>7 DEF Uncounted
<1>12. Uncounted(g)'
  BY <1>1, <1>3, <1>8, <1>9, <1>10, <1>11 DEF Uncounted
<1>13. QED
  BY <1>12 DEF Counting

LEMMA CountCounting ==
  ASSUME IInv, Counting, NEW t \in Threads, CountLoad(t) \/ CountStore(t)
  PROVE  Counting'
<1>1. PICK f \in [Threads -> SUBSET Entries] : Uncounted(f)
  BY DEF Counting
<1>2. \A x : IsStored(x)' <=> IsStored(x)
  BY DEF CountLoad, CountStore, IsStored, Spots
<1>3. CASE CountLoad(t)
  <2>1. /\ UNCHANGED <<nrEntries, size, batch>> /\ pc[t] = "count" /\ pc'[t] = "add"
        /\ count'[t] = nrEntries
        /\ \A u \in Threads : u # t => pc'[u] = pc[u] /\ count'[u] = count[u]
    BY <1>3 DEF CountLoad, Go, IInv, TypeOK
  <2>2. Counted(f)' = Counted(f)
    BY <1>2 DEF Counted
  <2>3. \A u \in Threads : Outstanding(u)' = Outstanding(u)
    BY <2>1 DEF Outstanding
  <2>4. Uncounted(f)'
    BY <1>1, <1>2, <2>1, <2>2, <2>3 DEF Uncounted
  <2>5. QED
    BY <2>4 DEF Counting
<1>4. CASE CountStore(t)
  <2>1. /\ UNCHANGED batch /\ pc[t] = "add" /\ pc'[t] = "idle" /\ size'[t] = 0
        /\ nrEntries' = count[t] + size[t] /\ batch[t] = {}
        /\ \A u \in Threads : u # t =>
             pc'[u] = pc[u] /\ count'[u] = count[u] /\ size'[u] = size[u]
    BY <1>4 DEF CountStore, EndInsert, Go, IInv, TypeOK, Ownership
  <2>2. PICK g \in [Threads -> SUBSET Entries] : g = [f EXCEPT ![t] = {}]
    OBVIOUS
  <2>3. g[t] = {} /\ \A u \in Threads : u # t => g[u] = f[u]
    BY <2>2
  <2>4. Counted(g)' = Counted(f) \cup f[t] /\ Counted(f) \cap f[t] = {}
    BY <1>1, <1>2, <2>3 DEF Counted, Uncounted
  <2>5. /\ Cardinality(Counted(g)') = Cardinality(Counted(f)) + Cardinality(f[t])
        /\ Cardinality(Counted(f)) \in Nat /\ Cardinality(f[t]) \in Nat
    <3>1. IsFiniteSet(Counted(f)) /\ IsFiniteSet(f[t])
      BY SetsOfEntries DEF Counted
    <3>2. Cardinality({}) = 0
      BY FS_EmptySet
    <3>3. Cardinality(Counted(f)) \in Nat /\ Cardinality(f[t]) \in Nat
      BY <3>1, FS_CardinalityType
    <3>4. Cardinality(Counted(f) \cup f[t])
            = Cardinality(Counted(f)) + Cardinality(f[t]) - Cardinality(Counted(f) \cap f[t])
      BY <3>1, FS_Union
    <3>5. Cardinality(Counted(g)') = Cardinality(Counted(f) \cup f[t])
      BY <2>4
    <3>6. Cardinality(Counted(f) \cap f[t]) = 0
      BY <2>4, <3>2
    <3>7. QED
      BY <3>3, <3>4, <3>5, <3>6
  <2>6. Outstanding(t) = 0 /\ Outstanding(t)' = 0 /\ Cardinality({}) = 0
    BY <2>1, FS_EmptySet DEF Outstanding
  <2>7. size[t] = Cardinality(f[t]) /\ count[t] <= Cardinality(Counted(f)) /\ count[t] \in Nat
    BY <1>1, <2>1, <2>5, <2>6 DEF Uncounted, IInv, TypeOK
  <2>8. nrEntries' <= Cardinality(Counted(g)')
    BY <2>1, <2>5, <2>7
  <2>9. \A u \in Threads : pc'[u] = "add" => count'[u] <= Cardinality(Counted(g)')
    <3> SUFFICES ASSUME NEW u \in Threads, pc'[u] = "add"
                 PROVE  count'[u] <= Cardinality(Counted(g)')
      OBVIOUS
    <3>1. u # t
      BY <2>1
    <3>2. pc[u] = "add" /\ count'[u] = count[u]
      BY <2>1, <3>1
    <3>3. count[u] <= Cardinality(Counted(f)) /\ count[u] \in Nat
      BY <1>1, <3>2 DEF Uncounted, IInv, TypeOK
    <3>4. QED
      BY <2>5, <3>2, <3>3
  <2>10. \A u \in Threads : Cardinality(g[u]) + Outstanding(u)' = size'[u]
    <3>1. \A u \in Threads : u # t => Outstanding(u)' = Outstanding(u)
      BY <2>1 DEF Outstanding
    <3>2. QED
      BY <1>1, <2>1, <2>3, <2>6, <3>1 DEF Uncounted
  <2>11. \A u \in Threads : pc'[u] \in {"idle", "find", "walk"} => size'[u] = 0
    BY <1>1, <2>1 DEF Uncounted
  <2>12. /\ \A u \in Threads : g[u] \subseteq {x \in Entries : IsStored(x)'}
         /\ \A u, v \in Threads : u # v => g[u] \cap g[v] = {}
    BY <1>1, <1>2, <2>3 DEF Uncounted
  <2>13. Uncounted(g)'
    BY <2>8, <2>9, <2>10, <2>11, <2>12 DEF Uncounted
  <2>14. QED
    BY <2>13 DEF Counting
<1>5. QED
  BY <1>3, <1>4

LEMMA CreateCounting ==
  ASSUME IInv, Counting, NEW e \in Entries, Create(e)
  PROVE  Counting'
<1>1. PICK f \in [Threads -> SUBSET Entries] : Uncounted(f)
  BY DEF Counting
<1>2. ~IsStored(e) /\ \A x \in Entries : IsStored(x)' <=> IsStored(x) \/ x = e
  BY CreateKeeps, PushStores DEF IInv
<1>3. /\ UNCHANGED <<pc, size, batch, count>> /\ nrEntries' = nrEntries + 1
      /\ \A t \in Threads : pc[t] = "idle"
  BY DEF Create, Alone
<1>4. Counted(f)' = Counted(f) \cup {e} /\ e \notin Counted(f)
  BY <1>1, <1>2 DEF Counted, Uncounted
<1>5. Cardinality(Counted(f)') = Cardinality(Counted(f)) + 1 /\ Cardinality(Counted(f)) \in Nat
  BY <1>4, SetsOfEntries DEF Counted
<1>6. \A t \in Threads : Outstanding(t)' = Outstanding(t)
  BY <1>3 DEF Outstanding
<1>7. Uncounted(f)'
  BY <1>1, <1>2, <1>3, <1>5, <1>6 DEF Uncounted, IInv, TypeOK
<1>8. QED
  BY <1>7 DEF Counting

LEMMA ClearCounting ==
  ASSUME IInv, Counting, Clear
  PROVE  Counting'
<1>1. PICK f \in [Threads -> SUBSET Entries] : Uncounted(f)
  BY DEF Counting
<1>2. /\ UNCHANGED <<pc, size, batch>> /\ nrEntries' = 0
      /\ \A t \in Threads : pc[t] = "idle"
  BY DEF Clear, Alone
<1>3. PICK g \in [Threads -> SUBSET Entries] : g = [t \in Threads |-> {}]
  OBVIOUS
<1>4. \A t \in Threads : Cardinality({}) + Outstanding(t)' = size'[t] /\ size'[t] = 0
  <2> SUFFICES ASSUME NEW t \in Threads
               PROVE  Cardinality({}) + Outstanding(t)' = size'[t] /\ size'[t] = 0
    OBVIOUS
  <2>1. size[t] = 0 /\ Cardinality(f[t]) + Outstanding(t) = 0
    BY <1>1, <1>2 DEF Uncounted
  <2>2. Cardinality(f[t]) \in Nat /\ Cardinality(batch[t]) \in Nat
    BY SetsOfEntries DEF IInv, TypeOK
  <2>3. Outstanding(t) = 0 /\ Outstanding(t)' = Outstanding(t)
    BY <1>2, <2>1, <2>2 DEF Outstanding
  <2>4. QED
    BY <1>2, <2>1, <2>3, FS_EmptySet
<1>5. Cardinality(Counted(g)') \in Nat
  BY SetsOfEntries DEF Counted
<1>6. Uncounted(g)'
  BY <1>2, <1>3, <1>4, <1>5 DEF Uncounted
<1>7. QED
  BY <1>6 DEF Counting

LEMMA NextCounting == IInv /\ Counting /\ [Next]_vars => Counting'
<1> SUFFICES ASSUME IInv, Counting, [Next]_vars PROVE Counting'
  OBVIOUS
<1>1. ASSUME NEW t \in Threads, Inserts(t) PROVE Counting'
  <2>1. CASE SwapFails(t)
    BY <2>1, CountingStays DEF SwapFails, insertVars
  <2>2. QED
    BY <1>1, <2>1, LoadCounting, SwapCounting, CountCounting DEF Inserts
<1>2. ASSUME NEW t \in Threads, Finds(t) \/ \E k \in Keys : StartFind(t, k) PROVE Counting'
  <2>1. /\ UNCHANGED <<chain, nrEntries, batch, size, count>>
        /\ \A u \in Threads : u # t => pc'[u] = pc[u]
        /\ pc[t] \in {"idle", "find", "walk"} /\ pc'[t] \in {"idle", "find", "walk"}
    BY <1>2 DEF Finds, FindChain, Step, Return, StartFind, Go, insertVars, IInv, TypeOK
  <2>2. QED
    BY <2>1, CountingStays
<1>3. CASE UNCHANGED vars
  BY <1>3, CountingStays DEF vars
<1>4. QED
  BY <1>1, <1>2, <1>3, StartInsertCounting, CreateCounting, ClearCounting DEF Next

\* nrEntries, that threads raise at the same time without an atomic operation,
\* may miss entries and never counts one that is not there.
THEOREM SizeStaysBelow == SafeSpec => []SizeIsNoOverestimate
<1>1. IInv /\ Counting => SizeIsNoOverestimate
  <2> SUFFICES ASSUME IInv, Counting PROVE SizeIsNoOverestimate
    OBVIOUS
  <2>1. PICK f \in [Threads -> SUBSET Entries] : Uncounted(f)
    BY DEF Counting
  <2>2. Counted(f) \subseteq stored
    BY StoredIs DEF Counted
  <2>3. stored \in SUBSET Entries
    BY DEF stored, Members, IInv, TypeOK
  <2>4. /\ Cardinality(Counted(f)) <= Cardinality(stored)
        /\ Cardinality(Counted(f)) \in Nat /\ Cardinality(stored) \in Nat
    BY <2>2, <2>3, SetsOfEntries, FS_Subset
  <2>5. nrEntries \in Nat /\ nrEntries <= Cardinality(Counted(f))
    BY <2>1 DEF Uncounted, IInv, TypeOK
  <2>6. QED
    BY <2>4, <2>5 DEF SizeIsNoOverestimate
<1>2. Init => Counting
  BY InitCounting
<1> QED
  BY <1>1, <1>2, NextCounting, AlwaysIInv, PTL DEF SafeSpec

-----------------------------------------------------------------------------
(* The refinement: swapping an entry in is storing it, reading the head of *)
(* a chain is looking, and everything between is a stutter.                *)

LEMMA PushIsStore ==
  ASSUME IInv, NEW e \in Entries, ~IsStored(e), Pushes(e),
         UNCHANGED <<key, right, answer>>, IInv'
  PROVE  Store!Store(e)
<1>1. stored \subseteq Entries /\ stored' \subseteq Entries
  BY DEF IInv, stored, Members, TypeOK
<1>2. \A f \in Entries : IsStored(f)' <=> IsStored(f) \/ f = e
  BY PushStores DEF IInv
<1>3. \A f : (f \in stored)' <=> IsStored(f)'
  BY DEF stored, Members, IsStored, Spots
<1>4. stored' = stored \cup {e}
  BY <1>1, <1>2, <1>3, StoredIs
<1> QED
  BY <1>4, StoredIs DEF Store!Store

LEMMA InitMaps == Init => Store!Init
<1> SUFFICES ASSUME Init PROVE Store!Init
  OBVIOUS
<1>1. \A e : ~IsStored(e)
  BY DEF Init, IsStored, Spots
<1>2. stored = {}
  BY <1>1, StoredIs
<1> QED
  BY <1>2 DEF Init, Store!Init

LEMMA SameChains == ASSUME chain' = chain PROVE stored' = stored
  BY DEF stored, Members

LEMMA NextMaps == IInv /\ IInv' /\ [Next]_vars => [Store!Next]_(Store!vars)
<1> SUFFICES ASSUME IInv, IInv', [Next]_vars PROVE [Store!Next]_(Store!vars)
  OBVIOUS
<1>1. ASSUME NEW t \in Threads, Swap(t) PROVE Store!Next
  <2>1. Store!Store(entry[t]) /\ entry[t] \in Entries
    BY <1>1, SwapKeeps, PushIsStore DEF Swap, lookupVars
  <2> QED
    BY <2>1 DEF Store!Next
<1>2. ASSUME NEW e \in Entries, Create(e) PROVE Store!Next
  <2>1. Store!Store(e)
    BY <1>2, CreateKeeps, PushIsStore DEF Create, lookupVars
  <2> QED
    BY <2>1 DEF Store!Next
<1>3. ASSUME Clear PROVE Store!Next
  <2>1. \A b \in Buckets : Len(chain'[b]) = 0
    BY <1>3 DEF Clear
  <2>2. stored' = {}
    BY <2>1 DEF stored, Members
  <2>3. Store!Clear
    BY <1>3, <2>2, ClearKeeps DEF Store!Clear, Clear, lookupVars
  <2> QED
    BY <2>3 DEF Store!Next
<1>4. ASSUME NEW t \in Threads, NEW k \in Keys, StartFind(t, k) PROVE Store!Next
  <2>1. stored' = stored
    BY <1>4, SameChains DEF StartFind, insertVars
  <2>2. key[t] = Null
    BY <1>4 DEF StartFind, IInv, Lookups, Lookup
  <2>3. Store!Ask(t, k)
    BY <1>4, <2>1, <2>2 DEF StartFind, Store!Ask
  <2> QED
    BY <2>3 DEF Store!Next
<1>5. ASSUME NEW t \in Threads, FindChain(t) PROVE Store!Next
  <2>1. stored' = stored
    BY <1>5, SameChains DEF FindChain, insertVars
  <2>2. key[t] \in Keys /\ right[t] = {}
    BY <1>5 DEF FindChain, IInv, Lookups, Lookup
  <2>3. Store!Look(t)
    BY <1>5, <2>1, <2>2, HashmapAssumption DEF FindChain, Store!Look, Store!RightNow
  <2> QED
    BY <2>3 DEF Store!Next
<1>6. ASSUME NEW t \in Threads, Return(t) PROVE Store!Next
  <2>1. stored' = stored
    BY <1>6, SameChains DEF Return, insertVars
  <2>2. key[t] \in Keys /\ entry[t] \in right[t]
    BY <1>6, ReturnKeeps
  <2>3. Store!Return(t)
    BY <1>6, <2>1, <2>2, HashmapAssumption DEF Return, Store!Return
  <2> QED
    BY <2>3 DEF Store!Next
<1>7. ASSUME NEW t \in Threads,
             \/ Load(t) \/ SwapFails(t) \/ CountLoad(t) \/ CountStore(t) \/ Step(t)
             \/ \E set \in SUBSET Entries : StartInsert(t, set)
      PROVE  UNCHANGED Store!vars
  <2>1. chain' = chain /\ UNCHANGED lookupVars
    BY <1>7 DEF Load, SwapFails, CountLoad, CountStore, Step, StartInsert, insertVars
  <2> QED
    BY <2>1, SameChains DEF Store!vars, lookupVars
<1>8. CASE UNCHANGED vars
  BY <1>8, SameChains DEF vars, Store!vars
<1> QED
  BY <1>1, <1>2, <1>3, <1>4, <1>5, <1>6, <1>7, <1>8 DEF Next, Inserts, Finds

\* Lookups beside any number of inserts answer as if the table had stood still
\* at one moment of them, and nothing that was inserted is lost: Hashmap
\* implements EntryStore.
THEOREM HashmapKeepsEntries == SafeSpec => KeepsEntries
<1>1. IInv /\ IInv' /\ [Next]_vars => [Store!Next]_(Store!vars)
  BY NextMaps
<1> QED
  BY <1>1, InitMaps, AlwaysIInv, PTL DEF SafeSpec, KeepsEntries, Store!Spec

-----------------------------------------------------------------------------
(* HashJoin: numbers, sizes and types.                                     *)

LEMMA LeastOf ==
  ASSUME NEW S \in SUBSET Nat, S # {}
  PROVE  \E s \in S : \A t \in S : s <= t
<1>1. PICK s \in S : \A t \in S : <<t, s>> \notin OpToRel(<, Nat)
  BY WFMin, NatLessThanWellFounded
<1>2. \A t \in S : ~(t < s)
  BY <1>1 DEF OpToRel
<1>3. QED
  BY <1>2

\* Stretches of one length, one after the other.
LEMMA Apart ==
  ASSUME NEW n \in Nat, NEW g \in Nat, NEW h \in Nat, g < h
  PROVE  n * g + n <= n * h
<1>1. PICK m \in Nat : h = g + 1 + m
  BY h - g - 1 \in Nat
<1>2. n * h = n * g + n + n * m
  BY <1>1
<1>3. n * m >= 0
  OBVIOUS
<1>4. QED
  BY <1>2, <1>3

LEMMA Covered ==
  ASSUME NEW n \in Nat, n > 0, NEW m \in Nat, NEW p \in Nat, p < n * m
  PROVE  \E g \in 0..(m - 1) : p \in (n * g)..(n * g + n - 1)
<1>1. p = n * (p \div n) + (p % n) /\ (p % n) \in 0..(n - 1) /\ p \div n \in Nat
  OBVIOUS
<1>2. p \div n < m
  <2> SUFFICES ASSUME p \div n >= m PROVE FALSE
    BY <1>1
  <2>1. n * (p \div n) >= n * m
    BY <1>1
  <2>2. QED
    BY <1>1, <2>1
<1>3. QED
  BY <1>1, <1>2

LEMMA NoRest ==
  ASSUME NEW n \in Nat, NEW m \in Nat, m > 0, n % m = 0
  PROVE  n \div m \in Nat /\ n = (n \div m) * m
<1>1. n = m * (n \div m) + (n % m) /\ n \div m \in Nat
  OBVIOUS
<1>2. QED
  BY <1>1

\* What the sizes are.
LEMMA Arrays ==
  ASSUME NEW a \in BuildArrays \cup ProbeArrays
  PROVE  /\ Size(a) \in Nat /\ Size(a) > 0 /\ DOMAIN a = 0..(Size(a) - 1)
         /\ \A p \in DOMAIN a : a[p] \in Values /\ a[p] \in Nat
<1>1. IsFiniteSet(DOMAIN a) /\ DOMAIN a = 0..(Size(a) - 1) /\ Size(a) > 0
      /\ a \in [DOMAIN a -> Values] /\ Values \subseteq Nat
  BY HashJoinAssumption
<1>2. Size(a) \in Nat
  BY <1>1, FS_CardinalityType DEF Size
<1>3. QED
  BY <1>1, <1>2

LEMMA JoinInitially == JoinInit => JoinTypeOK
<1> SUFFICES ASSUME JoinInit PROVE JoinTypeOK
  OBVIOUS
<1>1. Size(build) \in Nat /\ Size(build) > 0 /\ Size(probe) \in Nat
  BY Arrays DEF JoinInit
<1>2. Length \in Nat
  BY <1>1, HashJoinAssumption DEF Length
<1>3. 0 \in Values /\ 0 \in 0..(Size(build) - 1) /\ 0 \in 0..Length
  BY <1>1, <1>2, HashJoinAssumption
<1>4. DOMAIN table = 0..(Size(build) - 1)
  BY DEF JoinInit
<1>5. QED
  BY <1>3, <1>4 DEF JoinInit, JoinTypeOK

\* A search ends at a slot with the key if there is one.
LEMMA FindIs ==
  ASSUME JoinTypeOK, NEW k
  PROVE  \/ Find(k) = NotFound /\ \A s \in DOMAIN table : table[s] # k
         \/ Find(k) \in DOMAIN table /\ table[Find(k)] = k
<1> DEFINE found == {s \in DOMAIN table : table[s] = k}
<1>1. CASE found = {}
  BY <1>1 DEF Find
<1>2. CASE found # {}
  <2>1. Size(build) \in Nat /\ DOMAIN table = 0..(Size(build) - 1)
    BY Arrays DEF JoinTypeOK
  <2>2. found \in SUBSET Nat
    BY <2>1
  <2>3. \E s \in found : \A t \in found : s <= t
    BY <1>2, <2>2, LeastOf
  <2>4. Find(k) = CHOOSE s \in found : \A t \in found : s <= t
    BY <1>2 DEF Find
  <2>5. Find(k) \in found
    BY <2>3, <2>4
  <2>6. QED
    BY <2>5
<1>3. QED
  BY <1>1, <1>2

LEMMA JoinTypesStay == JoinTypeOK /\ [JoinNext]_joinVars => JoinTypeOK'
<1> SUFFICES ASSUME JoinTypeOK, [JoinNext]_joinVars PROVE JoinTypeOK'
  OBVIOUS
<1>1. Length \in Nat /\ Values \subseteq Nat
  <2>1. Size(build) \in Nat
    BY Arrays DEF JoinTypeOK
  <2>2. BuildParts \in Nat /\ BuildParts > 0 /\ Values \subseteq Nat
    BY HashJoinAssumption
  <2>3. QED
    BY <2>1, <2>2 DEF Length
<1>2. ASSUME NEW g \in DOMAIN turn, NextKey(g), turn[g] < Length
      PROVE  /\ turn' \in [Items(Size(build)) -> 0..Length]
             /\ tries' \in [Items(Size(build)) -> 0..Length]
  BY <1>1, <1>2 DEF NextKey, JoinTypeOK
<1>3. ASSUME NEW g \in DOMAIN turn, TestFree(g) PROVE JoinTypeOK'
  BY <1>3 DEF TestFree, JoinTypeOK, Length, probeInputSize
<1>4. ASSUME NEW g \in DOMAIN turn, TestTaken(g) PROVE JoinTypeOK'
  <2>1. /\ turn' \in [Items(Size(build)) -> 0..Length]
        /\ tries' \in [Items(Size(build)) -> 0..Length]
    <3>1. CASE tries[g] + 1 < Length
      BY <1>1, <1>4, <3>1 DEF TestTaken, JoinTypeOK
    <3>2. CASE ~(tries[g] + 1 < Length)
      BY <1>2, <1>4, <3>2 DEF TestTaken, Works
    <3>3. QED
      BY <3>1, <3>2
  <2>2. UNCHANGED <<build, probe, table, result, phase, at, left>>
    BY <1>4 DEF TestTaken
  <2>3. QED
    BY <2>1, <2>2 DEF JoinTypeOK, Length, probeInputSize
<1>5. ASSUME NEW g \in DOMAIN turn, Write(g) PROVE JoinTypeOK'
  <2>1. PICK k \in Inputs(g) :
          table' = [s \in DOMAIN table |-> IF s = Slot(g, k) THEN k ELSE table[s]]
    BY <1>5 DEF Write
  <2>2. k \in Values
    BY Arrays DEF Inputs, JoinTypeOK
  <2>3. table' \in [0..(Size(build) - 1) -> Values]
    BY <2>1, <2>2 DEF JoinTypeOK
  <2>4. /\ UNCHANGED <<build, probe, result, phase, left>> /\ DOMAIN table' = DOMAIN table
        /\ at' = [at EXCEPT ![g] = "test"]
    BY <1>5, <2>1 DEF Write
  <2>5. /\ turn' \in [Items(Size(build)) -> 0..Length]
        /\ tries' \in [Items(Size(build)) -> 0..Length]
    BY <1>2, <1>5 DEF Write, Works
  <2>6. QED
    BY <2>3, <2>4, <2>5 DEF JoinTypeOK, Length, probeInputSize
<1>6. CASE EndBuild
  BY <1>6 DEF EndBuild, JoinTypeOK, Length, probeInputSize
<1>7. ASSUME NEW g \in left, ProbeItem(g) PROVE JoinTypeOK'
  <2>1. /\ UNCHANGED <<build, probe, table, phase, at, turn, tries>> /\ left' \subseteq left
        /\ DOMAIN result' = DOMAIN result
        /\ \A p \in DOMAIN result : result'[p] = result[p] \/ \E k : result'[p] = Find(k)
    BY <1>7 DEF ProbeItem
  <2>2. \A k : Find(k) \in DOMAIN table \cup {NotFound}
    BY FindIs
  <2>3. result' \in [0..(probeInputSize - 1) -> DOMAIN table \cup {NotFound}]
    <3>1. \A p \in DOMAIN result : result'[p] \in DOMAIN table \cup {NotFound}
      BY <2>1, <2>2 DEF JoinTypeOK
    <3>2. result' = [p \in DOMAIN result |-> result'[p]]
      BY <1>7 DEF ProbeItem
    <3>3. QED
      BY <3>1, <3>2 DEF JoinTypeOK
  <2>4. QED
    BY <2>1, <2>3 DEF JoinTypeOK, Length, probeInputSize
<1>8. CASE UNCHANGED joinVars
  BY <1>8 DEF joinVars, JoinTypeOK, Length, probeInputSize
<1>9. QED
  BY <1>3, <1>4, <1>5, <1>6, <1>7, <1>8 DEF JoinNext

-----------------------------------------------------------------------------
(* The build side.  Placed: in the slots of a work item that are taken are *)
(* its keys so far, each in one slot.  Runs: from the place of a key to    *)
(* its slot no slot is free.  Searching: so it is with the key in hand,    *)
(* and a slot found free stays free until it is written.                   *)

Start(g, k) == (k % Length) + Length * g

Occupied(g) == {s \in Segment(g) : table[s] > 0}

Done(g) == {p \in Segment(g) : p < Length * g + turn[g] /\ build[p] > 0}

Placed(g, f) ==
  /\ f \in [Occupied(g) -> Done(g)]
  /\ \A s, t \in Occupied(g) : f[s] = f[t] => s = t
  /\ \A p \in Done(g) : \E s \in Occupied(g) : f[s] = p
  /\ \A s \in Occupied(g) : table[s] = build[f[s]]

Runs(g) ==
  \A s \in Occupied(g) :
    Start(g, table[s]) <= s /\ Start(g, table[s])..s \subseteq Occupied(g)

InHand(g) == build[Length * g + turn[g]]

Searching(g) ==
  turn[g] < Length =>
    /\ Slot(g, InHand(g)) \in Segment(g)
    /\ Start(g, InHand(g))..(Slot(g, InHand(g)) - 1) \subseteq Occupied(g)
    /\ at[g] = "write" => table[Slot(g, InHand(g))] = 0

SegmentIsRight(g) == (\E f : Placed(g, f)) /\ Runs(g) /\ Searching(g)

BuildIsRight == Regular => \A g \in DOMAIN turn : SegmentIsRight(g)

\* As many segments as work items, side by side, and each slot is in one.
LEMMA Segments ==
  ASSUME JoinTypeOK, Regular
  PROVE  /\ Length \in Nat /\ Length > 0 /\ BuildParts \in Nat
         /\ DOMAIN turn = 0..(BuildParts - 1) /\ DOMAIN build = DOMAIN table
         /\ \A g \in DOMAIN turn :
              Length * g \in Nat /\ Segment(g) \subseteq DOMAIN build /\ Segment(g) \subseteq Nat
         /\ \A p \in DOMAIN build : build[p] \in Values \cap Nat /\ table[p] \in Values \cap Nat
         /\ \A g, h \in DOMAIN turn : g # h => Segment(g) \cap Segment(h) = {}
         /\ \A p \in DOMAIN build : \E g \in DOMAIN turn : p \in Segment(g)
<1>1. /\ Size(build) \in Nat /\ Size(build) > 0 /\ DOMAIN build = 0..(Size(build) - 1)
      /\ \A p \in DOMAIN build : build[p] \in Values \cap Nat
  BY Arrays DEF JoinTypeOK
<1>2. BuildParts \in Nat /\ BuildParts > 0 /\ Ratio \in Nat /\ Ratio > 0 /\ Values \subseteq Nat
  BY HashJoinAssumption
<1>3. Length \in Nat /\ Size(build) = BuildParts * Length
  BY <1>1, <1>2 DEF Length, Regular, BuildSizeFits
<1>4. Length > 0
  <2> SUFFICES ASSUME Length = 0 PROVE FALSE
    BY <1>3
  <2>1. BuildParts * Length = 0
    BY <1>2
  <2>2. QED
    BY <1>1, <1>3, <2>1
<1>5. DOMAIN turn = 0..(BuildParts - 1)
  <2>1. Size(build) \div Ratio \in Nat
    BY <1>1, <1>2
  <2>2. Cardinality(0..((Size(build) \div Ratio) - 1)) = Size(build) \div Ratio
    BY <2>1, FS_Interval
  <2>3. QED
    BY <1>2, <2>2 DEF Regular, BuildSizeFits, Items, JoinTypeOK
<1>6. DOMAIN table = DOMAIN build /\ \A p \in DOMAIN build : table[p] \in Values \cap Nat
  BY <1>1, <1>2 DEF JoinTypeOK
<1>7. ASSUME NEW g \in DOMAIN turn
      PROVE  Length * g \in Nat /\ Segment(g) \subseteq DOMAIN build /\ Segment(g) \subseteq Nat
  <2>1. g \in Nat /\ g < BuildParts
    BY <1>2, <1>5
  <2>2. Length * g \in Nat /\ Length * BuildParts \in Nat /\ Length * BuildParts = Size(build)
    BY <1>2, <1>3, <2>1
  <2>3. Length * g + Length <= Length * BuildParts
    BY <1>2, <1>3, <2>1, Apart
  <2>4. QED
    BY <1>1, <1>3, <2>2, <2>3 DEF Segment
<1>8. ASSUME NEW g \in DOMAIN turn, NEW h \in DOMAIN turn, g < h
      PROVE  Segment(g) \cap Segment(h) = {}
  <2>1. Length * g + Length <= Length * h
    BY <1>2, <1>3, <1>5, <1>8, Apart
  <2>2. Length * g \in Nat /\ Length * h \in Nat
    BY <1>7
  <2>3. QED
    BY <1>3, <2>1, <2>2 DEF Segment
<1>9. \A g, h \in DOMAIN turn : g # h => Segment(g) \cap Segment(h) = {}
  <2>1. \A g, h \in DOMAIN turn : g # h => g < h \/ h < g
    BY <1>2, <1>5
  <2>2. QED
    BY <1>8, <2>1
<1>10. ASSUME NEW p \in DOMAIN build PROVE \E g \in DOMAIN turn : p \in Segment(g)
  <2>1. p \in Nat /\ p < Length * BuildParts
    BY <1>1, <1>2, <1>3
  <2>2. \E g \in 0..(BuildParts - 1) : p \in (Length * g)..(Length * g + Length - 1)
    BY <1>2, <1>3, <1>4, <2>1, Covered
  <2>3. QED
    BY <1>5, <2>2 DEF Segment
<1>11. QED
  BY <1>1, <1>2, <1>3, <1>4, <1>5, <1>6, <1>7, <1>9, <1>10

\* Where the place of a key is.
LEMMA Places ==
  ASSUME JoinTypeOK, Regular, NEW g \in DOMAIN turn, NEW k \in Nat
  PROVE  /\ k % Length \in 0..(Length - 1) /\ Start(g, k) \in Nat
         /\ Start(g, k) \in Segment(g)
         /\ tries[g] \in Nat /\ turn[g] \in 0..Length
         /\ Slot(g, k) = Start(g, k) + tries[g] /\ Slot(g, k) \in Nat
<1>1. Length \in Nat /\ Length > 0 /\ Length * g \in Nat
  BY Segments
<1>2. k % Length \in 0..(Length - 1)
  BY <1>1
<1>3. tries[g] \in Nat /\ turn[g] \in 0..Length
  BY <1>1 DEF JoinTypeOK
<1>4. QED
  BY <1>1, <1>2, <1>3 DEF Start, Slot, Segment

LEMMA HandIsOwn ==
  ASSUME JoinTypeOK, Regular, NEW g \in DOMAIN turn, turn[g] < Length
  PROVE  /\ Length * g + turn[g] \in Segment(g)
         /\ InHand(g) \in Nat /\ InHand(g) \in Values /\ Inputs(g) = {InHand(g)}
<1>1. Length \in Nat /\ Length * g \in Nat /\ turn[g] \in 0..Length
  BY Segments DEF JoinTypeOK
<1>2. Length * g + turn[g] \in Segment(g)
  BY <1>1 DEF Segment
<1>3. QED
  BY <1>2, Segments DEF InHand, Inputs

\* A key never has all slots from its place to the end of the segment taken
\* before it: those slots, and the ones before them up to a free one, hold keys
\* whose places are there too, and with the one in hand these are too many.
LEMMA RoomIsLeft ==
  ASSUME JoinTypeOK, Regular, NEW g \in DOMAIN turn, SegmentIsRight(g),
         turn[g] < Length, InHand(g) > 0
  PROVE  ~(Start(g, InHand(g))..(Length * g + Length - 1) \subseteq Occupied(g))
<1> DEFINE end == Length * g + Length - 1
           hand == Length * g + turn[g]
           Tails == {s \in Segment(g) : s..end \subseteq Occupied(g)}
<1> SUFFICES ASSUME Start(g, InHand(g))..end \subseteq Occupied(g) PROVE FALSE
  OBVIOUS
<1>1. /\ Length \in Nat /\ Length > 0 /\ Length * g \in Nat /\ turn[g] \in Nat
      /\ Segment(g) = (Length * g)..end /\ Segment(g) \in SUBSET Nat
      /\ \A p \in Segment(g) : build[p] \in Nat /\ table[p] \in Nat
  <2>1. turn[g] \in Nat /\ Segment(g) = (Length * g)..end
    BY Places DEF Segment
  <2>2. QED
    BY <2>1, Segments
<1>2. hand \in Segment(g) /\ InHand(g) = build[hand] /\ InHand(g) \in Nat
  BY HandIsOwn DEF InHand
<1>3. Start(g, InHand(g)) \in Tails
  BY <1>2, Places
<1>4. PICK s \in Tails : \A t \in Tails : s <= t
  <2>1. Tails \in SUBSET Nat /\ Tails # {}
    BY <1>1, <1>3
  <2>2. QED
    BY <2>1, LeastOf
<1>5. s \in Nat /\ s \in (Length * g)..end /\ s..end \subseteq Occupied(g)
  BY <1>1, <1>4
<1>6. ASSUME NEW t \in s..end
      PROVE  t \in Occupied(g) /\ table[t] \in Nat /\ Start(g, table[t]) >= s
  <2>1. t \in Occupied(g) /\ t \in Segment(g) /\ table[t] \in Nat /\ t \in Nat
    BY <1>1, <1>5 DEF Occupied
  <2>2. Start(g, table[t]) \in Nat /\ Start(g, table[t]) \in Segment(g)
    BY <2>1, Places
  <2>3. Start(g, table[t])..t \subseteq Occupied(g)
    BY <2>1 DEF SegmentIsRight, Runs
  <2>4. Start(g, table[t])..end \subseteq Occupied(g) \/ Start(g, table[t]) >= s
    BY <1>1, <1>5, <2>1, <2>2, <2>3
  <2>5. Start(g, table[t])..end \subseteq Occupied(g) => Start(g, table[t]) \in Tails
    BY <2>2
  <2>6. QED
    BY <1>4, <1>5, <2>1, <2>2, <2>4, <2>5
<1> DEFINE n == s - Length * g
           Late == {p \in Segment(g) : build[p] > 0 /\ build[p] % Length >= n}
<1>7. n \in 0..(Length - 1) /\ n = s - Length * g
  BY <1>1, <1>5
<1>8. Cardinality(Late) <= Length - n
  <2>1. KeepsToSegment(g)
    BY DEF Regular
  <2>2. QED
    BY <1>7, <2>1 DEF KeepsToSegment
<1>9. IsFiniteSet(Late) /\ Cardinality(Late) \in Nat
  <2>1. IsFiniteSet(Segment(g))
    BY <1>1, FS_Interval
  <2>2. IsFiniteSet(Late)
    BY <2>1, FS_Subset
  <2>3. QED
    BY <2>2, FS_CardinalityType
<1>10. \A k \in Nat : Start(g, k) >= s => k % Length >= n
  <2> SUFFICES ASSUME NEW k \in Nat, Start(g, k) >= s PROVE k % Length >= n
    OBVIOUS
  <2>1. k % Length \in Nat /\ Start(g, k) = (k % Length) + Length * g
    BY <1>1, Places DEF Start
  <2>2. QED
    BY <1>1, <1>5, <2>1
<1>11. hand \in Late
  <2>1. Start(g, InHand(g)) >= s
    BY <1>1, <1>2, <1>3, <1>4, Places
  <2>2. QED
    BY <1>2, <1>10, <2>1
<1>12. PICK f : Placed(g, f)
  BY DEF SegmentIsRight
<1>13. \A t \in s..end : f[t] \in Late \ {hand}
  <2> SUFFICES ASSUME NEW t \in s..end PROVE f[t] \in Late \ {hand}
    OBVIOUS
  <2>1. t \in Occupied(g) /\ f[t] \in Done(g) /\ build[f[t]] = table[t]
    BY <1>6, <1>12 DEF Placed
  <2>2. f[t] \in Segment(g) /\ f[t] < hand /\ build[f[t]] > 0 /\ f[t] # hand
    BY <1>1, <1>2, <2>1 DEF Done
  <2>3. build[f[t]] % Length >= n
    BY <1>6, <1>10, <2>1
  <2>4. QED
    BY <2>2, <2>3
<1>14. PICK h : h = [t \in s..end |-> f[t]]
  OBVIOUS
<1>15. h \in Injection(s..end, Late \ {hand})
  <2>1. h \in [s..end -> Late \ {hand}]
    BY <1>13, <1>14
  <2>2. \A t, u \in s..end : h[t] = h[u] => t = u
    BY <1>6, <1>12, <1>14 DEF Placed
  <2>3. QED
    BY <2>1, <2>2 DEF Injection, IsInjective
<1>16. /\ IsFiniteSet(Late \ {hand})
       /\ Cardinality(Late \ {hand}) = Cardinality(Late) - 1
  BY <1>9, <1>11, FS_RemoveElement
<1>17. Cardinality(s..end) <= Cardinality(Late) - 1
  BY <1>15, <1>16, FS_Injection
<1>18. Cardinality(s..end) = end - s + 1
  BY <1>1, <1>5, FS_Interval
<1> HIDE DEF n, Late
<1>19. QED
  BY <1>1, <1>5, <1>7, <1>8, <1>9, <1>17, <1>18

\* What keeps the slots and the keys that are done keeps the first two parts.
LEMMA TableStays ==
  ASSUME NEW h \in DOMAIN turn, SegmentIsRight(h), build' = build, Done(h)' = Done(h),
         \A s \in Segment(h) : table'[s] = table[s]
  PROVE  /\ (\E f : Placed(h, f))' /\ Runs(h)'
         /\ Occupied(h)' = Occupied(h) /\ Segment(h)' = Segment(h)
         /\ \A k : Start(h, k)' = Start(h, k)
<1>1. Segment(h)' = Segment(h) /\ \A k : Start(h, k)' = Start(h, k)
  BY DEF Length, Segment, Start
<1>2. Occupied(h)' = Occupied(h)
  BY <1>1 DEF Occupied
<1>3. PICK f : Placed(h, f)
  BY DEF SegmentIsRight
<1>4. \A s \in Occupied(h) : s \in Segment(h) /\ table'[s] = table[s]
  BY DEF Occupied
<1>5. Placed(h, f)'
  BY <1>2, <1>3, <1>4 DEF Placed
<1>6. Runs(h)'
  <2> SUFFICES ASSUME NEW s \in Occupied(h)
               PROVE  Start(h, table[s])' <= s /\ Start(h, table[s])'..s \subseteq Occupied(h)
    BY <1>2 DEF Runs
  <2>1. Start(h, table[s])' = Start(h, table[s])
    BY <1>4 DEF Start, Length
  <2>2. QED
    BY <2>1 DEF SegmentIsRight, Runs
<1>7. QED
  BY <1>1, <1>2, <1>5, <1>6

\* A segment that no step touches stays right.
LEMMA Untouched ==
  ASSUME JoinTypeOK, Regular, NEW h \in DOMAIN turn, SegmentIsRight(h),
         build' = build, turn'[h] = turn[h], tries'[h] = tries[h], at'[h] = at[h],
         \A s \in Segment(h) : table'[s] = table[s]
  PROVE  SegmentIsRight(h)'
<1>1. Length' = Length /\ InHand(h)' = InHand(h) /\ Done(h)' = Done(h)
  BY DEF Length, InHand, Done, Segment
<1>2. /\ (\E f : Placed(h, f))' /\ Runs(h)'
      /\ Occupied(h)' = Occupied(h) /\ Segment(h)' = Segment(h)
      /\ \A k : Start(h, k)' = Start(h, k)
  BY <1>1, TableStays
<1>3. Searching(h)'
  <2> SUFFICES ASSUME turn[h] < Length
               PROVE  /\ Slot(h, InHand(h))' \in Segment(h)
                      /\ Start(h, InHand(h))'..(Slot(h, InHand(h))' - 1) \subseteq Occupied(h)
                      /\ at[h] = "write" => (table[Slot(h, InHand(h))])' = 0
    BY <1>1, <1>2 DEF Searching
  <2>1. Start(h, InHand(h))' = Start(h, InHand(h)) /\ Slot(h, InHand(h))' = Slot(h, InHand(h))
    BY <1>1 DEF Start, Slot
  <2>2. QED
    BY <2>1 DEF SegmentIsRight, Searching
<1>4. QED
  BY <1>2, <1>3 DEF SegmentIsRight

\* The search for the next key begins at its place.
LEMMA SearchBegins ==
  ASSUME JoinTypeOK, Regular, NEW g \in DOMAIN turn, turn[g] < Length,
         NextKey(g), build' = build, at'[g] = "test"
  PROVE  /\ Searching(g)' /\ Segment(g)' = Segment(g)
         /\ Done(g)' = IF InHand(g) > 0 THEN Done(g) \cup {Length * g + turn[g]} ELSE Done(g)
<1>1. /\ turn'[g] = turn[g] + 1 /\ tries'[g] = 0
      /\ Length' = Length /\ Segment(g)' = Segment(g)
      /\ Length \in Nat /\ Length * g \in Nat /\ turn[g] \in Nat
      /\ Segment(g) \subseteq Nat
  BY Segments, Places DEF NextKey, JoinTypeOK, Length, Segment
<1>2. Searching(g)'
  <2> SUFFICES ASSUME turn[g] + 1 < Length
               PROVE  /\ Slot(g, InHand(g))' \in Segment(g)
                      /\ Start(g, InHand(g))'..(Slot(g, InHand(g))' - 1) = {}
    BY <1>1 DEF Searching
  <2>1. Length * g + (turn[g] + 1) \in Segment(g)
    BY <1>1 DEF Segment
  <2>2. PICK k \in Nat : k = InHand(g)'
    BY <1>1, <2>1, Segments DEF InHand
  <2>3. Start(g, InHand(g))' = Start(g, k) /\ Slot(g, InHand(g))' = Start(g, k) + 0
    BY <1>1, <2>2 DEF Start, Slot
  <2>4. Start(g, k) \in Nat /\ Start(g, k) \in Segment(g)
    BY Places
  <2>5. QED
    BY <2>3, <2>4
<1>3. Done(g)' = IF InHand(g) > 0 THEN Done(g) \cup {Length * g + turn[g]} ELSE Done(g)
  <2>1. Length * g + turn[g] \in Segment(g)
    BY HandIsOwn
  <2>2. \A p \in Segment(g) :
          p < Length * g + turn'[g] <=> p < Length * g + turn[g] \/ p = Length * g + turn[g]
    BY <1>1
  <2>3. Done(g)' = {p \in Segment(g) : p < Length * g + turn'[g] /\ build[p] > 0}
    BY <1>1 DEF Done
  <2>4. QED
    BY <2>1, <2>2, <2>3 DEF Done, InHand
<1>4. QED
  BY <1>1, <1>2, <1>3

LEMMA TestFreeStep ==
  ASSUME JoinTypeOK, Regular, NEW g \in DOMAIN turn, SegmentIsRight(g), TestFree(g)
  PROVE  SegmentIsRight(g)'
<1>1. /\ UNCHANGED <<build, table, turn, tries>> /\ turn[g] < Length
      /\ \E k \in Inputs(g) : 0 \in Seen(Slot(g, k))
  BY DEF TestFree, Works
<1>2. /\ Length' = Length /\ InHand(g)' = InHand(g) /\ Done(g)' = Done(g)
      /\ \A k : Start(g, k)' = Start(g, k) /\ Slot(g, k)' = Slot(g, k)
  BY <1>1 DEF Length, InHand, Done, Segment, Start, Slot
<1>3. /\ (\E f : Placed(g, f))' /\ Runs(g)'
      /\ Occupied(g)' = Occupied(g) /\ Segment(g)' = Segment(g)
  BY <1>1, <1>2, TableStays
<1>4. Slot(g, InHand(g)) \in Segment(g) /\ Segment(g) \subseteq DOMAIN table
  BY <1>1, Segments DEF SegmentIsRight, Searching
<1>5. table[Slot(g, InHand(g))] = 0
  BY <1>1, <1>4, HandIsOwn DEF Seen
<1>6. PICK k : k = InHand(g)
  OBVIOUS
<1>7. Start(g, InHand(g))' = Start(g, k) /\ Slot(g, InHand(g))' = Slot(g, k)
  BY <1>2, <1>6 DEF Start, Slot
<1>8. Searching(g)'
  BY <1>1, <1>2, <1>3, <1>5, <1>6, <1>7 DEF SegmentIsRight, Searching
<1>9. QED
  BY <1>3, <1>8 DEF SegmentIsRight

\* The search goes on, and comes to the end only with a 0 in hand, which no slot
\* has to hold.
LEMMA TestTakenStep ==
  ASSUME JoinTypeOK, Regular, NEW g \in DOMAIN turn, SegmentIsRight(g), TestTaken(g)
  PROVE  SegmentIsRight(g)'
<1>1. /\ UNCHANGED <<build, table, at>> /\ turn[g] < Length /\ at[g] = "test"
      /\ \E k \in Inputs(g) : \E v \in Seen(Slot(g, k)) : v > 0
  BY DEF TestTaken, Works
<1>2. PICK k \in Nat : k = InHand(g)
  BY <1>1, HandIsOwn
<1>3. /\ Slot(g, k) \in Segment(g) /\ Slot(g, k) \in DOMAIN table
      /\ Start(g, k)..(Slot(g, k) - 1) \subseteq Occupied(g)
  BY <1>1, <1>2, Segments DEF SegmentIsRight, Searching
<1>4. Slot(g, k) \in Occupied(g)
  BY <1>1, <1>2, <1>3, HandIsOwn DEF Seen, Occupied
<1>5. /\ Length \in Nat /\ Length > 0 /\ Length * g \in Nat
      /\ Slot(g, k) = Start(g, k) + tries[g] /\ Slot(g, k) \in Nat
      /\ Start(g, k) \in Nat /\ Start(g, k) \in Segment(g) /\ tries[g] \in Nat
      /\ Segment(g) = (Length * g)..(Length * g + Length - 1)
  BY Segments, Places DEF Segment
<1>6. Start(g, k)..Slot(g, k) \subseteq Occupied(g)
  BY <1>3, <1>4, <1>5
<1>7. k > 0 => Slot(g, k) < Length * g + Length - 1
  <2> SUFFICES ASSUME k > 0, Slot(g, k) = Length * g + Length - 1 PROVE FALSE
    BY <1>3, <1>5
  <2>1. QED
    BY <1>1, <1>2, <1>6, RoomIsLeft
<1>8. k = 0 => Start(g, k) = Length * g
  BY <1>5 DEF Start
<1>9. CASE tries[g] + 1 < Length
  <2>1. turn' = turn /\ tries'[g] = tries[g] + 1
    BY <1>9 DEF TestTaken, JoinTypeOK
  <2>2. /\ Length' = Length /\ InHand(g)' = InHand(g) /\ Done(g)' = Done(g)
    BY <1>1, <2>1 DEF Length, InHand, Done, Segment
  <2>3. /\ (\E f : Placed(g, f))' /\ Runs(g)'
        /\ Occupied(g)' = Occupied(g) /\ Segment(g)' = Segment(g)
        /\ \A x : Start(g, x)' = Start(g, x)
    BY <1>1, <2>2, TableStays
  <2>4. Start(g, InHand(g))' = Start(g, k) /\ Slot(g, InHand(g))' = Slot(g, k) + 1
    BY <1>1, <1>2, <1>5, <2>1, <2>2 DEF Start, Slot
  <2>5. Slot(g, k) + 1 \in Segment(g)
    BY <1>3, <1>5, <1>7, <1>8, <1>9
  <2>6. Searching(g)'
    BY <1>1, <1>5, <1>6, <2>2, <2>3, <2>4, <2>5 DEF Searching
  <2>7. QED
    BY <2>3, <2>6 DEF SegmentIsRight
<1>10. CASE ~(tries[g] + 1 < Length)
  <2>1. NextKey(g)
    BY <1>10 DEF TestTaken
  <2>2. k = 0
    BY <1>3, <1>5, <1>7, <1>10
  <2>3. /\ Searching(g)' /\ Segment(g)' = Segment(g) /\ Done(g)' = Done(g)
    <3>1. build' = build /\ at'[g] = "test" /\ ~(InHand(g) > 0)
      BY <1>1, <1>2, <2>2
    <3>2. QED
      BY <1>1, <2>1, <3>1, SearchBegins
  <2>4. (\E f : Placed(g, f))' /\ Runs(g)'
    BY <1>1, <2>3, TableStays
  <2>5. QED
    BY <2>3, <2>4 DEF SegmentIsRight
<1>11. QED
  BY <1>9, <1>10

\* The key goes into a slot that is free still.
LEMMA WriteStep ==
  ASSUME JoinTypeOK, Regular, NEW g \in DOMAIN turn, SegmentIsRight(g), Write(g)
  PROVE  /\ SegmentIsRight(g)'
         /\ \A s \in DOMAIN table : s \notin Segment(g) => table'[s] = table[s]
<1>1. /\ UNCHANGED build /\ turn[g] < Length /\ at[g] = "write" /\ at'[g] = "test"
      /\ NextKey(g)
  BY DEF Write, Works, JoinTypeOK
<1>2. PICK k \in Nat : k = InHand(g)
  BY <1>1, HandIsOwn
<1>3. PICK slot \in Segment(g) : slot = Slot(g, k)
  BY <1>1, <1>2 DEF SegmentIsRight, Searching
<1>4. /\ table[slot] = 0 /\ slot \in DOMAIN table /\ slot \in Nat
      /\ Start(g, k)..(slot - 1) \subseteq Occupied(g)
      /\ Start(g, k) \in Nat /\ Start(g, k) <= slot
  <2>1. /\ table[slot] = 0 /\ Start(g, k)..(slot - 1) \subseteq Occupied(g)
    BY <1>1, <1>2, <1>3 DEF SegmentIsRight, Searching
  <2>2. slot = Start(g, k) + tries[g] /\ tries[g] \in Nat /\ Start(g, k) \in Nat
    BY <1>3, Places
  <2>3. slot \in DOMAIN table /\ slot \in Nat
    BY Segments
  <2>4. QED
    BY <2>1, <2>2, <2>3
<1>5. /\ table'[slot] = k
      /\ \A s \in DOMAIN table : s # slot => table'[s] = table[s]
  BY <1>1, <1>2, <1>3, <1>4, HandIsOwn DEF Write
<1>6. /\ Searching(g)' /\ Segment(g)' = Segment(g)
      /\ Done(g)' = IF k > 0 THEN Done(g) \cup {Length * g + turn[g]} ELSE Done(g)
  BY <1>1, <1>2, SearchBegins
<1>7. Segment(g) \subseteq DOMAIN table
  BY Segments
<1>8. CASE k = 0
  <2>1. \A s \in Segment(g) : table'[s] = table[s]
    BY <1>4, <1>5, <1>7, <1>8
  <2>2. (\E f : Placed(g, f))' /\ Runs(g)'
    BY <1>1, <1>6, <1>8, <2>1, TableStays
  <2>3. QED
    BY <1>3, <1>5, <1>6, <2>2 DEF SegmentIsRight
<1>9. CASE k > 0
  <2>1. PICK hand : hand = Length * g + turn[g]
    OBVIOUS
  <2>2. /\ hand \in Segment(g) /\ build[hand] = k /\ hand \notin Done(g)
        /\ Done(g)' = Done(g) \cup {hand}
    <3>1. hand \in Segment(g) /\ build[hand] = k
      BY <1>1, <1>2, <2>1, HandIsOwn DEF InHand
    <3>2. hand \in Nat
      BY <3>1, Segments
    <3>3. hand \notin Done(g)
      BY <2>1, <3>2 DEF Done
    <3>4. QED
      BY <1>6, <1>9, <2>1, <3>1, <3>3
  <2>3. slot \notin Occupied(g)
    BY <1>4 DEF Occupied
  <2>4. /\ Occupied(g)' = Occupied(g) \cup {slot}
        /\ \A s \in Occupied(g) : table'[s] = table[s]
    <3>1. \A s \in Segment(g) : table'[s] > 0 <=> table[s] > 0 \/ s = slot
      BY <1>4, <1>5, <1>7, <1>9
    <3>2. Occupied(g)' = {s \in Segment(g) : table'[s] > 0}
      BY <1>6 DEF Occupied
    <3>3. \A s \in Occupied(g) : s \in Segment(g)
      BY DEF Occupied
    <3>4. QED
      BY <1>3, <1>5, <1>7, <2>3, <3>1, <3>2, <3>3 DEF Occupied
  <2>5. PICK f : Placed(g, f)
    BY DEF SegmentIsRight
  <2>6. PICK h : h = [s \in Occupied(g) \cup {slot} |-> IF s = slot THEN hand ELSE f[s]]
    OBVIOUS
  <2>7. h[slot] = hand /\ \A s \in Occupied(g) : h[s] = f[s] /\ f[s] \in Done(g)
    BY <2>3, <2>5, <2>6 DEF Placed
  <2>8. Placed(g, h)'
    <3>1. h \in [Occupied(g) \cup {slot} -> Done(g) \cup {hand}]
      BY <2>6, <2>7
    <3>2. \A s, t \in Occupied(g) \cup {slot} : h[s] = h[t] => s = t
      BY <2>2, <2>5, <2>7 DEF Placed
    <3>3. \A p \in Done(g) \cup {hand} : \E s \in Occupied(g) \cup {slot} : h[s] = p
      BY <2>5, <2>7 DEF Placed
    <3>4. \A s \in Occupied(g) \cup {slot} : table'[s] = build[h[s]]
      BY <1>5, <2>2, <2>4, <2>5, <2>7 DEF Placed
    <3>5. QED
      BY <1>1, <2>2, <2>4, <3>1, <3>2, <3>3, <3>4 DEF Placed
  <2>9. Runs(g)'
    <3>1. \A x : Start(g, x)' = Start(g, x)
      BY <1>1 DEF Start, Length
    <3>2. ASSUME NEW s \in Occupied(g) \cup {slot}
          PROVE  /\ Start(g, table'[s]) <= s
                 /\ Start(g, table'[s])..s \subseteq Occupied(g) \cup {slot}
      <4>1. CASE s = slot
        <5>1. Start(g, k)..slot \subseteq Occupied(g) \cup {slot}
          BY <1>4
        <5>2. QED
          BY <1>4, <1>5, <4>1, <5>1
      <4>2. CASE s \in Occupied(g)
        BY <2>4, <4>2 DEF SegmentIsRight, Runs
      <4>3. QED
        BY <4>1, <4>2
    <3>3. \A s : Start(g, table[s])' = Start(g, table'[s])
      BY <1>1 DEF Start, Length
    <3>4. QED
      BY <2>4, <3>2, <3>3 DEF Runs
  <2>10. QED
    BY <1>3, <1>5, <1>6, <2>8, <2>9 DEF SegmentIsRight
<1>10. QED
  BY <1>2, <1>8, <1>9

LEMMA BuildStays == JoinTypeOK /\ BuildIsRight /\ [JoinNext]_joinVars => BuildIsRight'
<1> SUFFICES ASSUME JoinTypeOK, BuildIsRight, [JoinNext]_joinVars PROVE BuildIsRight'
  OBVIOUS
<1>1. build' = build /\ DOMAIN turn' = DOMAIN turn
  BY DEF JoinNext, TestFree, TestTaken, NextKey, Write, EndBuild, ProbeItem, joinVars
<1>2. Regular' <=> Regular
  BY <1>1 DEF Regular, BuildSizeFits, KeepsToSegment, Segment, Length
<1> SUFFICES ASSUME Regular, NEW h \in DOMAIN turn PROVE SegmentIsRight(h)'
  BY <1>1, <1>2 DEF BuildIsRight
<1>3. \A g \in DOMAIN turn : SegmentIsRight(g)
  BY DEF BuildIsRight
<1>4. \A s \in Segment(h) : s \in DOMAIN table /\ \A g \in DOMAIN turn : s \in Segment(g) => g = h
  BY Segments
<1>5. ASSUME NEW g \in DOMAIN turn, TestFree(g) \/ TestTaken(g) \/ Write(g)
      PROVE  SegmentIsRight(h)'
  <2>1. CASE g = h
    BY <1>3, <1>5, <2>1, TestFreeStep, TestTakenStep, WriteStep
  <2>2. CASE g # h
    <3>1. turn'[h] = turn[h] /\ tries'[h] = tries[h] /\ at'[h] = at[h]
      BY <1>5, <2>2 DEF TestFree, TestTaken, Write, NextKey, JoinTypeOK
    <3>2. \A s \in Segment(h) : table'[s] = table[s]
      <4>1. CASE Write(g)
        BY <1>3, <1>4, <2>2, <4>1, WriteStep
      <4>2. CASE ~Write(g)
        BY <1>5, <4>2 DEF TestFree, TestTaken
      <4>3. QED
        BY <4>1, <4>2
    <3>3. QED
      BY <1>1, <1>3, <3>1, <3>2, Untouched
  <2>3. QED
    BY <2>1, <2>2
<1>6. CASE UNCHANGED <<table, at, turn, tries>>
  BY <1>1, <1>3, <1>6, Untouched
<1>7. QED
  BY <1>5, <1>6 DEF JoinNext, EndBuild, ProbeItem, joinVars

LEMMA BuildBegins == JoinInit => BuildIsRight
<1> SUFFICES ASSUME JoinInit, Regular, NEW g \in DOMAIN turn PROVE SegmentIsRight(g)
  BY DEF BuildIsRight
<1>1. JoinTypeOK
  BY JoinInitially
<1>2. /\ turn[g] = 0 /\ tries[g] = 0 /\ at[g] = "test"
      /\ \A s \in DOMAIN table : table[s] = 0
  BY DEF JoinInit
<1>3. Segment(g) \subseteq DOMAIN table /\ Segment(g) \subseteq Nat /\ Length * g \in Nat
  BY <1>1, Segments
<1>4. Occupied(g) = {}
  BY <1>2, <1>3 DEF Occupied
<1>5. Done(g) = {}
  <2>1. \A p \in Segment(g) : p >= Length * g
    BY <1>1, Segments DEF Segment
  <2>2. Length * g + turn[g] = Length * g
    BY <1>2, <1>3
  <2>3. QED
    BY <1>3, <2>1, <2>2 DEF Done
<1>6. PICK f : f = [s \in {} |-> s]
  OBVIOUS
<1>7. Placed(g, f)
  BY <1>4, <1>5, <1>6 DEF Placed
<1>8. Runs(g)
  BY <1>4 DEF Runs
<1>9. Searching(g)
  <2> SUFFICES ASSUME turn[g] < Length
               PROVE  /\ Slot(g, InHand(g)) \in Segment(g)
                      /\ Start(g, InHand(g))..(Slot(g, InHand(g)) - 1) = {}
    BY <1>2 DEF Searching
  <2>1. PICK k \in Nat : k = InHand(g)
    BY <1>1, HandIsOwn
  <2>2. Start(g, k) \in Nat /\ Start(g, k) \in Segment(g) /\ Slot(g, k) = Start(g, k) + tries[g]
    BY <1>1, Places
  <2>3. QED
    BY <1>2, <2>1, <2>2
<1>10. QED
  BY <1>7, <1>8, <1>9 DEF SegmentIsRight

-----------------------------------------------------------------------------
(* The probe side: what is not written yet is 0, and what is written is    *)
(* what a search finds.                                                    *)

ProbeIsRight ==
  /\ phase = "build" => left = Items(probeInputSize) /\ \A p \in DOMAIN result : result[p] = 0
  /\ phase = "probe" =>
       /\ \A g \in DOMAIN turn : turn[g] = Length
       /\ \A p \in DOMAIN probe : result[p] \in {0, Find(probe[p])}
       /\ \A g \in Items(probeInputSize) \ left :
            \A p \in Reach(g) \cap DOMAIN probe : result[p] = Find(probe[p])

LEMMA ProbeFits == JoinTypeOK => DOMAIN probe \subseteq DOMAIN result
<1> SUFFICES ASSUME JoinTypeOK PROVE DOMAIN probe \subseteq DOMAIN result
  OBVIOUS
<1>1. /\ Size(build) \in Nat /\ Size(probe) \in Nat /\ DOMAIN probe = 0..(Size(probe) - 1)
  BY Arrays DEF JoinTypeOK
<1>2. probeInputSize \in Nat /\ probeInputSize >= Size(probe)
  BY <1>1 DEF probeInputSize, Max2
<1>3. DOMAIN result = 0..(probeInputSize - 1)
  BY DEF JoinTypeOK
<1>4. QED
  BY <1>1, <1>2, <1>3

LEMMA ProbeStays == JoinTypeOK /\ ProbeIsRight /\ [JoinNext]_joinVars => ProbeIsRight'
<1> SUFFICES ASSUME JoinTypeOK, ProbeIsRight, [JoinNext]_joinVars PROVE ProbeIsRight'
  OBVIOUS
<1>1. /\ UNCHANGED <<build, probe>>
      /\ probeInputSize' = probeInputSize /\ Length' = Length
      /\ Items(probeInputSize)' = Items(probeInputSize) /\ \A g : Reach(g)' = Reach(g)
  <2>1. UNCHANGED <<build, probe>>
    BY DEF JoinNext, TestFree, TestTaken, Write, EndBuild, ProbeItem, joinVars
  <2>2. QED
    BY <2>1 DEF probeInputSize, Length, Items, Reach, ProbeLength
<1>2. ASSUME UNCHANGED table PROVE \A k : Find(k)' = Find(k)
  BY <1>2 DEF Find
<1>3. ASSUME NEW g \in DOMAIN turn, TestFree(g) \/ TestTaken(g) \/ Write(g)
      PROVE  ProbeIsRight'
  <2>1. phase = "build" /\ UNCHANGED <<phase, result, left>>
    BY <1>3 DEF TestFree, TestTaken, Write, Works
  <2>2. QED
    BY <1>1, <2>1 DEF ProbeIsRight
<1>4. CASE EndBuild
  <2>1. /\ phase = "build" /\ phase' = "probe" /\ UNCHANGED <<table, result, turn, left>>
        /\ \A g \in DOMAIN turn : turn[g] = Length
    BY <1>4 DEF EndBuild
  <2>2. left = Items(probeInputSize) /\ \A p \in DOMAIN probe : result[p] = 0
    BY <2>1, ProbeFits DEF ProbeIsRight
  <2>3. QED
    BY <1>1, <2>1, <2>2 DEF ProbeIsRight
<1>5. ASSUME NEW g \in left, ProbeItem(g) PROVE ProbeIsRight'
  <2>1. /\ phase = "probe" /\ UNCHANGED <<phase, table, turn>> /\ left' = left \ {g}
        /\ \A p \in DOMAIN result : p \notin Reach(g) => result'[p] = result[p]
        /\ \A p \in DOMAIN result : p \in Reach(g) /\ p \in DOMAIN probe =>
             result'[p] = Find(probe[p])
    BY <1>5 DEF ProbeItem
  <2>2. \A p \in DOMAIN probe : result'[p] \in {0, Find(probe[p])}
    BY <2>1, ProbeFits DEF ProbeIsRight
  <2>3. \A h \in Items(probeInputSize) \ left' :
          \A p \in Reach(h) \cap DOMAIN probe : result'[p] = Find(probe[p])
    BY <2>1, ProbeFits DEF ProbeIsRight
  <2>4. \A h \in DOMAIN turn : turn[h] = Length
    BY <2>1 DEF ProbeIsRight
  <2>5. phase' = "probe" /\ turn' = turn
    BY <2>1
  <2>6. \A p \in DOMAIN probe : Find(probe[p])' = Find(probe[p])
    BY <1>1, <2>1 DEF Find
  <2>7. QED
    BY <1>1, <2>2, <2>3, <2>4, <2>5, <2>6 DEF ProbeIsRight
<1>6. CASE UNCHANGED joinVars
  BY <1>1, <1>2, <1>6 DEF ProbeIsRight, joinVars
<1>7. QED
  BY <1>3, <1>4, <1>5, <1>6 DEF JoinNext

LEMMA ProbeBegins == JoinInit => ProbeIsRight
BY DEF JoinInit, ProbeIsRight

JoinInv == JoinTypeOK /\ BuildIsRight /\ ProbeIsRight

LEMMA JoinInductive == JoinSpec => []JoinInv
<1>1. JoinInit => JoinInv
  BY JoinInitially, BuildBegins, ProbeBegins DEF JoinInv
<1>2. JoinInv /\ [JoinNext]_joinVars => JoinInv'
  BY JoinTypesStay, BuildStays, ProbeStays DEF JoinInv
<1>3. QED
  BY <1>1, <1>2, PTL DEF JoinSpec

\* All buffers of the join hold what their kernels can write there: in particular
\* a result is a slot of the table or NotFound, never the place a search in vain
\* came to (hashProbe.cl:10-13).
THEOREM JoinTypeCorrect == JoinSpec => []JoinTypeOK
BY JoinInductive, PTL DEF JoinInv

\* The work items of hashBuild test and write slots without an atomic operation
\* (hashBuild.cl:8-10) and lose no key, double none and overwrite none, whatever
\* their order, if no segment has more keys from a slot on than it has slots.
THEOREM KeysKept == JoinSpec => []KeysAreKept
<1>1. JoinInv => KeysAreKept
  <2> SUFFICES ASSUME JoinInv, Regular, phase = "probe",
                      NEW g \in DOMAIN turn, NEW k \in Values \ {0}
               PROVE  Cardinality({s \in Segment(g) : table[s] = k})
                        = Cardinality({p \in Segment(g) : build[p] = k})
    BY DEF KeysAreKept
  <2> DEFINE slots == {s \in Segment(g) : table[s] = k}
             places == {p \in Segment(g) : build[p] = k}
  <2>1. JoinTypeOK /\ SegmentIsRight(g) /\ turn[g] = Length
    BY DEF JoinInv, BuildIsRight, ProbeIsRight
  <2>2. k \in Nat /\ k > 0
    BY HashJoinAssumption
  <2>3. /\ Length \in Nat /\ Length * g \in Nat
        /\ Segment(g) = (Length * g)..(Length * g + Length - 1)
    BY <2>1, Segments DEF Segment
  <2>4. slots \subseteq Occupied(g) /\ places \subseteq Done(g)
    BY <2>1, <2>2, <2>3 DEF Occupied, Done
  <2>5. PICK f : Placed(g, f)
    BY <2>1 DEF SegmentIsRight
  <2>6. \A p \in Done(g) : p \in Segment(g)
    BY DEF Done
  <2>7. \A s \in Occupied(g) : s \in Segment(g)
    BY DEF Occupied
  <2>8. PICK h : h = [s \in slots |-> f[s]]
    OBVIOUS
  <2>9. h \in Bijection(slots, places)
    <3>1. h \in [slots -> places]
      BY <2>4, <2>5, <2>6, <2>8 DEF Placed
    <3>2. \A s, t \in slots : h[s] = h[t] => s = t
      BY <2>4, <2>5, <2>8 DEF Placed
    <3>3. \A p \in places : \E s \in slots : h[s] = p
      BY <2>4, <2>5, <2>7, <2>8 DEF Placed
    <3>4. QED
      BY <3>1, <3>2, <3>3 DEF Bijection, Injection, Surjection, IsInjective
  <2>10. IsFiniteSet(slots)
    <3>1. IsFiniteSet(Segment(g))
      BY <2>3, FS_Interval
    <3>2. QED
      BY <3>1, FS_Subset
  <2>11. ExistsBijection(slots, places)
    BY <2>9 DEF ExistsBijection
  <2>12. Cardinality(places) = Cardinality(slots)
    BY <2>10, <2>11, FS_Bijection
  <2>13. QED
    BY <2>12
<1>2. QED
  BY <1>1, JoinInductive, PTL

\* The slots that are taken in the end hold the keys of the build side.
LEMMA TableIsBuildSide ==
  ASSUME JoinInv, Regular, phase = "probe", NEW k \in Nat, k > 0
  PROVE  (\E s \in DOMAIN table : table[s] = k) <=> (\E q \in DOMAIN build : build[q] = k)
<1>1. /\ JoinTypeOK /\ DOMAIN build = DOMAIN table
      /\ \A g \in DOMAIN turn : SegmentIsRight(g) /\ turn[g] = Length
      /\ \A p \in DOMAIN build : \E g \in DOMAIN turn : p \in Segment(g)
      /\ \A g \in DOMAIN turn : Segment(g) \subseteq DOMAIN build
  BY Segments DEF JoinInv, BuildIsRight, ProbeIsRight
<1>2. ASSUME NEW s \in DOMAIN table, table[s] = k PROVE \E q \in DOMAIN build : build[q] = k
  <2>1. PICK g \in DOMAIN turn : s \in Segment(g)
    BY <1>1
  <2>2. PICK f : Placed(g, f)
    BY <1>1 DEF SegmentIsRight
  <2>3. s \in Occupied(g)
    BY <1>2, <2>1 DEF Occupied
  <2>4. f[s] \in Segment(g) /\ build[f[s]] = k
    BY <1>2, <2>2, <2>3 DEF Placed, Done
  <2>5. QED
    BY <1>1, <2>4
<1>3. ASSUME NEW q \in DOMAIN build, build[q] = k PROVE \E s \in DOMAIN table : table[s] = k
  <2>1. PICK g \in DOMAIN turn : q \in Segment(g)
    BY <1>1
  <2>2. PICK f : Placed(g, f)
    BY <1>1 DEF SegmentIsRight
  <2>3. q \in Done(g)
    <3>1. Length \in Nat /\ Length * g \in Nat
          /\ Segment(g) = (Length * g)..(Length * g + Length - 1)
      BY <1>1, Segments DEF Segment
    <3>2. q < Length * g + turn[g]
      BY <1>1, <2>1, <3>1
    <3>3. QED
      BY <1>3, <2>1, <3>2 DEF Done
  <2>4. PICK s \in Occupied(g) : f[s] = q
    BY <2>2, <2>3 DEF Placed
  <2>5. s \in Segment(g) /\ table[s] = k
    BY <1>3, <2>2, <2>4 DEF Placed, Occupied
  <2>6. QED
    BY <1>1, <2>5
<1>4. QED
  BY <1>2, <1>3

\* The join tells for each position of the probe side whether and where the table
\* has its key, also with more work items than parts, and of sizes that do not fit
\* it never shows a slot other than 0 with another key (hashProbe.cl:3-15).
THEOREM JoinRight == JoinSpec => []JoinIsRight
<1>1. JoinInv => JoinIsRight
  <2> SUFFICES ASSUME JoinInv PROVE JoinIsRight
    OBVIOUS
  <2>1. JoinTypeOK /\ ProbeIsRight
    BY DEF JoinInv
  <2>2. /\ Size(probe) \in Nat /\ DOMAIN probe = 0..(Size(probe) - 1)
        /\ \A p \in DOMAIN probe : probe[p] \in Nat
    BY <2>1, Arrays DEF JoinTypeOK
  <2>3. ASSUME NEW p \in DOMAIN probe, result[p] > 0 PROVE table[result[p]] = probe[p]
    <3>1. p \in DOMAIN result
      BY <2>1, ProbeFits
    <3>2. phase = "probe"
      BY <2>1, <2>3, <3>1 DEF ProbeIsRight, JoinTypeOK
    <3>3. result[p] = Find(probe[p])
      BY <2>1, <2>3, <3>2 DEF ProbeIsRight
    <3>4. QED
      BY <2>1, <2>3, <3>3, FindIs DEF NotFound
  <2>4. ASSUME Regular, ProbeSizeFits, phase = "probe", left = {},
               NEW p \in DOMAIN probe, probe[p] > 0
        PROVE  IF \E q \in DOMAIN build : build[q] = probe[p]
               THEN result[p] # NotFound /\ table[result[p]] = probe[p]
               ELSE result[p] = NotFound
    <3>1. PICK g \in Items(probeInputSize) : p \in Reach(g)
      <4>1. ProbeParts \in Nat /\ ProbeParts > 0
        BY HashJoinAssumption
      <4>2. Size(probe) = ProbeLength * ProbeParts /\ ProbeLength \in Nat
        BY <2>2, <2>4, <4>1, NoRest DEF ProbeSizeFits, ProbeLength
      <4>3. p \in Nat /\ p < ProbeLength * ProbeParts
        BY <2>2, <4>2
      <4>4. ProbeLength > 0
        <5>1. ProbeLength = 0 => ProbeLength * ProbeParts = 0
          BY <4>1
        <5>2. QED
          BY <4>2, <4>3, <5>1
      <4>5. \E g \in 0..(ProbeParts - 1) :
              p \in (ProbeLength * g)..(ProbeLength * g + ProbeLength - 1)
        BY <4>1, <4>2, <4>3, <4>4, Covered
      <4>6. QED
        BY <2>4, <4>5 DEF ProbeSizeFits, Reach
    <3>2. result[p] = Find(probe[p])
      BY <2>1, <2>4, <3>1 DEF ProbeIsRight
    <3>3. Find(probe[p]) # NotFound => Find(probe[p]) \in DOMAIN table /\ table[Find(probe[p])] = probe[p]
      BY <2>1, FindIs
    <3>4. Find(probe[p]) \in DOMAIN table => Find(probe[p]) # NotFound
      BY <2>1 DEF JoinTypeOK, NotFound
    <3>5. (\E s \in DOMAIN table : table[s] = probe[p])
            <=> (\E q \in DOMAIN build : build[q] = probe[p])
      BY <2>2, <2>4, TableIsBuildSide
    <3>6. (\E s \in DOMAIN table : table[s] = probe[p]) <=> Find(probe[p]) # NotFound
      BY <2>1, <3>4, FindIs
    <3>7. QED
      BY <3>2, <3>3, <3>5, <3>6
  <2>5. QED
    BY <2>3, <2>4 DEF JoinIsRight
<1>2. QED
  BY <1>1, JoinInductive, PTL


-----------------------------------------------------------------------------
(* Query 6: arithmetic.                                                    *)

\* Induction over a set instead of a formula
LEMMA StepByStep ==
  ASSUME NEW n \in Nat, NEW S, 0 \in S, \A i \in 1..n : i - 1 \in S => i \in S
  PROVE  \A i \in 0..n : i \in S
<1> DEFINE Bad == {i \in 0..n : i \notin S}
<1> SUFFICES ASSUME Bad # {} PROVE FALSE
  OBVIOUS
<1>1. PICK i \in Bad : \A k \in Bad : i <= k
  <2>1. Bad \in SUBSET Nat
    OBVIOUS
  <2>2. QED
    BY <2>1, LeastOf
<1>2. i # 0
  BY <1>1
<1>3. i \in 1..n /\ i - 1 \in 0..n /\ i - 1 \notin Bad
  BY <1>1, <1>2
<1>4. QED
  BY <1>1, <1>3

LEMMA Division ==
  ASSUME NEW n \in Nat, NEW d \in Nat, d > 0
  PROVE  /\ n = d * (n \div d) + (n % d) /\ n % d \in 0..(d - 1)
         /\ n \div d \in Nat /\ n % d \in Nat
OBVIOUS

LEMMA InOrder ==
  ASSUME NEW d \in Nat, NEW a \in Nat, NEW b \in Nat, a <= b
  PROVE  d * a <= d * b /\ d * a \in Nat /\ d * b \in Nat
<1>1. PICK m \in Nat : b = a + m
  BY b - a \in Nat
<1>2. d * b = d * a + d * m /\ d * m >= 0
  BY <1>1
<1>3. QED
  BY <1>2

LEMMA Quotient ==
  ASSUME NEW n \in Nat, NEW d \in Nat, d > 0, NEW q \in Nat, NEW r \in Nat,
         n = d * q + r, r < d
  PROVE  n \div d = q /\ n % d = r
<1>1. PICK p \in Nat, t \in Nat : p = n \div d /\ t = n % d /\ n = d * p + t /\ t < d
  BY Division
<1>2. ~(p < q)
  <2> SUFFICES ASSUME p + 1 <= q PROVE FALSE
    BY <1>1
  <2>1. d * (p + 1) <= d * q /\ d * (p + 1) = d * p + d
    BY <1>1, InOrder
  <2>2. QED
    BY <1>1, <2>1
<1>3. ~(q < p)
  <2> SUFFICES ASSUME q + 1 <= p PROVE FALSE
    BY <1>1
  <2>1. d * (q + 1) <= d * p /\ d * (q + 1) = d * q + d
    BY <1>1, InOrder
  <2>2. QED
    BY <1>1, <2>1
<1>4. p = q
  BY <1>2, <1>3
<1>5. t = r
  BY <1>1, <1>4
<1>6. QED
  BY <1>1, <1>4, <1>5

\* A sum may be cut to the width of a word as often as one likes.
LEMMA CutTwice ==
  ASSUME NEW m \in Nat, m > 0, NEW a \in Nat, NEW b \in Nat
  PROVE  ((a % m) + b) % m = (a + b) % m
<1>1. PICK q \in Nat, r \in Nat : a % m = r /\ a = m * q + r
  BY Division
<1>2. r + b \in Nat
  OBVIOUS
<1>3. PICK p \in Nat, t \in Nat : (r + b) % m = t /\ r + b = m * p + t /\ t < m
  BY <1>2, Division
<1>4. a + b = m * (q + p) + t
  <2>1. m * (q + p) = m * q + m * p
    OBVIOUS
  <2>2. QED
    BY <1>1, <1>3, <2>1
<1>5. (a + b) % m = t
  <2>1. a + b \in Nat /\ q + p \in Nat
    OBVIOUS
  <2>2. QED
    BY <1>3, <1>4, <2>1, Quotient
<1>6. QED
  BY <1>1, <1>3, <1>5

LEMMA FitsIn ==
  ASSUME NEW m \in Nat, m > 0, NEW a \in 0..(m - 1)
  PROVE  a % m = a
<1>1. a = m * 0 + a
  OBVIOUS
<1>2. QED
  BY <1>1, Quotient

-----------------------------------------------------------------------------
(* Sums.                                                                   *)

Sums(f, n, s) ==
  /\ s \in [0..n -> Nat] /\ s[0] = 0
  /\ \A i \in 1..n : s[i] = s[i - 1] + f[i]

\* The loop has a sum after each round.
LEMMA SumsExist ==
  ASSUME NEW f, NEW n \in Nat, \A i \in 1..n : f[i] \in Nat
  PROVE  \E s : Sums(f, n, s)
<1> DEFINE Bad == {m \in 0..n : ~\E s : Sums(f, m, s)}
<1> SUFFICES ASSUME Bad # {} PROVE FALSE
  OBVIOUS
<1>1. PICK m \in Bad : \A k \in Bad : m <= k
  <2>1. Bad \in SUBSET Nat
    OBVIOUS
  <2>2. QED
    BY <2>1, LeastOf
<1>2. m # 0
  <2>1. PICK s : s = [i \in 0..0 |-> 0]
    OBVIOUS
  <2>2. Sums(f, 0, s)
    BY <2>1 DEF Sums
  <2>3. QED
    BY <2>2
<1>3. m \in 1..n /\ m - 1 \in 0..n /\ m - 1 \notin Bad
  BY <1>1, <1>2
<1>4. PICK s : Sums(f, m - 1, s)
  BY <1>3
<1>5. PICK r : r = [i \in 0..m |-> IF i = m THEN s[m - 1] + f[m] ELSE s[i]]
  OBVIOUS
<1>6. s[m - 1] \in Nat /\ f[m] \in Nat
  BY <1>3, <1>4 DEF Sums
<1>7. Sums(f, m, r)
  <2>1. \A i \in 0..m : i = m \/ i \in 0..(m - 1)
    BY <1>3
  <2>2. \A i \in 0..(m - 1) : r[i] = s[i] /\ r[i] \in Nat
    BY <1>3, <1>4, <1>5 DEF Sums
  <2>3. r[m] = s[m - 1] + f[m]
    BY <1>3, <1>5
  <2>4. r \in [0..m -> Nat]
    <3>1. \A i \in 0..m : r[i] \in Nat
      BY <1>6, <2>1, <2>2, <2>3
    <3>2. r = [i \in 0..m |-> r[i]]
      BY <1>5
    <3>3. QED
      BY <3>1, <3>2
  <2>5. r[0] = 0
    BY <1>3, <1>4, <2>2 DEF Sums
  <2>6. \A i \in 1..m : r[i] = r[i - 1] + f[i]
    <3> SUFFICES ASSUME NEW i \in 1..m PROVE r[i] = r[i - 1] + f[i]
      OBVIOUS
    <3>1. CASE i = m
      BY <1>3, <2>2, <2>3, <3>1
    <3>2. CASE i # m
      <4>1. i \in 1..(m - 1) /\ i \in 0..(m - 1) /\ i - 1 \in 0..(m - 1)
        BY <1>3, <3>2
      <4>2. QED
        BY <1>4, <2>2, <4>1 DEF Sums
    <3>3. QED
      BY <3>1, <3>2
  <2>7. QED
    BY <2>4, <2>5, <2>6 DEF Sums
<1>8. QED
  BY <1>1, <1>7

\* and no other.
Follows(f, n, s) == \A i \in 0..n : s[i] = IF i = 0 THEN 0 ELSE s[i - 1] + f[i]

LEMMA OneSum ==
  ASSUME NEW f, NEW n \in Nat, NEW m \in Nat, n <= m,
         NEW s, Follows(f, n, s), NEW r, Follows(f, m, r)
  PROVE  \A i \in 0..n : s[i] = r[i]
<1> DEFINE Bad == {i \in 0..n : s[i] # r[i]}
<1> SUFFICES ASSUME Bad # {} PROVE FALSE
  OBVIOUS
<1>1. PICK i \in Bad : \A k \in Bad : i <= k
  <2>1. Bad \in SUBSET Nat
    OBVIOUS
  <2>2. QED
    BY <2>1, LeastOf
<1>2. i # 0
  BY <1>1 DEF Follows
<1>3. i \in 1..n /\ i \in 0..m /\ i - 1 \in 0..n /\ i - 1 \notin Bad
  BY <1>1, <1>2
<1>4. s[i] = s[i - 1] + f[i] /\ r[i] = r[i - 1] + f[i]
  BY <1>2, <1>3 DEF Follows
<1>5. QED
  BY <1>1, <1>3, <1>4

LEMMA SumsFollow ==
  ASSUME NEW f, NEW n \in Nat, NEW s, Sums(f, n, s)
  PROVE  Follows(f, n, s)
BY DEF Sums, Follows

LEMMA SumIs ==
  ASSUME NEW f, NEW n \in Nat, NEW s, Sums(f, n, s)
  PROVE  SumUpTo(f, n) = s[n]
<1>1. s = [i \in 0..n |-> IF i = 0 THEN 0 ELSE s[i - 1] + f[i]]
  <2>1. \A i \in 0..n : s[i] = IF i = 0 THEN 0 ELSE s[i - 1] + f[i]
    BY DEF Sums
  <2>2. s = [i \in 0..n |-> s[i]]
    BY DEF Sums
  <2>3. QED
    BY <2>1, <2>2
<1> DEFINE sum == CHOOSE r : r = [i \in 0..n |-> IF i = 0 THEN 0 ELSE r[i - 1] + f[i]]
<1>2. sum = [i \in 0..n |-> IF i = 0 THEN 0 ELSE sum[i - 1] + f[i]]
  BY <1>1
<1>3. PICK r : r = sum
  OBVIOUS
<1>4. SumUpTo(f, n) = r[n]
  BY <1>3 DEF SumUpTo
<1>5. r = [i \in 0..n |-> IF i = 0 THEN 0 ELSE r[i - 1] + f[i]]
  BY <1>2, <1>3
<1>6. Follows(f, n, r)
  BY <1>5 DEF Follows
<1>7. \A i \in 0..n : s[i] = r[i]
  BY <1>6, SumsFollow, OneSum
<1>8. QED
  BY <1>4, <1>7

\* Sums as they are used from here on
LEMMA SumSteps ==
  ASSUME NEW f, NEW n \in Nat, \A i \in 1..n : f[i] \in Nat
  PROVE  /\ \A i \in 0..n : SumUpTo(f, i) \in Nat
         /\ SumUpTo(f, 0) = 0
         /\ \A i \in 1..n : SumUpTo(f, i) = SumUpTo(f, i - 1) + f[i]
<1>1. PICK s : Sums(f, n, s)
  BY SumsExist
<1>2. ASSUME NEW i \in 0..n PROVE SumUpTo(f, i) = s[i] /\ s[i] \in Nat
  <2>1. i \in Nat /\ \A k \in 1..i : f[k] \in Nat
    OBVIOUS
  <2>2. PICK r : Sums(f, i, r)
    BY <2>1, SumsExist
  <2>3. SumUpTo(f, i) = r[i]
    BY <2>1, <2>2, SumIs
  <2>4. Follows(f, n, s) /\ Follows(f, i, r) /\ i <= n
    BY <1>1, <2>1, <2>2, SumsFollow
  <2>5. \A k \in 0..i : r[k] = s[k]
    BY <2>1, <2>4, OneSum
  <2>6. QED
    BY <1>1, <2>1, <2>3, <2>5 DEF Sums
<1>3. SumUpTo(f, 0) = 0
  BY <1>1, <1>2 DEF Sums
<1>4. \A i \in 1..n : i - 1 \in 0..n /\ i \in 0..n
  OBVIOUS
<1>5. \A i \in 1..n : SumUpTo(f, i) = SumUpTo(f, i - 1) + f[i]
  BY <1>1, <1>2, <1>4 DEF Sums
<1>6. QED
  BY <1>2, <1>3, <1>5

LEMMA SameSum ==
  ASSUME NEW n \in Nat, NEW f, \A i \in 1..n : f[i] \in Nat, NEW g, \A i \in 1..n : g[i] = f[i]
  PROVE  SumUpTo(g, n) = SumUpTo(f, n)
<1> DEFINE S == {i \in 0..n : SumUpTo(g, i) = SumUpTo(f, i)}
<1>1. \A i \in 1..n : g[i] \in Nat
  OBVIOUS
<1>2. /\ \A i \in 0..n : SumUpTo(f, i) \in Nat /\ SumUpTo(g, i) \in Nat
      /\ SumUpTo(f, 0) = 0 /\ SumUpTo(g, 0) = 0
      /\ \A i \in 1..n : SumUpTo(f, i) = SumUpTo(f, i - 1) + f[i]
      /\ \A i \in 1..n : SumUpTo(g, i) = SumUpTo(g, i - 1) + g[i]
  BY <1>1, SumSteps
<1>3. 0 \in S
  BY <1>2
<1>4. ASSUME NEW i \in 1..n, i - 1 \in S PROVE i \in S
  BY <1>2, <1>4
<1> HIDE DEF S
<1>5. \A i \in 0..n : i \in S
  BY <1>3, <1>4, StepByStep
<1>6. QED
  BY <1>5 DEF S

LEMMA NothingAdded ==
  ASSUME NEW n \in Nat, NEW f, \A i \in 1..n : f[i] = 0
  PROVE  SumUpTo(f, n) = 0
<1> DEFINE S == {i \in 0..n : SumUpTo(f, i) = 0}
<1>1. /\ SumUpTo(f, 0) = 0
      /\ \A i \in 1..n : SumUpTo(f, i) = SumUpTo(f, i - 1) + f[i]
  <2>1. \A i \in 1..n : f[i] \in Nat
    OBVIOUS
  <2>2. QED
    BY <2>1, SumSteps
<1>2. 0 \in S
  BY <1>1
<1>3. ASSUME NEW i \in 1..n, i - 1 \in S PROVE i \in S
  BY <1>1, <1>3
<1> HIDE DEF S
<1>4. \A i \in 0..n : i \in S
  BY <1>2, <1>3, StepByStep
<1>5. QED
  BY <1>4 DEF S

\* One term grows by v, wherever it stands.
Grown(f, g, n, x, v) ==
  \A i \in 1..n : f[i] \in Nat /\ g[i] = IF i = x THEN f[i] + v ELSE f[i]

LEMMA TermAdded ==
  ASSUME NEW n \in Nat, NEW x \in 1..n, NEW v \in Nat, NEW f, NEW g, Grown(f, g, n, x, v)
  PROVE  SumUpTo(g, n) = SumUpTo(f, n) + v
<1> DEFINE S == {i \in 0..n : SumUpTo(g, i) = IF i < x THEN SumUpTo(f, i) ELSE SumUpTo(f, i) + v}
<1>1. /\ \A i \in 1..n : f[i] \in Nat /\ g[i] \in Nat
      /\ \A i \in 1..n : g[i] = IF i = x THEN f[i] + v ELSE f[i]
  BY DEF Grown
<1>2. /\ \A i \in 0..n : SumUpTo(f, i) \in Nat /\ SumUpTo(g, i) \in Nat
      /\ SumUpTo(f, 0) = 0 /\ SumUpTo(g, 0) = 0
      /\ \A i \in 1..n : SumUpTo(f, i) = SumUpTo(f, i - 1) + f[i]
      /\ \A i \in 1..n : SumUpTo(g, i) = SumUpTo(g, i - 1) + g[i]
  BY <1>1, SumSteps
<1>3. 0 \in S
  BY <1>2
<1>4. ASSUME NEW i \in 1..n, i - 1 \in S PROVE i \in S
  <2>1. i - 1 \in 0..n /\ i \in 0..n
    OBVIOUS
  <2>2. SumUpTo(f, i - 1) \in Nat /\ f[i] \in Nat
    BY <1>1, <1>2, <2>1
  <2>3. SumUpTo(g, i - 1) = IF i - 1 < x THEN SumUpTo(f, i - 1) ELSE SumUpTo(f, i - 1) + v
    BY <1>4
  <2>4. SumUpTo(g, i) = IF i < x THEN SumUpTo(f, i) ELSE SumUpTo(f, i) + v
    <3>1. CASE i < x
      BY <1>1, <1>2, <2>2, <2>3, <3>1
    <3>2. CASE i = x
      BY <1>1, <1>2, <2>2, <2>3, <3>2
    <3>3. CASE i > x
      BY <1>1, <1>2, <2>2, <2>3, <3>3
    <3>4. QED
      BY <3>1, <3>2, <3>3
  <2>5. QED
    BY <2>1, <2>4
<1> HIDE DEF S
<1>5. \A i \in 0..n : i \in S
  BY <1>3, <1>4, StepByStep
<1>6. n \in S
  BY <1>5
<1>7. QED
  BY <1>6 DEF S

\* g has what comes in f behind n.
Behind(f, g, n, b) ==
  /\ \A i \in 1..(n + b) : f[i] \in Nat
  /\ \A i \in 1..b : g[i] = f[n + i]

LEMMA SumGoesOn ==
  ASSUME NEW n \in Nat, NEW b \in Nat, NEW f, NEW g, Behind(f, g, n, b)
  PROVE  SumUpTo(f, n + b) = SumUpTo(f, n) + SumUpTo(g, b) /\ SumUpTo(g, b) \in Nat
<1> DEFINE S == {i \in 0..b : SumUpTo(f, n + i) = SumUpTo(f, n) + SumUpTo(g, i)}
<1>1. /\ \A i \in 1..(n + b) : f[i] \in Nat
      /\ \A i \in 1..b : g[i] = f[n + i] /\ g[i] \in Nat
  BY DEF Behind
<1>2. /\ \A i \in 0..b : SumUpTo(g, i) \in Nat
      /\ SumUpTo(g, 0) = 0
      /\ \A i \in 1..b : SumUpTo(g, i) = SumUpTo(g, i - 1) + g[i]
  BY <1>1, SumSteps
<1>3. /\ \A i \in 0..(n + b) : SumUpTo(f, i) \in Nat
      /\ \A i \in 1..(n + b) : SumUpTo(f, i) = SumUpTo(f, i - 1) + f[i]
  BY <1>1, SumSteps
<1>4. 0 \in S
  <2>1. n + 0 = n /\ n \in 0..(n + b)
    OBVIOUS
  <2>2. QED
    BY <1>2, <1>3, <2>1
<1>5. ASSUME NEW i \in 1..b, i - 1 \in S PROVE i \in S
  <2>1. n + i \in 1..(n + b) /\ (n + i) - 1 = n + (i - 1) /\ n \in 0..(n + b) /\ i - 1 \in 0..b
    OBVIOUS
  <2>2. SumUpTo(f, n + i) = SumUpTo(f, n + (i - 1)) + f[n + i]
    BY <1>3, <2>1
  <2>3. SumUpTo(f, n + (i - 1)) = SumUpTo(f, n) + SumUpTo(g, i - 1)
    BY <1>5
  <2>4. SumUpTo(g, i) = SumUpTo(g, i - 1) + f[n + i]
    BY <1>1, <1>2
  <2>5. SumUpTo(f, n) \in Nat /\ SumUpTo(g, i - 1) \in Nat /\ f[n + i] \in Nat
    BY <1>1, <1>2, <1>3, <2>1
  <2>6. QED
    BY <2>2, <2>3, <2>4, <2>5
<1> HIDE DEF S
<1>6. \A i \in 0..b : i \in S
  BY <1>4, <1>5, StepByStep
<1>7. QED
  BY <1>2, <1>6 DEF S

\* Summed up in portions of b
PortionSums(f, g, b, n) ==
  /\ \A i \in 1..(b * n) : f[i] \in Nat
  /\ \A j \in 1..n : g[j] = SumUpTo([i \in 1..b |-> f[b * (j - 1) + i]], b)

LEMMA InPortions ==
  ASSUME NEW b \in Nat, NEW n \in Nat, NEW f, NEW g, PortionSums(f, g, b, n)
  PROVE  /\ SumUpTo(g, n) = SumUpTo(f, b * n)
         /\ \A j \in 1..n : g[j] \in Nat
<1>1. ASSUME NEW j \in 1..n
      PROVE  /\ b * (j - 1) \in Nat /\ b * j \in Nat /\ b * j = b * (j - 1) + b /\ b * j <= b * n
             /\ SumUpTo(f, b * j) = SumUpTo(f, b * (j - 1)) + g[j] /\ g[j] \in Nat
  <2>1. PICK c \in Nat : c = b * (j - 1)
    OBVIOUS
  <2>2. b * j = c + b
    BY <2>1
  <2>3. b * j <= b * n
    BY InOrder
  <2>4. \A i \in 1..(c + b) : f[i] \in Nat
    <3>1. b * n \in Nat /\ c + b <= b * n
      BY <2>2, <2>3
    <3>2. QED
      BY <3>1 DEF PortionSums
  <2>5. PICK h : h = [i \in 1..b |-> f[c + i]]
    OBVIOUS
  <2>6. Behind(f, h, c, b)
    BY <2>4, <2>5 DEF Behind
  <2>7. SumUpTo(f, c + b) = SumUpTo(f, c) + SumUpTo(h, b) /\ SumUpTo(h, b) \in Nat
    BY <2>6, SumGoesOn
  <2>8. g[j] = SumUpTo(h, b)
    BY <2>1, <2>5 DEF PortionSums
  <2>9. QED
    BY <2>1, <2>2, <2>3, <2>7, <2>8
<1>2. \A j \in 1..n : g[j] \in Nat
  BY <1>1
<1>3. /\ SumUpTo(g, 0) = 0
      /\ \A j \in 1..n : SumUpTo(g, j) = SumUpTo(g, j - 1) + g[j]
  BY <1>2, SumSteps
<1> DEFINE S == {j \in 0..n : SumUpTo(g, j) = SumUpTo(f, b * j)}
<1>4. 0 \in S
  <2>1. SumUpTo(f, 0) = 0
    <3>1. b * n \in Nat
      OBVIOUS
    <3>2. QED
      BY <3>1, SumSteps DEF PortionSums
  <2>2. b * 0 = 0
    OBVIOUS
  <2>3. QED
    BY <1>3, <2>1, <2>2
<1>5. ASSUME NEW j \in 1..n, j - 1 \in S PROVE j \in S
  BY <1>1, <1>3, <1>5
<1> HIDE DEF S
<1>6. \A j \in 0..n : j \in S
  BY <1>4, <1>5, StepByStep
<1>7. n \in S
  BY <1>6
<1>8. QED
  BY <1>2, <1>7 DEF S

-----------------------------------------------------------------------------
(* The rows and what the kernels read of them.                             *)

LEMMA Tabled ==
  ASSUME lineitem \in Tables
  PROVE  /\ Block \in Nat /\ Block > 0 /\ 2^Block \in Nat /\ 2^Block > 0
         /\ RowsRead \in Nat /\ RowsRead <= Len(lineitem) /\ Len(lineitem) \in Nat
         /\ RowsRead \div Block \in Nat /\ RowsRead = Block * (RowsRead \div Block)
<1>1. Block \in Nat /\ Block > 0 /\ 2^Block \in Nat /\ 2^Block > 0
  BY Query6Assumption
<1>2. Len(lineitem) \in Nat
  BY Query6Assumption
<1>3. PICK n \in Nat, b \in Nat : n = Len(lineitem) /\ b = Block /\ b > 0
  BY <1>1, <1>2
<1>4. PICK q \in Nat, r \in Nat : n = b * q + r /\ r = n % b
  BY <1>3, Division
<1>5. RowsRead = b * q /\ b * q \in Nat /\ b * q <= n
  BY <1>3, <1>4 DEF RowsRead
<1>6. (b * q) \div b = q
  <2>1. b * q = b * q + 0
    BY <1>5
  <2>2. QED
    BY <1>3, <1>5, <2>1, Quotient
<1>7. QED
  BY <1>1, <1>3, <1>5, <1>6

\* A block ends with an upper half, because a block has an even number of rows.
LEMMA EndsEven ==
  ASSUME NEW p \in Nat, p > 0, Row(p) = Block - 1
  PROVE  p % 2 = 0
<1>1. PICK b \in Nat, h \in Nat : b = Block /\ b > 0 /\ b = 2 * h
  <2>1. Block \in Nat /\ Block > 0 /\ Block % 2 = 0
    BY Query6Assumption
  <2>2. Block = 2 * (Block \div 2) + (Block % 2) /\ Block \div 2 \in Nat
    BY <2>1, Division
  <2>3. QED
    BY <2>1, <2>2
<1>2. p - 1 \in Nat
  OBVIOUS
<1>3. PICK q \in Nat : p - 1 = b * q + (b - 1)
  <2>1. p - 1 = b * ((p - 1) \div b) + ((p - 1) % b) /\ (p - 1) \div b \in Nat
    BY <1>1, <1>2, Division
  <2>2. QED
    BY <1>1, <2>1 DEF Row
<1>4. p = 2 * (h * (q + 1)) + 0
  <2>1. p = b * (q + 1)
    BY <1>1, <1>3
  <2>2. b * (q + 1) = 2 * (h * (q + 1))
    BY <1>1
  <2>3. h * (q + 1) \in Nat
    BY <1>1
  <2>4. QED
    BY <2>1, <2>2, <2>3
<1>5. h * (q + 1) \in Nat
  BY <1>1
<1>6. QED
  BY <1>4, <1>5, Quotient

LEMMA PlaceOf ==
  ASSUME lineitem \in Tables, NEW p \in Positions
  PROVE  /\ BlockOf(p) \in Blocks /\ Row(p) \in Bits
         /\ Block * (BlockOf(p) - 1) + Row(p) + 1 = p
<1>1. PICK b \in Nat, n \in Nat : /\ b = Block /\ b > 0 /\ n = RowsRead \div Block
                                  /\ RowsRead = b * n /\ b * n \in Nat
  BY Tabled
<1>2. p \in Nat /\ p > 0 /\ p <= b * n /\ p - 1 \in Nat
  BY <1>1 DEF Positions
<1>3. PICK q \in Nat, r \in 0..(b - 1) :
        p - 1 = b * q + r /\ q = (p - 1) \div b /\ r = (p - 1) % b
  BY <1>1, <1>2, Division
<1>4. q < n
  <2> SUFFICES ASSUME n <= q PROVE FALSE
    BY <1>1, <1>3
  <2>1. b * n <= b * q
    BY <1>1, <1>3, InOrder
  <2>2. b * q \in Nat
    OBVIOUS
  <2>3. QED
    BY <1>2, <1>3, <2>1, <2>2
<1>5. BlockOf(p) = q + 1 /\ Row(p) = r
  BY <1>1, <1>3 DEF BlockOf, Row
<1>6. QED
  BY <1>1, <1>2, <1>3, <1>4, <1>5 DEF Blocks, Bits

LEMMA BlocksAreWords ==
  ASSUME lineitem \in Tables
  PROVE  Blocks \subseteq Positions
<1>1. PICK b \in Nat, n \in Nat : b > 0 /\ n = RowsRead \div Block /\ RowsRead = b * n
  BY Tabled
<1>2. n <= b * n
  <2>1. PICK m \in Nat : b = 1 + m
    BY <1>1, b - 1 \in Nat
  <2>2. b * n = n + m * n /\ m * n \in Nat
    BY <2>1
  <2>3. QED
    BY <2>2
<1>3. b * n \in Nat
  OBVIOUS
<1>4. QED
  BY <1>1, <1>2, <1>3 DEF Blocks, Positions

\* What is read of a number is a lower half, or 0.
LEMMA Halves ==
  ASSUME lineitem \in Tables, NEW m \in {"m1", "m2"}, NEW p \in Positions
  PROVE  /\ Column(Base(m))[p] \in Word
         /\ p % 2 = 0 => Column(Base(m))[p] = 0
<1>1. PICK name : name = Base(m)
  OBVIOUS
<1>2. name \in {"discount", "extendedprice"}
  BY <1>1 DEF Base
<1>3. PICK column : column = [r \in DOMAIN lineitem |-> lineitem[r][name]]
  OBVIOUS
<1>4. \A r \in 1..Len(lineitem) : lineitem[r][name] \in Word
  <2> DEFINE Rows == [shipdate : Word, discount : Word, quantity : Word, extendedprice : Word]
  <2>1. lineitem \in Seq(Rows)
    BY Query6Assumption
  <2>2. \A w \in Rows : w[name] \in Word
    BY <1>2
  <2> HIDE DEF Rows
  <2>3. QED
    BY <2>1, <2>2
<1>5. Len(lineitem) \in Nat /\ DOMAIN lineitem = 1..Len(lineitem)
  BY Query6Assumption
<1>6. column \in [1..Len(lineitem) -> Word]
  BY <1>3, <1>4, <1>5
<1>7. Len(column) = Len(lineitem)
  BY <1>5, <1>6
<1>8. Column(name) = AsInts(column)
  BY <1>2, <1>3 DEF Column
<1>9. p \in 1..Len(lineitem) /\ p \in 1..(2 * Len(lineitem))
  BY <1>5, Tabled DEF Positions
<1>10. Column(name)[p] = IF p % 2 = 1 THEN column[(p + 1) \div 2] ELSE 0
  BY <1>7, <1>8, <1>9 DEF AsInts
<1>11. (p + 1) \div 2 \in 1..Len(lineitem)
  BY <1>5, <1>9
<1>12. 0 \in Word
  BY Tabled DEF Word
<1>13. QED
  BY <1>1, <1>6, <1>9, <1>10, <1>11, <1>12

\* All of it hangs on the rows and the layer, which stay.
LEMMA RowsStay ==
  ASSUME lineitem' = lineitem, layer' = layer
  PROVE  /\ RowsRead' = RowsRead /\ Blocks' = Blocks /\ Positions' = Positions
         /\ \A k, p : Passes(k, p)' = Passes(k, p)
         /\ \A name : Column(name)' = Column(name)
<1>1. RowsRead' = RowsRead
  BY DEF RowsRead
<1>2. Blocks' = Blocks /\ Positions' = Positions
  BY <1>1 DEF Blocks, Positions
<1>3. \A name : Column(name)' = Column(name)
  BY DEF Column
<1>4. \A k, p : Passes(k, p)' = Passes(k, p)
  BY DEF Passes, Column, AsInts, Between, LessThan, Number
<1>5. QED
  BY <1>1, <1>2, <1>3, <1>4

-----------------------------------------------------------------------------
(* The run of the query.                                                   *)

Passing(p) == \A k \in Selections : Passes(k, p)

\* The bits of k lead to the rows that pass the tests of S.
Selects(k, S) ==
  \A j \in Blocks :
    bitmap[k][j] = {i \in Bits : \A s \in S : Passes(s, Block * (j - 1) + i + 1)}

Taken(m) == \A p \in Positions : words[m][p] = IF Passing(p) THEN Column(Base(m))[p] ELSE 0

\* What the kernels that have ended left behind.
Bitmaps ==
  /\ place > 0 => Selects("s1", {"s1"})
  /\ place > 1 => Selects("s2", {"s2"})
  /\ place > 2 => Selects("s3", {"s3"})
  /\ place > 3 => Selects("l1", {"s1", "s3"})
  /\ place > 4 => Selects("l2", Selections)

Products ==
  /\ place > 5 => Taken("m1")
  /\ place > 6 => Taken("m2")
  /\ place > 7 => \A p \in Positions : words["a"][p] = Contribution(p)
  /\ IF place > 8 THEN results = words["a"] ELSE results = <<>>

\* The blocks that have been added
Added == [j \in Blocks |-> IF j \in pending THEN 0 ELSE SumOf(j)]

Summing ==
  /\ place < 9 => pending = Blocks
  /\ place > 9 => pending = {}
  /\ revenue = SumUpTo(Added, RowsRead \div Block) % 2^Block

QueryInv == lineitem \in Tables /\ QueryTypeOK /\ Bitmaps /\ Products /\ Summing

LEMMA StartsAt ==
  ASSUME place \in 0..Len(Queue), NEW k, Starts(k)
  PROVE  /\ place \in 0..9 /\ place + 1 \in 0..Len(Queue) /\ Len(Queue) = 10
         /\ k = "s1" => place = 0
         /\ k = "s2" => place = 1
         /\ k = "s3" => place = 2
         /\ k = "l1" => place = 3
         /\ k = "l2" => place = 4
         /\ k = "m1" => place = 5
         /\ k = "m2" => place = 6
         /\ k = "a" => place = 7
         /\ k = "end" => place = 8
         /\ k = "ag" => place = 9
<1>1. Len(Queue) = 10
  BY DEF Queue
<1>2. place \in 0..9 /\ Queue[place + 1] = k
  BY <1>1 DEF Starts
<1>3. /\ Queue[1] = "s1" /\ Queue[2] = "s2" /\ Queue[3] = "s3" /\ Queue[4] = "l1"
      /\ Queue[5] = "l2" /\ Queue[6] = "m1" /\ Queue[7] = "m2" /\ Queue[8] = "a"
      /\ Queue[9] = "end" /\ Queue[10] = "ag"
  BY DEF Queue
<1>4. \/ place = 0 \/ place = 1 \/ place = 2 \/ place = 3 \/ place = 4
      \/ place = 5 \/ place = 6 \/ place = 7 \/ place = 8 \/ place = 9
  BY <1>2
<1>5. QED
  BY <1>1, <1>2, <1>3, <1>4

LEMMA QueryTypes ==
  ASSUME QueryInv
  PROVE  /\ lineitem \in Tables /\ place \in 0..Len(Queue) /\ pending \subseteq Blocks
         /\ bitmap \in [Selections \cup {"l1", "l2"} -> [Positions -> SUBSET Bits]]
         /\ words \in [{"m1", "m2", "a"} -> [Positions -> Word]]
         /\ revenue \in Word /\ layer \in {0, 1} /\ 0 \in Word
<1>1. Layers \subseteq {0, 1}
  BY Query6Assumption
<1>2. 0 \in Word
  BY Tabled DEF Word, QueryInv
<1>3. QED
  BY <1>1, <1>2 DEF QueryInv, QueryTypeOK

LEMMA QueryInitially == QueryInit => QueryInv
<1> SUFFICES ASSUME QueryInit PROVE QueryInv
  OBVIOUS
<1>1. lineitem \in Tables /\ layer \in Layers
  BY DEF QueryInit
<1>2. place = 0 /\ pending = Blocks /\ revenue = 0 /\ results = <<>>
  BY DEF QueryInit
<1>3. 0 \in Word /\ RowsRead \div Block \in Nat /\ 2^Block \in Nat /\ 2^Block > 0
  BY <1>1, Tabled DEF Word
<1>4. /\ bitmap \in [Selections \cup {"l1", "l2"} -> [Positions -> SUBSET Bits]]
      /\ words \in [{"m1", "m2", "a"} -> [Positions -> Word]]
  BY <1>3 DEF QueryInit
<1>5. Len(Queue) = 10
  BY DEF Queue
<1>6. QueryTypeOK
  BY <1>1, <1>2, <1>3, <1>4, <1>5 DEF QueryTypeOK
<1>7. Summing
  <2>1. \A i \in 1..(RowsRead \div Block) : Added[i] = 0
    BY <1>2 DEF Added, Blocks
  <2>2. SumUpTo(Added, RowsRead \div Block) = 0
    BY <1>3, <2>1, NothingAdded
  <2>3. 0 % 2^Block = 0
    <3>1. 0 \in 0..(2^Block - 1)
      BY <1>3
    <3>2. QED
      BY <1>3, <3>1, FitsIn
  <2>4. QED
    BY <1>2, <2>2, <2>3 DEF Summing
<1>8. Bitmaps /\ Products
  BY <1>2 DEF Bitmaps, Products
<1>9. QED
  BY <1>1, <1>6, <1>7, <1>8 DEF QueryInv

\* What a kernel leaves alone stays as it was.
LEMMA BitmapsStay ==
  ASSUME lineitem' = lineitem, layer' = layer, NEW k, bitmap'[k] = bitmap[k], NEW S, Selects(k, S)
  PROVE  Selects(k, S)'
<1>1. Blocks' = Blocks /\ \A s, p : Passes(s, p)' = Passes(s, p)
  BY RowsStay
<1>2. QED
  BY <1>1 DEF Selects, Bits

LEMMA PassingStays ==
  ASSUME lineitem' = lineitem, layer' = layer
  PROVE  \A p : Passing(p)' <=> Passing(p)
<1>1. \A k, p : Passes(k, p)' = Passes(k, p)
  BY RowsStay
<1>2. QED
  BY <1>1 DEF Passing

LEMMA ContributionStays ==
  ASSUME lineitem' = lineitem, layer' = layer
  PROVE  \A p : Contribution(p)' = Contribution(p)
<1>1. /\ \A k, p : Passes(k, p)' = Passes(k, p)
      /\ \A name : Column(name)' = Column(name)
  BY RowsStay
<1>2. QED
  BY <1>1 DEF Contribution

LEMMA TakenStays ==
  ASSUME lineitem' = lineitem, layer' = layer, NEW m, words'[m] = words[m], Taken(m)
  PROVE  Taken(m)'
<1>1. Positions' = Positions /\ \A name : Column(name)' = Column(name)
  BY RowsStay
<1>2. \A p : Passing(p)' <=> Passing(p)
  BY PassingStays
<1>3. QED
  BY <1>1, <1>2 DEF Taken, Base

LEMMA SummingStays ==
  ASSUME lineitem' = lineitem, layer' = layer, place < 9, place' <= 9, place' \in Nat,
         QueryInv, pending' = pending, revenue' = revenue
  PROVE  Summing'
<1>1. RowsRead' = RowsRead /\ Blocks' = Blocks
  BY RowsStay
<1>2. pending = Blocks /\ pending' = Blocks'
  BY <1>1 DEF Summing, QueryInv
<1>3. RowsRead \div Block \in Nat
  BY Tabled DEF QueryInv
<1>4. /\ \A i \in 1..(RowsRead \div Block) : Added[i] = 0
      /\ \A i \in 1..(RowsRead \div Block) : Added'[i] = 0
  <2>1. \A i \in Blocks : Added[i] = 0
    BY <1>2 DEF Added
  <2>2. \A i \in Blocks : Added'[i] = 0
    BY <1>1, <1>2 DEF Added
  <2>3. QED
    BY <2>1, <2>2 DEF Blocks
<1>5. PICK f, g : f = Added /\ g = Added'
  OBVIOUS
<1>6. SumUpTo(f, RowsRead \div Block) = 0 /\ SumUpTo(g, RowsRead \div Block) = 0
  BY <1>3, <1>4, <1>5, NothingAdded
<1>7. SumUpTo(Added, RowsRead \div Block)' = SumUpTo(Added', RowsRead' \div Block)
  BY DEF SumUpTo
<1>8. SumUpTo(Added, RowsRead \div Block)' = SumUpTo(Added, RowsRead \div Block)
  BY <1>1, <1>5, <1>6, <1>7
<1>9. QED
  BY <1>1, <1>2, <1>8 DEF Summing, QueryInv

LEMMA SelectKeeps ==
  ASSUME QueryInv, NEW k \in Selections, Select(k)
  PROVE  QueryInv'
<1>1. /\ lineitem \in Tables /\ place \in 0..Len(Queue) /\ pending \subseteq Blocks
      /\ bitmap \in [Selections \cup {"l1", "l2"} -> [Positions -> SUBSET Bits]]
      /\ words \in [{"m1", "m2", "a"} -> [Positions -> Word]] /\ revenue \in Word
  BY QueryTypes
<1>2. /\ Starts(k) /\ place' = place + 1
      /\ lineitem' = lineitem /\ layer' = layer /\ pending' = pending
      /\ words' = words /\ revenue' = revenue /\ results' = results
  BY DEF Select
<1>3. bitmap' = [bitmap EXCEPT ![k] =
                   [w \in Positions |-> IF w \in Blocks THEN Selected(k, w) ELSE {}]]
  BY DEF Select
<1>4. /\ place \in 0..2 /\ place + 1 \in 0..Len(Queue)
      /\ k = "s1" => place = 0
      /\ k = "s2" => place = 1
      /\ k = "s3" => place = 2
  BY <1>1, <1>2, StartsAt DEF Selections
<1>5. RowsRead' = RowsRead /\ Blocks' = Blocks /\ Positions' = Positions
  BY <1>2, RowsStay
<1>6. \A w \in Positions : Selected(k, w) \in SUBSET Bits
  BY DEF Selected
<1>7. QueryTypeOK'
  BY <1>1, <1>2, <1>3, <1>4, <1>5, <1>6 DEF QueryTypeOK, QueryInv
<1>8. Selects(k, {k})'
  <2>1. \A j \in Blocks : bitmap'[k][j] = Selected(k, j)
    BY <1>1, <1>3, BlocksAreWords
  <2>2. \A s, p : Passes(s, p)' = Passes(s, p)
    BY <1>2, RowsStay
  <2>3. \A j \in Blocks : Selected(k, j) = {i \in Bits : \A s \in {k} : Passes(s, Block * (j - 1) + i + 1)}
    BY DEF Selected
  <2>4. QED
    BY <1>5, <2>1, <2>2, <2>3 DEF Selects, Bits
<1>9. ASSUME NEW s \in Selections, s # k, Selects(s, {s}) PROVE Selects(s, {s})'
  <2>1. bitmap'[s] = bitmap[s]
    BY <1>1, <1>3, <1>9
  <2>2. QED
    BY <1>2, <1>9, <2>1, BitmapsStay
<1>10. Bitmaps'
  <2>1. /\ place > 0 => Selects("s1", {"s1"})
        /\ place > 1 => Selects("s2", {"s2"})
    BY DEF QueryInv, Bitmaps
  <2>2. CASE k = "s1"
    BY <1>2, <1>4, <1>8, <2>2 DEF Bitmaps
  <2>3. CASE k = "s2"
    BY <1>2, <1>4, <1>8, <1>9, <2>1, <2>3 DEF Bitmaps, Selections
  <2>4. CASE k = "s3"
    BY <1>2, <1>4, <1>8, <1>9, <2>1, <2>4 DEF Bitmaps, Selections
  <2>5. QED
    BY <2>2, <2>3, <2>4 DEF Selections
<1>11. Products'
  BY <1>2, <1>4 DEF QueryInv, Products
<1>12. Summing'
  BY <1>2, <1>4, SummingStays
<1>13. QED
  BY <1>1, <1>2, <1>7, <1>10, <1>11, <1>12 DEF QueryInv

LEMMA AndKeeps ==
  ASSUME QueryInv, NEW l \in {"l1", "l2"}, And(l)
  PROVE  QueryInv'
<1>1. /\ lineitem \in Tables /\ place \in 0..Len(Queue) /\ pending \subseteq Blocks
      /\ bitmap \in [Selections \cup {"l1", "l2"} -> [Positions -> SUBSET Bits]]
      /\ words \in [{"m1", "m2", "a"} -> [Positions -> Word]] /\ revenue \in Word
  BY QueryTypes
<1>2. /\ Starts(l) /\ place' = place + 1
      /\ lineitem' = lineitem /\ layer' = layer /\ pending' = pending
      /\ words' = words /\ revenue' = revenue /\ results' = results
  BY DEF And
<1> DEFINE a == Anded(l)[1]
           b == Anded(l)[2]
<1>3. bitmap' = [bitmap EXCEPT ![l] = [w \in Positions |-> bitmap[a][w] \cap bitmap[b][w]]]
  BY DEF And
<1>4. /\ a \in Selections \cup {"l1", "l2"} /\ b \in Selections \cup {"l1", "l2"}
      /\ l = "l1" => a = "s1" /\ b = "s3"
      /\ l = "l2" => a = "l1" /\ b = "s2"
  BY DEF Anded, Selections
<1> HIDE DEF a, b
<1>5. /\ place \in 3..4 /\ place + 1 \in 0..Len(Queue)
      /\ l = "l1" => place = 3
      /\ l = "l2" => place = 4
  BY <1>1, <1>2, StartsAt
<1>6. RowsRead' = RowsRead /\ Blocks' = Blocks /\ Positions' = Positions
  BY <1>2, RowsStay
<1>7. QueryTypeOK'
  <2>1. \A w \in Positions : bitmap[a][w] \cap bitmap[b][w] \in SUBSET Bits
    BY <1>1, <1>4
  <2>2. QED
    BY <1>1, <1>2, <1>3, <1>5, <1>6, <2>1 DEF QueryTypeOK, QueryInv
<1>8. ASSUME NEW S, NEW T, Selects(a, S), Selects(b, T) PROVE Selects(l, S \cup T)'
  <2>1. \A j \in Blocks : bitmap'[l][j] = bitmap[a][j] \cap bitmap[b][j]
    BY <1>1, <1>3, BlocksAreWords
  <2>2. \A s, p : Passes(s, p)' = Passes(s, p)
    BY <1>2, RowsStay
  <2>3. \A j \in Blocks : bitmap'[l][j] =
          {i \in Bits : \A s \in S \cup T : Passes(s, Block * (j - 1) + i + 1)}
    BY <1>8, <2>1 DEF Selects
  <2>4. QED
    BY <1>6, <2>2, <2>3 DEF Selects, Bits
<1>9. ASSUME NEW s, s # l, NEW S, Selects(s, S) PROVE Selects(s, S)'
  <2>1. bitmap'[s] = bitmap[s]
    BY <1>1, <1>3, <1>9
  <2>2. QED
    BY <1>2, <1>9, <2>1, BitmapsStay
<1>10. Bitmaps'
  <2>1. /\ Selects("s1", {"s1"}) /\ Selects("s2", {"s2"}) /\ Selects("s3", {"s3"})
        /\ place > 3 => Selects("l1", {"s1", "s3"})
    BY <1>5 DEF QueryInv, Bitmaps
  <2>2. Selects("s1", {"s1"})' /\ Selects("s2", {"s2"})' /\ Selects("s3", {"s3"})'
    BY <1>9, <2>1
  <2>3. CASE l = "l1"
    <3>1. Selects("l1", {"s1"} \cup {"s3"})'
      BY <1>4, <1>8, <2>1, <2>3
    <3>2. {"s1"} \cup {"s3"} = {"s1", "s3"}
      OBVIOUS
    <3>3. QED
      BY <1>2, <1>5, <2>2, <2>3, <3>1, <3>2 DEF Bitmaps
  <2>4. CASE l = "l2"
    <3>1. Selects("l2", {"s1", "s3"} \cup {"s2"})'
      BY <1>4, <1>5, <1>8, <2>1, <2>4
    <3>2. {"s1", "s3"} \cup {"s2"} = Selections
      BY DEF Selections
    <3>3. Selects("l1", {"s1", "s3"})'
      BY <1>5, <1>9, <2>1, <2>4
    <3>4. QED
      BY <1>2, <1>5, <2>2, <2>4, <3>1, <3>2, <3>3 DEF Bitmaps
  <2>5. QED
    BY <2>3, <2>4
<1>11. Products'
  BY <1>2, <1>5 DEF QueryInv, Products
<1>12. Summing'
  BY <1>2, <1>5, SummingStays DEF QueryInv
<1>13. QED
  BY <1>1, <1>2, <1>7, <1>10, <1>11, <1>12 DEF QueryInv

\* The bit of a position in the last bitmap
LEMMA BitOf ==
  ASSUME QueryInv, place > 4, NEW p \in Positions
  PROVE  Row(p) \in bitmap["l2"][BlockOf(p)] <=> Passing(p)
<1>1. /\ BlockOf(p) \in Blocks /\ Row(p) \in Bits
      /\ Block * (BlockOf(p) - 1) + Row(p) + 1 = p
  BY PlaceOf DEF QueryInv
<1>2. Selects("l2", Selections)
  BY DEF QueryInv, Bitmaps
<1>3. bitmap["l2"][BlockOf(p)] =
        {i \in Bits : \A s \in Selections : Passes(s, Block * (BlockOf(p) - 1) + i + 1)}
  BY <1>1, <1>2 DEF Selects
<1>4. QED
  BY <1>1, <1>3 DEF Passing

\* One word of a materialisation, in either layer
LEMMA OneWord ==
  ASSUME QueryInv, place > 4, NEW m \in {"m1", "m2"}, NEW p \in Positions
  PROVE  (Flag(bitmap["l2"][BlockOf(p)], Row(p)) * Column(Base(m))[p]) % 2^Block
           = IF Passing(p) THEN Column(Base(m))[p] ELSE 0
<1>1. PICK c : c = Column(Base(m))[p]
  OBVIOUS
<1>2. PICK M \in Nat : M = 2^Block /\ M > 0
  BY Tabled DEF QueryInv
<1>3. c \in 0..(M - 1) /\ c \in Nat /\ 0 \in 0..(M - 1) /\ (p % 2 = 0 => c = 0)
  BY <1>1, <1>2, Halves DEF QueryInv, Word
<1>4. p \in Nat /\ p > 0
  BY Tabled DEF Positions, QueryInv
<1>5. PICK flag : flag = Flag(bitmap["l2"][BlockOf(p)], Row(p))
  OBVIOUS
<1>6. c % M = c /\ 0 % M = 0
  BY <1>2, <1>3, FitsIn
<1>7. CASE ~Passing(p)
  <2>1. flag = 0
    BY <1>5, <1>7, BitOf DEF Flag
  <2>2. flag * c = 0
    BY <1>3, <2>1
  <2>3. QED
    BY <1>1, <1>2, <1>5, <1>6, <1>7, <2>2
<1>8. CASE Passing(p) /\ layer = 1 /\ Row(p) = Block - 1
  <2>1. c = 0
    BY <1>3, <1>4, <1>8, EndsEven
  <2>2. flag = -1
    BY <1>5, <1>8, BitOf DEF Flag
  <2>3. flag * c = 0
    BY <2>1, <2>2
  <2>4. QED
    BY <1>1, <1>2, <1>5, <1>6, <1>8, <2>1, <2>3
<1>9. CASE Passing(p) /\ ~(layer = 1 /\ Row(p) = Block - 1)
  <2>1. flag = 1
    BY <1>5, <1>9, BitOf DEF Flag
  <2>2. flag * c = c
    BY <1>3, <2>1
  <2>3. QED
    BY <1>1, <1>2, <1>5, <1>6, <1>9, <2>2
<1>10. QED
  BY <1>7, <1>8, <1>9

LEMMA CutIsWord ==
  ASSUME lineitem \in Tables, NEW n \in Nat
  PROVE  n % 2^Block \in Word
<1>1. PICK M \in Nat : M = 2^Block /\ M > 0
  BY Tabled
<1>2. n % M \in 0..(M - 1)
  BY <1>1, Division
<1>3. QED
  BY <1>1, <1>2 DEF Word

\* From here on, the bitmaps are as they were.
LEMMA BitmapsKept ==
  ASSUME lineitem' = lineitem, layer' = layer, bitmap' = bitmap, place' \in Nat,
         place > 4, QueryInv
  PROVE  Bitmaps'
<1>1. \A k, S : Selects(k, S) => Selects(k, S)'
  BY BitmapsStay
<1>2. /\ Selects("s1", {"s1"}) /\ Selects("s2", {"s2"}) /\ Selects("s3", {"s3"})
      /\ Selects("l1", {"s1", "s3"}) /\ Selects("l2", Selections)
  BY QueryTypes DEF QueryInv, Bitmaps
<1>3. Selections' = Selections
  BY DEF Selections
<1>4. /\ Selects("s1", {"s1"})' /\ Selects("s2", {"s2"})' /\ Selects("s3", {"s3"})'
      /\ Selects("l1", {"s1", "s3"})' /\ Selects("l2", Selections)'
  BY <1>1, <1>2
<1>5. QED
  BY <1>3, <1>4 DEF Bitmaps

LEMMA MaterializeKeeps ==
  ASSUME QueryInv, NEW m \in {"m1", "m2"}, Materialize(m)
  PROVE  QueryInv'
<1>1. /\ lineitem \in Tables /\ place \in 0..Len(Queue) /\ pending \subseteq Blocks
      /\ bitmap \in [Selections \cup {"l1", "l2"} -> [Positions -> SUBSET Bits]]
      /\ words \in [{"m1", "m2", "a"} -> [Positions -> Word]] /\ revenue \in Word
      /\ 0 \in Word
  BY QueryTypes
<1>2. /\ Starts(m) /\ place' = place + 1
      /\ lineitem' = lineitem /\ layer' = layer /\ pending' = pending
      /\ bitmap' = bitmap /\ revenue' = revenue /\ results' = results
      /\ words' = [words EXCEPT ![m] = [p \in Positions |->
           (Flag(bitmap["l2"][BlockOf(p)], Row(p)) * Column(Base(m))[p]) % 2^Block]]
  BY DEF Materialize
<1>3. /\ place \in 5..6 /\ place + 1 \in 0..Len(Queue)
      /\ m = "m1" => place = 5
      /\ m = "m2" => place = 6
  BY <1>1, <1>2, StartsAt
<1>4. RowsRead' = RowsRead /\ Blocks' = Blocks /\ Positions' = Positions
  BY <1>2, RowsStay
<1>5. \A p \in Positions : words'[m][p] = IF Passing(p) THEN Column(Base(m))[p] ELSE 0
  <2> SUFFICES ASSUME NEW p \in Positions
               PROVE  words'[m][p] = IF Passing(p) THEN Column(Base(m))[p] ELSE 0
    OBVIOUS
  <2>1. words'[m][p] = (Flag(bitmap["l2"][BlockOf(p)], Row(p)) * Column(Base(m))[p]) % 2^Block
    BY <1>1, <1>2
  <2>2. place > 4
    BY <1>3
  <2>3. QED
    BY <2>1, <2>2, OneWord
<1>6. QueryTypeOK'
  <2>1. \A p \in Positions : words'[m][p] \in Word
    BY <1>1, <1>5, Halves
  <2>2. PICK f : f = [p \in Positions |->
           (Flag(bitmap["l2"][BlockOf(p)], Row(p)) * Column(Base(m))[p]) % 2^Block]
    OBVIOUS
  <2>3. words' = [words EXCEPT ![m] = f] /\ words'[m] = f
    BY <1>1, <1>2, <2>2
  <2>4. f \in [Positions -> Word]
    <3>1. \A p \in Positions : f[p] \in Word
      BY <2>1, <2>3
    <3>2. f = [p \in Positions |-> f[p]]
      BY <2>2
    <3>3. QED
      BY <3>1, <3>2
  <2>5. words' \in [{"m1", "m2", "a"} -> [Positions -> Word]]
    BY <1>1, <2>3, <2>4
  <2>6. QED
    BY <1>1, <1>2, <1>3, <1>4, <2>5 DEF QueryTypeOK, QueryInv
<1>7. \A p : Passing(p)' <=> Passing(p)
  BY <1>2, PassingStays
<1>8. Taken(m)'
  <2>1. \A name : Column(name)' = Column(name)
    BY <1>2, RowsStay
  <2>2. QED
    BY <1>4, <1>5, <1>7, <2>1 DEF Taken, Base
<1>9. Bitmaps'
  BY <1>2, <1>3, BitmapsKept
<1>10. Products'
  <2>1. results = <<>> /\ (place > 5 => Taken("m1"))
    BY <1>3 DEF QueryInv, Products
  <2>2. CASE m = "m1"
    BY <1>2, <1>3, <1>8, <2>1, <2>2 DEF Products
  <2>3. CASE m = "m2"
    <3>1. words'["m1"] = words["m1"]
      BY <1>1, <1>2, <2>3
    <3>2. Taken("m1")
      BY <1>3, <2>1, <2>3
    <3>3. Taken("m1")'
      BY <1>2, <3>1, <3>2, TakenStays
    <3>4. QED
      BY <1>2, <1>3, <1>8, <2>1, <2>3, <3>3 DEF Products
  <2>4. QED
    BY <2>2, <2>3
<1>11. Summing'
  BY <1>2, <1>3, SummingStays
<1>12. QED
  BY <1>1, <1>2, <1>6, <1>9, <1>10, <1>11 DEF QueryInv

LEMMA ContributionIs ==
  ASSUME lineitem \in Tables, NEW p \in Positions
  PROVE  /\ Contribution(p) = IF Passing(p)
              THEN (Column(Base("m1"))[p] * Column(Base("m2"))[p]) % 2^Block ELSE 0
         /\ Contribution(p) \in Word /\ Contribution(p) \in Nat
<1>1. Contribution(p) = IF Passing(p)
        THEN (Column(Base("m1"))[p] * Column(Base("m2"))[p]) % 2^Block ELSE 0
  BY DEF Contribution, Passing, Base
<1>2. PICK c \in Word, d \in Word : c = Column(Base("m1"))[p] /\ d = Column(Base("m2"))[p]
  BY Halves
<1>3. c \in Nat /\ d \in Nat /\ 0 \in Word /\ Word \subseteq Nat
  BY Tabled DEF Word
<1>4. c * d \in Nat
  BY <1>3
<1>5. (c * d) % 2^Block \in Word
  BY <1>4, CutIsWord
<1>6. QED
  BY <1>1, <1>2, <1>3, <1>5

LEMMA MultiplyKeeps ==
  ASSUME QueryInv, Multiply
  PROVE  QueryInv'
<1>1. /\ lineitem \in Tables /\ place \in 0..Len(Queue) /\ pending \subseteq Blocks
      /\ bitmap \in [Selections \cup {"l1", "l2"} -> [Positions -> SUBSET Bits]]
      /\ words \in [{"m1", "m2", "a"} -> [Positions -> Word]] /\ revenue \in Word
      /\ 0 \in Word
  BY QueryTypes
<1>2. /\ Starts("a") /\ place' = place + 1
      /\ lineitem' = lineitem /\ layer' = layer /\ pending' = pending
      /\ bitmap' = bitmap /\ revenue' = revenue /\ results' = results
      /\ words' = [words EXCEPT !["a"] = [p \in Positions |->
           (words["m1"][p] * words["m2"][p]) % 2^Block]]
  BY DEF Multiply
<1>3. place = 7 /\ place + 1 \in 0..Len(Queue)
  BY <1>1, <1>2, StartsAt
<1>4. RowsRead' = RowsRead /\ Blocks' = Blocks /\ Positions' = Positions
  BY <1>2, RowsStay
<1>5. results = <<>> /\ Taken("m1") /\ Taken("m2")
  BY <1>3 DEF QueryInv, Products
<1>6. \A p \in Positions : words'["a"][p] = Contribution(p)
  <2> SUFFICES ASSUME NEW p \in Positions PROVE words'["a"][p] = Contribution(p)
    OBVIOUS
  <2>1. words'["a"][p] = (words["m1"][p] * words["m2"][p]) % 2^Block
    BY <1>1, <1>2
  <2>2. CASE Passing(p)
    BY <1>1, <1>5, <2>1, <2>2, ContributionIs DEF Taken
  <2>3. CASE ~Passing(p)
    <3>1. words["m1"][p] = 0 /\ words["m2"][p] = 0
      BY <1>5, <2>3 DEF Taken
    <3>2. 0 * 0 = 0
      OBVIOUS
    <3>3. 0 % 2^Block = 0
      BY <1>1, Tabled, FitsIn DEF Word
    <3>4. QED
      BY <1>1, <2>1, <2>3, <3>1, <3>2, <3>3, ContributionIs
  <2>4. QED
    BY <2>2, <2>3
<1>7. QueryTypeOK'
  <2>1. \A p \in Positions : words'["a"][p] \in Word
    BY <1>1, <1>6, ContributionIs
  <2>2. PICK f : f = [p \in Positions |-> (words["m1"][p] * words["m2"][p]) % 2^Block]
    OBVIOUS
  <2>3. words' = [words EXCEPT !["a"] = f] /\ words'["a"] = f
    BY <1>1, <1>2, <2>2
  <2>4. f \in [Positions -> Word]
    <3>1. \A p \in Positions : f[p] \in Word
      BY <2>1, <2>3
    <3>2. f = [p \in Positions |-> f[p]]
      BY <2>2
    <3>3. QED
      BY <3>1, <3>2
  <2>5. words' \in [{"m1", "m2", "a"} -> [Positions -> Word]]
    BY <1>1, <2>3, <2>4
  <2>6. QED
    BY <1>1, <1>2, <1>3, <1>4, <2>5 DEF QueryTypeOK, QueryInv
<1>8. Bitmaps'
  BY <1>2, <1>3, BitmapsKept
<1>9. Products'
  <2>1. words'["m1"] = words["m1"] /\ words'["m2"] = words["m2"]
    BY <1>1, <1>2
  <2>2. Taken("m1")' /\ Taken("m2")'
    BY <1>2, <1>5, <2>1, TakenStays
  <2>3. \A p : Contribution(p)' = Contribution(p)
    BY <1>2, ContributionStays
  <2>4. QED
    BY <1>2, <1>3, <1>4, <1>5, <1>6, <2>2, <2>3 DEF Products
<1>10. Summing'
  BY <1>2, <1>3, SummingStays
<1>11. QED
  BY <1>1, <1>2, <1>7, <1>8, <1>9, <1>10 DEF QueryInv

\* The last two kernels leave the bitmaps and the words alone.
LEMMA WordsStay ==
  ASSUME QueryInv, place > 7, lineitem' = lineitem, layer' = layer, words' = words
  PROVE  /\ Taken("m1")' /\ Taken("m2")'
         /\ (\A p \in Positions : words["a"][p] = Contribution(p))'
<1>1. Taken("m1") /\ Taken("m2") /\ \A p \in Positions : words["a"][p] = Contribution(p)
  BY QueryTypes DEF QueryInv, Products
<1>2. Taken("m1")' /\ Taken("m2")'
  BY <1>1, TakenStays
<1>3. Positions' = Positions
  BY RowsStay
<1>4. \A p : Contribution(p)' = Contribution(p)
  BY ContributionStays
<1>5. QED
  BY <1>1, <1>2, <1>3, <1>4

LEMMA DisplayKeeps ==
  ASSUME QueryInv, Display
  PROVE  QueryInv'
<1>1. /\ lineitem \in Tables /\ place \in 0..Len(Queue) /\ pending \subseteq Blocks
      /\ bitmap \in [Selections \cup {"l1", "l2"} -> [Positions -> SUBSET Bits]]
      /\ words \in [{"m1", "m2", "a"} -> [Positions -> Word]] /\ revenue \in Word
  BY QueryTypes
<1>2. /\ Starts("end") /\ place' = place + 1
      /\ lineitem' = lineitem /\ layer' = layer /\ pending' = pending
      /\ bitmap' = bitmap /\ words' = words /\ revenue' = revenue /\ results' = words["a"]
  BY DEF Display
<1>3. place = 8 /\ place + 1 \in 0..Len(Queue)
  BY <1>1, <1>2, StartsAt
<1>4. Blocks' = Blocks /\ Positions' = Positions
  BY <1>2, RowsStay
<1>5. QueryTypeOK'
  BY <1>1, <1>2, <1>3, <1>4 DEF QueryTypeOK, QueryInv
<1>6. Bitmaps'
  BY <1>2, <1>3, BitmapsKept
<1>7. Products'
  BY <1>2, <1>3, WordsStay DEF Products
<1>8. Summing'
  BY <1>2, <1>3, SummingStays
<1>9. QED
  BY <1>1, <1>2, <1>5, <1>6, <1>7, <1>8 DEF QueryInv

\* The private sums are numbers.
LEMMA SumsAreNumbers ==
  ASSUME QueryInv
  PROVE  /\ RowsRead \div Block \in Nat /\ Blocks = 1..(RowsRead \div Block)
         /\ \A j \in Blocks : SumOf(j) \in Nat
         /\ SumUpTo([j \in Blocks |-> SumOf(j)], RowsRead \div Block) = SumUpTo(words["a"], RowsRead)
<1>1. PICK b \in Nat, n \in Nat : b = Block /\ n = RowsRead \div Block /\ RowsRead = b * n
  BY Tabled DEF QueryInv
<1>2. Blocks = 1..n
  BY <1>1 DEF Blocks
<1>3. \A p \in 1..(b * n) : words["a"][p] \in Nat
  <2>1. words["a"] \in [Positions -> Word]
    BY QueryTypes
  <2>2. Word \subseteq Nat
    <3>1. PICK w \in Nat : w = 2^Block
      BY Query6Assumption
    <3>2. Word = 0..(w - 1)
      BY <3>1 DEF Word
    <3>3. QED
      BY ONLY <3>1, <3>2
  <2>3. QED
    BY <1>1, <2>1, <2>2 DEF Positions
<1>4. PICK g : g = [j \in Blocks |-> SumOf(j)]
  OBVIOUS
<1>5. PICK f : f = words["a"]
  OBVIOUS
<1>6. PortionSums(f, g, b, n)
  <2>1. \A j \in 1..n : g[j] = SumUpTo([i \in 1..b |-> f[b * (j - 1) + i]], b)
    BY <1>1, <1>2, <1>4, <1>5 DEF SumOf
  <2>2. QED
    BY <1>3, <1>5, <2>1 DEF PortionSums
<1>7. SumUpTo(g, n) = SumUpTo(f, b * n) /\ \A j \in 1..n : g[j] \in Nat
  BY <1>6, InPortions
<1>8. QED
  BY <1>1, <1>2, <1>4, <1>5, <1>7

LEMMA AggregateKeeps ==
  ASSUME QueryInv, Aggregate
  PROVE  QueryInv'
<1>1. /\ lineitem \in Tables /\ place \in 0..Len(Queue) /\ pending \subseteq Blocks
      /\ bitmap \in [Selections \cup {"l1", "l2"} -> [Positions -> SUBSET Bits]]
      /\ words \in [{"m1", "m2", "a"} -> [Positions -> Word]] /\ revenue \in Word
  BY QueryTypes
<1>2. PICK j \in pending : revenue' = (revenue + SumOf(j)) % 2^Block /\ pending' = pending \ {j}
  BY DEF Aggregate, Add
<1>3. /\ Starts("ag") /\ place' = place
      /\ lineitem' = lineitem /\ layer' = layer
      /\ bitmap' = bitmap /\ words' = words /\ results' = results
  BY DEF Aggregate
<1>4. place = 9
  BY <1>1, <1>3, StartsAt
<1>5. RowsRead' = RowsRead /\ Blocks' = Blocks /\ Positions' = Positions
  BY <1>3, RowsStay
<1>6. PICK n \in Nat : /\ n = RowsRead \div Block /\ Blocks = 1..n
                       /\ \A i \in Blocks : SumOf(i) \in Nat
  BY SumsAreNumbers
<1>7. PICK M \in Nat : M = 2^Block /\ M > 0
  BY <1>1, Tabled
<1>8. PICK v \in Nat : v = SumOf(j)
  BY <1>1, <1>2, <1>6
<1>9. j \in 1..n
  BY <1>1, <1>2, <1>6
<1>10. \A i : SumOf(i)' = SumOf(i)
  BY <1>3 DEF SumOf, SumUpTo
<1>11. PICK f, g : f = Added /\ g = Added'
  OBVIOUS
<1>12. /\ f = [i \in Blocks |-> IF i \in pending THEN 0 ELSE SumOf(i)]
       /\ g = [i \in Blocks |-> IF i \in pending' THEN 0 ELSE SumOf(i)]
  BY <1>5, <1>10, <1>11 DEF Added
<1>13. Grown(f, g, n, j, v)
  BY <1>2, <1>6, <1>8, <1>12 DEF Grown
<1>14. SumUpTo(g, n) = SumUpTo(f, n) + v
  BY <1>9, <1>13, TermAdded
<1>15. SumUpTo(f, n) \in Nat
  BY <1>13, SumSteps DEF Grown
<1>16. revenue = SumUpTo(f, n) % M
  BY <1>6, <1>7, <1>11 DEF QueryInv, Summing
<1>17. revenue' = SumUpTo(g, n) % M
  <2>1. PICK s \in Nat : s = SumUpTo(f, n)
    BY <1>15
  <2>2. ((s % M) + v) % M = (s + v) % M
    BY <1>7, CutTwice
  <2>3. QED
    BY <1>2, <1>7, <1>8, <1>14, <1>16, <2>1, <2>2
<1>18. revenue' \in Word
  <2>1. SumUpTo(g, n) \in Nat
    BY <1>14, <1>15
  <2>2. QED
    BY <1>1, <1>7, <1>17, <2>1, CutIsWord
<1>19. QueryTypeOK'
  BY <1>1, <1>2, <1>3, <1>5, <1>18 DEF QueryTypeOK, QueryInv
<1>20. Bitmaps'
  BY <1>3, <1>4, BitmapsKept
<1>21. Products'
  BY <1>3, <1>4, WordsStay DEF Products, QueryInv
<1>22. Summing'
  <2>1. SumUpTo(Added, RowsRead \div Block)' = SumUpTo(Added', RowsRead' \div Block)
    BY DEF SumUpTo
  <2>2. SumUpTo(Added, RowsRead \div Block)' = SumUpTo(g, n)
    BY <1>5, <1>6, <1>11, <2>1
  <2>3. revenue' = SumUpTo(Added, RowsRead \div Block)' % 2^Block
    BY <1>7, <1>17, <2>2
  <2>4. QED
    BY <1>3, <1>4, <2>3 DEF Summing
<1>23. QED
  BY <1>1, <1>3, <1>19, <1>20, <1>21, <1>22 DEF QueryInv

LEMMA SummingKept ==
  ASSUME QueryInv, lineitem' = lineitem, layer' = layer, words' = words,
         pending' = pending, revenue' = revenue
  PROVE  revenue' = SumUpTo(Added, RowsRead \div Block)' % 2^Block
<1>1. RowsRead' = RowsRead /\ Blocks' = Blocks
  BY RowsStay
<1>2. \A i : SumOf(i)' = SumOf(i)
  BY DEF SumOf, SumUpTo
<1>3. Added' = Added
  BY <1>1, <1>2 DEF Added
<1>4. SumUpTo(Added, RowsRead \div Block)' = SumUpTo(Added, RowsRead \div Block)
  BY <1>1, <1>3 DEF SumUpTo
<1>5. QED
  BY <1>4 DEF QueryInv, Summing

LEMMA EndQueryKeeps ==
  ASSUME QueryInv, EndQuery
  PROVE  QueryInv'
<1>1. /\ lineitem \in Tables /\ place \in 0..Len(Queue) /\ pending \subseteq Blocks
      /\ bitmap \in [Selections \cup {"l1", "l2"} -> [Positions -> SUBSET Bits]]
      /\ words \in [{"m1", "m2", "a"} -> [Positions -> Word]] /\ revenue \in Word
  BY QueryTypes
<1>2. /\ Starts("ag") /\ place' = place + 1 /\ pending = {}
      /\ lineitem' = lineitem /\ layer' = layer /\ pending' = pending
      /\ bitmap' = bitmap /\ words' = words /\ revenue' = revenue /\ results' = results
  BY DEF EndQuery
<1>3. place = 9 /\ place + 1 \in 0..Len(Queue)
  BY <1>1, <1>2, StartsAt
<1>4. Blocks' = Blocks /\ Positions' = Positions
  BY <1>2, RowsStay
<1>5. QueryTypeOK'
  BY <1>1, <1>2, <1>3, <1>4 DEF QueryTypeOK, QueryInv
<1>6. Bitmaps'
  BY <1>2, <1>3, BitmapsKept
<1>7. Products'
  BY <1>2, <1>3, WordsStay DEF Products, QueryInv
<1>8. Summing'
  BY <1>2, <1>3, SummingKept DEF Summing
<1>9. QED
  BY <1>1, <1>2, <1>5, <1>6, <1>7, <1>8 DEF QueryInv

LEMMA QueryRests ==
  ASSUME QueryInv, UNCHANGED queryVars
  PROVE  QueryInv'
<1>1. /\ lineitem' = lineitem /\ layer' = layer /\ place' = place /\ pending' = pending
      /\ bitmap' = bitmap /\ words' = words /\ revenue' = revenue /\ results' = results
  BY DEF queryVars
<1>2. RowsRead' = RowsRead /\ Blocks' = Blocks /\ Positions' = Positions
  BY <1>1, RowsStay
<1>3. QueryTypeOK'
  BY <1>1, <1>2 DEF QueryTypeOK, QueryInv
<1>4. \A k, S : Selects(k, S) => Selects(k, S)'
  BY <1>1, BitmapsStay
<1>5. Bitmaps'
  <2>1. /\ Selects("s1", {"s1"}) => Selects("s1", {"s1"})'
        /\ Selects("s2", {"s2"}) => Selects("s2", {"s2"})'
        /\ Selects("s3", {"s3"}) => Selects("s3", {"s3"})'
        /\ Selects("l1", {"s1", "s3"}) => Selects("l1", {"s1", "s3"})'
        /\ Selects("l2", Selections) => Selects("l2", Selections)'
    BY <1>4 DEF Selections
  <2>2. QED
    BY <1>1, <2>1 DEF Bitmaps, QueryInv
<1>6. Products'
  <2>1. \A m : Taken(m) => Taken(m)'
    BY <1>1, TakenStays
  <2>2. (Taken("m1") => Taken("m1")') /\ (Taken("m2") => Taken("m2")')
    BY <2>1
  <2>3. \A p : Contribution(p)' = Contribution(p)
    BY <1>1, ContributionStays
  <2>4. QED
    BY <1>1, <1>2, <2>2, <2>3 DEF Products, QueryInv
<1>7. Summing'
  BY <1>1, <1>2, SummingKept DEF Summing, QueryInv
<1>8. QED
  BY <1>1, <1>3, <1>5, <1>6, <1>7 DEF QueryInv

LEMMA QueryInvariance == Query6Spec => []QueryInv
<1>1. QueryInv /\ [QueryNext]_queryVars => QueryInv'
  BY SelectKeeps, AndKeeps, MaterializeKeeps, MultiplyKeeps, DisplayKeeps, AggregateKeeps,
     EndQueryKeeps, QueryRests DEF QueryNext
<1>2. QED
  BY <1>1, QueryInitially, PTL DEF Query6Spec

LEMMA AnswersFollow == QueryInv => AnswersAreRight
<1> SUFFICES ASSUME QueryInv PROVE AnswersAreRight
  OBVIOUS
<1>1. /\ lineitem \in Tables /\ place \in 0..Len(Queue)
      /\ words \in [{"m1", "m2", "a"} -> [Positions -> Word]]
  BY QueryTypes
<1>2. Len(Queue) = 10
  BY DEF Queue
<1> DEFINE all == [p \in Positions |-> Contribution(p)]
<1>3. ASSUME place > 7 PROVE words["a"] = all
  <2>1. \A p \in Positions : words["a"][p] = Contribution(p)
    BY <1>3 DEF QueryInv, Products
  <2>2. words["a"] = [p \in Positions |-> words["a"][p]]
    BY <1>1
  <2>3. QED
    BY <2>1, <2>2
<1>4. results # <<>> => results = all
  BY <1>1, <1>2, <1>3 DEF QueryInv, Products
<1>5. ASSUME Finished PROVE revenue = SumUpTo(all, RowsRead) % 2^Block
  <2>1. place = 10
    BY <1>2, <1>5 DEF Finished
  <2>2. pending = {} /\ revenue = SumUpTo(Added, RowsRead \div Block) % 2^Block
    BY <2>1 DEF QueryInv, Summing
  <2>3. Added = [j \in Blocks |-> SumOf(j)]
    BY <2>2 DEF Added
  <2>4. SumUpTo(Added, RowsRead \div Block) = SumUpTo(words["a"], RowsRead)
    BY <2>3, SumsAreNumbers
  <2>5. QED
    BY <1>3, <2>1, <2>2, <2>4
<1>6. QED
  BY <1>4, <1>5 DEF AnswersAreRight

\* The kernels keep to the bits and words of their buffers, whatever the table
\* holds (query6.cpp:158-192).
THEOREM QueryTypeCorrect == Query6Spec => []QueryTypeOK
<1>1. QueryInv => QueryTypeOK
  BY DEF QueryInv
<1>2. QED
  BY <1>1, QueryInvariance, PTL

\* For every table and every even width of a word: what query_6 shows are the
\* products of the positions that pass the tests of its kernels, in the C++ layer
\* too, where the highest bit of a block comes down as -1 (primitives.cpp:90),
\* and the sum is the one over all of them, whatever the order in which the work
\* items add (aggregate_block.cl:10).
THEOREM AnswersRight == Query6Spec => []AnswersAreRight
<1>1. QED
  BY AnswersFollow, QueryInvariance, PTL

-----------------------------------------------------------------------------
(* The hash map is free of locks: what the calls in hand have left.        *)

\* The entries that threads have in hand and not swapped in.
Pending == {e \in Entries : \E t \in Threads : Owns(t, e)}

CallStages ==
  [load |-> 4, swap |-> 3, count |-> 2, add |-> 1, find |-> 2, walk |-> 1, idle |-> 0]

\* The entries of the chain that a walk has still to look at.
WalkLeft(t) ==
  IF entry[t] = Null THEN 0
  ELSE CHOOSE n \in Spots(Home(t)) : chain[Home(t)][n] = entry[t]

\* A compare-and-swap whose word is stale has one failure before it.
MoreLeft(t) ==
  IF pc[t] = "walk" THEN WalkLeft(t)
  ELSE IF pc[t] = "swap" /\ entries[Bucket(entry[t])] # loc[t] THEN 1 ELSE 0

CallRank(t) == <<Cardinality(Pending), CallStages[pc[t]], MoreLeft(t)>>

CallsLeft == [t \in Threads |-> CallRank(t)]

\* A call begins; it is one of those made by one thread alone, of one step; a
\* compare-and-swap fails though nothing has changed; or a call comes forward.
CallsGoDown ==
  \/ \E t \in Threads : pc[t] = "idle" /\ pc'[t] # "idle"
  \/ Alone /\ Alone'
  \/ \E t \in Threads : SwapFails(t) /\ entries[Bucket(entry[t])] = loc[t]
  \/ <<CallsLeft', CallsLeft>> \in FamilyDescent(Threads)

LEMMA WalkIsAt ==
  ASSUME IInv, NEW t \in Threads, pc[t] = "walk", NEW n \in 0..Len(chain[Home(t)]),
         Stands(t, n)
  PROVE  WalkLeft(t) = n
<1>1. Home(t) \in Buckets /\ (n = 0 <=> entry[t] = Null) /\ (n # 0 => entry[t] = chain[Home(t)][n])
  BY WalkedTo
<1>2. CASE n = 0
  BY <1>1, <1>2 DEF WalkLeft
<1>3. CASE n # 0
  <2>1. n \in Spots(Home(t)) /\ chain[Home(t)][n] = entry[t] /\ entry[t] # Null
    BY <1>1, <1>3 DEF Spots
  <2>2. \A i \in Spots(Home(t)) : chain[Home(t)][i] = entry[t] => i = n
    BY <1>1, <2>1 DEF IInv, Structure, Once
  <2>3. QED
    BY <2>1, <2>2 DEF WalkLeft
<1>4. QED
  BY <1>2, <1>3

LEMMA PendingEntries ==
  Pending \in SUBSET Entries /\ IsFiniteSet(Pending) /\ Cardinality(Pending) \in Nat
BY SetsOfEntries DEF Pending

LEMMA CallsAreRanks == IInv => CallsLeft \in [Threads -> Triples]
<1> SUFFICES ASSUME IInv, NEW t \in Threads PROVE CallRank(t) \in Triples
  BY DEF CallsLeft
<1>1. CallStages[pc[t]] \in Nat
  BY DEF IInv, TypeOK, CallStages
<1>2. MoreLeft(t) \in Nat
  <2>1. CASE pc[t] = "walk"
    <3>1. PICK n \in 0..Len(chain[Home(t)]) : Stands(t, n)
      BY <2>1 DEF IInv, Lookups, Lookup
    <3>2. WalkLeft(t) = n
      BY <2>1, <3>1, WalkIsAt
    <3>3. QED
      BY <2>1, <3>2 DEF MoreLeft
  <2>2. CASE pc[t] # "walk"
    BY <2>2 DEF MoreLeft
  <2>3. QED
    BY <2>1, <2>2
<1>3. QED
  BY <1>1, <1>2, PendingEntries DEF CallRank, Triples

\* Where the heads stay and nothing new is in hand, the others keep what they
\* have left.
LEMMA CallsElsewhere ==
  ASSUME NEW t \in Threads, UNCHANGED <<entries, chain>>, Pending' = Pending,
         NEW u \in Threads,
         pc'[u] = pc[u], entry'[u] = entry[u], loc'[u] = loc[u], key'[u] = key[u]
  PROVE  CallRank(u)' = CallRank(u)
BY DEF CallRank, MoreLeft, WalkLeft, Home, Spots, Bucket, Hash

LEMMA SamePending ==
  ASSUME NEW t \in Threads, \A e \in Entries : Owns(t, e)' <=> Owns(t, e),
         \A u \in Threads \ {t} : pc'[u] = pc[u] /\ entry'[u] = entry[u] /\ batch'[u] = batch[u]
  PROVE  Pending' = Pending
<1>1. \A u \in Threads, e \in Entries : Owns(u, e)' <=> Owns(u, e)
  BY DEF Owns
<1>2. QED
  BY <1>1 DEF Pending

\* What Swap has swapped in is in nobody's hands any more.
LEMMA SwapLessPending ==
  ASSUME IInv, NEW t \in Threads, Swap(t)
  PROVE  Cardinality(Pending') < Cardinality(Pending)
<1>1. PICK e \in Entries : e = entry[t] /\ Owns(t, e) /\ e \notin batch[t]
  BY DEF Swap, IInv, Ownership, Owns
<1>2. /\ pc'[t] \in {"count", "load"} /\ UNCHANGED <<batch, entry>>
      /\ \A u \in Threads \ {t} : pc'[u] = pc[u]
  BY DEF Swap, Go, IInv, TypeOK
<1>3. \A u \in Threads, x \in Entries : Owns(u, x)' => Owns(u, x) /\ x # e
  <2> SUFFICES ASSUME NEW u \in Threads, NEW x \in Entries, Owns(u, x)'
               PROVE  Owns(u, x) /\ x # e
    OBVIOUS
  <2>1. CASE u = t
    BY <1>1, <1>2, <2>1 DEF Owns
  <2>2. CASE u # t
    <3>1. Owns(u, x)
      BY <1>2, <2>2 DEF Owns
    <3>2. QED
      BY <1>1, <2>2, <3>1 DEF IInv, Ownership
  <2>3. QED
    BY <2>1, <2>2
<1>4. Pending' \subseteq Pending \ {e} /\ e \in Pending
  BY <1>1, <1>3 DEF Pending
<1>5. PICK P \in SUBSET Entries, Q \in SUBSET Entries : P = Pending /\ Q = Pending'
  BY PendingEntries, <1>4
<1>6. IsFiniteSet(P) /\ e \in P /\ Q \subseteq P \ {e} /\ Cardinality(P \ {e}) = Cardinality(P) - 1
      /\ Cardinality(P) \in Nat
  BY <1>4, <1>5, SetsOfEntries
<1>7. IsFiniteSet(P \ {e}) /\ Cardinality(P \ {e}) \in Nat
  BY <1>6, FS_Subset, FS_CardinalityType
<1>8. Cardinality(Q) <= Cardinality(P \ {e}) /\ Cardinality(Q) \in Nat
  BY <1>6, <1>7, FS_Subset, FS_CardinalityType
<1>9. QED
  BY <1>5, <1>6, <1>8

\* Any other step of a call.
LEMMA CallGoesDown ==
  ASSUME IInv, IInv', NEW t \in Threads, Inserts(t) \/ Finds(t), ~Swap(t),
         ~(SwapFails(t) /\ entries[Bucket(entry[t])] = loc[t])
  PROVE  /\ Smaller(CallRank(t)', CallRank(t))
         /\ \A u \in Threads \ {t} : CallRank(u)' = CallRank(u)
<1> USE DEF IInv, Go
<1>1. Load(t) \/ SwapFails(t) \/ CountLoad(t) \/ CountStore(t) \/ FindChain(t) \/ Step(t) \/ Return(t)
  BY DEF Inserts, Finds
<1>2. /\ UNCHANGED <<entries, chain>>
      /\ \A u \in Threads \ {t} : /\ pc'[u] = pc[u] /\ entry'[u] = entry[u] /\ loc'[u] = loc[u]
                                  /\ key'[u] = key[u] /\ batch'[u] = batch[u]
  <2>1. CASE Load(t)
    BY <2>1 DEF TypeOK, Load, lookupVars
  <2>2. CASE SwapFails(t)
    BY <2>2 DEF TypeOK, SwapFails, insertVars, lookupVars
  <2>3. CASE CountLoad(t)
    BY <2>3 DEF TypeOK, CountLoad, lookupVars
  <2>4. CASE CountStore(t)
    BY <2>4 DEF TypeOK, CountStore, EndInsert, lookupVars
  <2>5. CASE FindChain(t)
    BY <2>5 DEF TypeOK, FindChain, insertVars
  <2>6. CASE Step(t)
    BY <2>6 DEF TypeOK, Step, insertVars, lookupVars
  <2>7. CASE Return(t)
    BY <2>7 DEF TypeOK, Return, insertVars
  <2>8. QED
    BY <1>1, <2>1, <2>2, <2>3, <2>4, <2>5, <2>6, <2>7
<1>3. \A e \in Entries : Owns(t, e)' <=> Owns(t, e)
  <2>1. CASE Load(t)
    <3>1. PICK x \in batch[t] : /\ entry' = [entry EXCEPT ![t] = x]
                                /\ batch' = [batch EXCEPT ![t] = @ \ {x}]
      BY <2>1 DEF Load
    <3>2. entry'[t] = x /\ batch'[t] = batch[t] \ {x} /\ pc[t] = "load" /\ pc'[t] = "swap"
      BY <2>1, <3>1 DEF Load, TypeOK
    <3>3. QED
      BY <3>2 DEF Owns
  <2>2. CASE SwapFails(t)
    BY <2>2 DEF SwapFails, Owns, insertVars
  <2>3. CASE CountLoad(t) \/ CountStore(t) \/ FindChain(t) \/ Step(t) \/ Return(t)
    <3>1. pc[t] # "swap" /\ pc'[t] # "swap" /\ batch' = batch
      BY <2>3 DEF TypeOK, CountLoad, CountStore, EndInsert, FindChain, Step, Return, insertVars
    <3>2. QED
      BY <3>1 DEF Owns
  <2>4. QED
    BY <1>1, <2>1, <2>2, <2>3
<1>4. Pending' = Pending
  BY <1>2, <1>3, SamePending
<1>5. \A u \in Threads \ {t} : CallRank(u)' = CallRank(u)
  BY <1>2, <1>4, CallsElsewhere
<1>6. CASE ~SwapFails(t) /\ ~Step(t)
  <2>1. \/ pc[t] = "load" /\ pc'[t] = "swap"
        \/ pc[t] = "count" /\ pc'[t] = "add"
        \/ pc[t] = "add" /\ pc'[t] = "idle"
        \/ pc[t] = "find" /\ pc'[t] = "walk"
        \/ pc[t] = "walk" /\ pc'[t] = "idle"
    BY <1>1, <1>6 DEF TypeOK, Load, CountLoad, CountStore, EndInsert, FindChain, Return
  <2>2. CallStages[pc'[t]] < CallStages[pc[t]]
    BY <2>1 DEF CallStages
  <2>3. QED
    BY <1>4, <1>5, <2>2 DEF CallRank, Smaller
<1>7. CASE SwapFails(t)
  <2>1. /\ pc[t] = "swap" /\ pc' = pc /\ entry' = entry
        /\ loc'[t] = entries[Bucket(entry[t])] /\ entries[Bucket(entry[t])] # loc[t]
    BY <1>7 DEF SwapFails, TypeOK
  <2>2. MoreLeft(t) = 1 /\ MoreLeft(t)' = 0
    BY <1>2, <2>1 DEF MoreLeft, Bucket, Hash
  <2>3. QED
    BY <1>4, <1>5, <2>1, <2>2 DEF CallRank, Smaller
<1>8. CASE Step(t)
  <2>1. /\ pc[t] = "walk" /\ pc' = pc /\ entry[t] # Null /\ entry'[t] = next[entry[t]]
        /\ key' = key
    BY <1>8 DEF Step, TypeOK, lookupVars
  <2>2. PICK n \in 0..Len(chain[Home(t)]) : Stands(t, n)
    BY <2>1 DEF Lookups, Lookup
  <2>3. /\ n # 0 /\ Home(t) \in Buckets /\ WalkLeft(t) = n
        /\ next[entry[t]] = IF n = 1 THEN Null ELSE chain[Home(t)][n - 1]
    BY <2>1, <2>2, WalkedTo, WalkIsAt
  <2>4. Home(t)' = Home(t)
    BY <2>1 DEF Home
  <2>5. WalkLeft(t)' = n - 1
    <3>1. CASE n = 1
      BY <2>1, <2>3, <3>1 DEF WalkLeft
    <3>2. CASE n # 1
      <4>1. n - 1 \in Spots(Home(t)) /\ chain[Home(t)] \in Seq(Entries)
        BY <2>3, <3>2 DEF Spots, TypeOK
      <4>2. entry'[t] = chain[Home(t)][n - 1] /\ entry'[t] # Null
        BY <2>1, <2>3, <3>2, <4>1, HashmapAssumption DEF Spots
      <4>3. \A i \in Spots(Home(t)) : chain[Home(t)][i] = entry'[t] => i = n - 1
        BY <2>3, <4>1, <4>2 DEF Structure, Once
      <4>4. WalkLeft(t)' = CHOOSE i \in Spots(Home(t)) : chain[Home(t)][i] = entry'[t]
        BY <1>2, <2>4, <4>2 DEF WalkLeft, Spots
      <4>5. QED
        BY <4>1, <4>2, <4>3, <4>4
    <3>3. QED
      BY <3>1, <3>2
  <2>6. MoreLeft(t)' < MoreLeft(t)
    BY <2>1, <2>3, <2>5 DEF MoreLeft
  <2>7. QED
    BY <1>4, <1>5, <2>1, <2>6 DEF CallRank, Smaller
<1>9. QED
  BY <1>5, <1>6, <1>7, <1>8

\* Hashmap and Hashmapx are free of locks (Hashmap.hpp:153-172, 281-360): between two
\* calls of the program every step of any thread brings a call forward and none
\* back, but for a compare_exchange_weak that fails for no reason; a failure that
\* has one is another thread's success.
THEOREM CallsComeForward == SafeSpec => [][CallsGoDown]_vars
<1>1. (IInv => CallsLeft \in [Threads -> Triples])'
  BY CallsAreRanks, PTL
<1>2. ASSUME IInv, IInv', [Next]_vars PROVE [CallsGoDown]_vars
  <2> SUFFICES ASSUME Next PROVE CallsGoDown
    BY <1>2
  <2>1. CallsLeft \in [Threads -> Triples] /\ CallsLeft' \in [Threads -> Triples]
    BY <1>1, <1>2, CallsAreRanks
  <2>2. /\ DOMAIN CallsLeft = Threads
        /\ \A u \in Threads : CallsLeft[u] = CallRank(u) /\ CallsLeft'[u] = CallRank(u)'
    BY DEF CallsLeft
  <2>3. ASSUME NEW t \in Threads, Swap(t) PROVE CallsGoDown
    <3>1. \A u \in Threads : Smaller(CallRank(u)', CallRank(u))
      BY <1>2, <2>3, SwapLessPending DEF CallRank, Smaller
    <3>2. Lower(CallsLeft', CallsLeft)
      BY <2>2, <3>1 DEF Lower, NotLarger
    <3>3. QED
      BY <2>1, <3>2 DEF CallsGoDown, FamilyDescent
  <2>4. ASSUME NEW t \in Threads, Inserts(t) \/ Finds(t), ~Swap(t) PROVE CallsGoDown
    <3>1. CASE SwapFails(t) /\ entries[Bucket(entry[t])] = loc[t]
      BY <3>1 DEF CallsGoDown
    <3>2. CASE ~(SwapFails(t) /\ entries[Bucket(entry[t])] = loc[t])
      <4>1. /\ Smaller(CallRank(t)', CallRank(t))
            /\ \A u \in Threads \ {t} : CallRank(u)' = CallRank(u)
        BY <1>2, <2>4, <3>2, CallGoesDown
      <4>2. Lower(CallsLeft', CallsLeft)
        BY <2>2, <4>1 DEF Lower, NotLarger
      <4>3. QED
        BY <2>1, <4>2 DEF CallsGoDown, FamilyDescent
    <3>3. QED
      BY <3>1, <3>2
  <2>5. ASSUME NEW t \in Threads, NEW set \in SUBSET Entries, StartInsert(t, set)
        PROVE  CallsGoDown
    <3>1. pc[t] = "idle" /\ pc'[t] = "load"
      BY <1>2, <2>5 DEF StartInsert, Go, IInv, TypeOK
    <3>2. QED
      BY <3>1 DEF CallsGoDown
  <2>6. ASSUME NEW t \in Threads, NEW k \in Keys, StartFind(t, k) PROVE CallsGoDown
    <3>1. pc[t] = "idle" /\ pc'[t] = "find"
      BY <1>2, <2>6 DEF StartFind, Go, IInv, TypeOK
    <3>2. QED
      BY <3>1 DEF CallsGoDown
  <2>7. ASSUME NEW e \in Entries, Create(e) PROVE CallsGoDown
    BY <2>7 DEF Create, Alone, CallsGoDown
  <2>8. ASSUME Clear PROVE CallsGoDown
    BY <2>8 DEF Clear, Alone, CallsGoDown
  <2>9. QED
    BY <2>3, <2>4, <2>5, <2>6, <2>7, <2>8 DEF Next, Inserts
<1>3. QED
  BY <1>2, AlwaysIInv, PTL DEF SafeSpec
=============================================================================
