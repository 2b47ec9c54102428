------------------------------ MODULE Hashmap ------------------------------
(***************************************************************************)
(* runtime::Hashmap and Hashmapx: a table of chains that threads fill at   *)
(* the same time.  The head of a chain is one atomic word: the pointer to  *)
(* the first entry and, with tags, sixteen bits that say which tags occur  *)
(* in the chain.  Hashes are taken apart by constants: the bucket is what  *)
(* the mask leaves of a hash, the tag its four topmost bits.               *)
(*                                                                         *)
(* Every load and compare-and-swap of a head, every read of a next and the *)
(* two halves of nrEntries++ are steps.  A thread writes the next of its   *)
(* entry together with its load of the head: no other thread reaches the   *)
(* entry before it is swapped in.                                          *)
(***************************************************************************)
EXTENDS Naturals, FiniteSets, Sequences

CONSTANTS
  Threads, Entries, Keys,
  Buckets, Tags, Hashes,
  KeyOf,       \* [Entries -> Keys]
  HashOf,      \* [Keys -> Hashes]
  BucketOf,    \* [Hashes -> Buckets]
  TagOf,       \* [Hashes -> Tags]
  UseTags,     \* template parameter of Hashmapx
  Null

ASSUME HashmapAssumption ==
  /\ UseTags \in BOOLEAN
  /\ KeyOf \in [Entries -> Keys] /\ HashOf \in [Keys -> Hashes]
  /\ BucketOf \in [Hashes -> Buckets] /\ TagOf \in [Hashes -> Tags]
  /\ Null \notin Entries \cup Keys
  /\ IsFiniteSet(Entries)

VARIABLES
  entries,     \* the words: [ptr, tags] for each bucket
  next,        \* EntryHeader::next
  nrEntries,
  pc,
  batch,       \* what the thread's insertAll has still to insert
  size,        \* how many it adds to nrEntries at the end
  entry,       \* the entry in hand: to insert, or reached in a chain
  loc,         \* the word a thread has loaded
  count,       \* nrEntries as loaded by nrEntries++
  key,         \* of the lookup
  answer,      \* of the last lookup
  fresh,       \* entries that were not inserted since the table was cleared
  chain,       \* history: the entries of each bucket, earliest first
  right        \* history: the right answers when a lookup read the head

vars == <<entries, next, nrEntries, pc, batch, size, entry, loc, count,
          key, answer, fresh, chain, right>>

insertVars == <<batch, size, count, nrEntries, fresh, chain>>
lookupVars == <<key, answer, right>>

Hash(e) == HashOf[KeyOf[e]]
Bucket(e) == BucketOf[Hash(e)]
Pointers == Entries \cup {Null}
Words == [ptr : Pointers, tags : SUBSET Tags]
Empty == [ptr |-> Null, tags |-> {}]

Members(b) == {chain[b][i] : i \in 1..Len(chain[b])}
stored == UNION {Members(b) : b \in Buckets}

Init ==
  /\ entries = [b \in Buckets |-> Empty]
  /\ next = [e \in Entries |-> Null]
  /\ nrEntries = 0
  /\ pc = [t \in Threads |-> "idle"]
  /\ batch = [t \in Threads |-> {}]
  /\ size = [t \in Threads |-> 0]
  /\ entry = [t \in Threads |-> Null]
  /\ loc = [t \in Threads |-> Empty]
  /\ count = [t \in Threads |-> 0]
  /\ key = [t \in Threads |-> Null]
  /\ answer = [t \in Threads |-> Null]
  /\ fresh = Entries
  /\ chain = [b \in Buckets |-> <<>>]
  /\ right = [t \in Threads |-> {}]

Go(t, place) == pc' = [pc EXCEPT ![t] = place]

-----------------------------------------------------------------------------
(* insertAll, and insert as a batch of one.                                *)

\* Each entry is in the collection of one thread.
StartInsert(t, set) ==
  /\ pc[t] = "idle"
  /\ set # {} /\ set \subseteq fresh
  /\ fresh' = fresh \ set
  /\ batch' = [batch EXCEPT ![t] = set]
  /\ size' = [size EXCEPT ![t] = Cardinality(set)]
  /\ Go(t, "load")
  /\ UNCHANGED <<entries, next, nrEntries, entry, loc, count, chain, lookupVars>>

\* The first load of the head for an entry, and entry->next = ptr(loc).
Load(t) ==
  /\ pc[t] = "load"
  /\ \E e \in batch[t] :
       LET word == entries[Bucket(e)] IN
       /\ entry' = [entry EXCEPT ![t] = e]
       /\ loc' = [loc EXCEPT ![t] = word]
       /\ next' = [next EXCEPT ![e] = word.ptr]
       /\ batch' = [batch EXCEPT ![t] = @ \ {e}]
  /\ Go(t, "swap")
  /\ UNCHANGED <<entries, nrEntries, size, count, fresh, chain, lookupVars>>

\* update: the entry with the tags of the chain and its own.  Mutant: with its
\* own only.
UpdateOwn(word, e) ==
  [ptr |-> e, tags |-> IF UseTags THEN {TagOf[Hash(e)]} ELSE {}]

Update(word, e) ==
  [ptr |-> e,
   tags |-> IF UseTags THEN word.tags \cup {TagOf[Hash(e)]} ELSE {}]

\* compare_exchange_weak(loc, newLoc) succeeds.  Mutant: a store that does not
\* compare.
SwapBlindly(t) ==
  LET b == Bucket(entry[t]) IN
  /\ pc[t] = "swap"
  /\ entries' = [entries EXCEPT ![b] = Update(loc[t], entry[t])]
  /\ chain' = [chain EXCEPT ![b] = Append(@, entry[t])]
  /\ Go(t, IF batch[t] = {} THEN "count" ELSE "load")
  /\ UNCHANGED <<next, nrEntries, batch, size, entry, loc, count, fresh, lookupVars>>

Swap(t) ==
  LET b == Bucket(entry[t]) IN
  /\ pc[t] = "swap"
  /\ entries[b] = loc[t]
  /\ entries' = [entries EXCEPT ![b] = Update(loc[t], entry[t])]
  /\ chain' = [chain EXCEPT ![b] = Append(@, entry[t])]
  /\ Go(t, IF batch[t] = {} THEN "count" ELSE "load")
  /\ UNCHANGED <<next, nrEntries, batch, size, entry, loc, count, fresh, lookupVars>>

\* It fails because the word has changed, or for no reason: loc is the word
\* that is there, and the loop begins anew.  Mutants: the entry keeps its next;
\* the failure does not bring the word.
SwapRetries(t) ==
  /\ pc[t] = "swap"
  /\ loc' = [loc EXCEPT ![t] = entries[Bucket(entry[t])]]
  /\ UNCHANGED <<entries, next, pc, entry, insertVars, lookupVars>>

SwapWaits(t) ==
  /\ pc[t] = "swap"
  /\ next' = [next EXCEPT ![entry[t]] = loc[t].ptr]
  /\ UNCHANGED <<entries, pc, entry, loc, insertVars, lookupVars>>

SwapFails(t) ==
  LET word == entries[Bucket(entry[t])] IN
  /\ pc[t] = "swap"
  /\ loc' = [loc EXCEPT ![t] = word]
  /\ next' = [next EXCEPT ![entry[t]] = word.ptr]
  /\ UNCHANGED <<entries, pc, entry, insertVars, lookupVars>>

\* The locals of the call end with it.
EndInsert(t) ==
  /\ size' = [size EXCEPT ![t] = 0]
  /\ entry' = [entry EXCEPT ![t] = Null]
  /\ loc' = [loc EXCEPT ![t] = Empty]
  /\ count' = [count EXCEPT ![t] = 0]
  /\ Go(t, "idle")

\* nrEntries += n, on a plain size_t.
CountLoad(t) ==
  /\ pc[t] = "count"
  /\ count' = [count EXCEPT ![t] = nrEntries]
  /\ Go(t, "add")
  /\ UNCHANGED <<entries, next, nrEntries, batch, size, entry, loc, fresh, chain, lookupVars>>

\* Mutant: one is added after every insert of a batch already counted.
CountTwice(t) ==
  /\ pc[t] = "add"
  /\ nrEntries' = count[t] + size[t] + 1
  /\ EndInsert(t)
  /\ UNCHANGED <<entries, next, batch, fresh, chain, lookupVars>>

CountStore(t) ==
  /\ pc[t] = "add"
  /\ nrEntries' = count[t] + size[t]
  /\ EndInsert(t)
  /\ UNCHANGED <<entries, next, batch, fresh, chain, lookupVars>>

-----------------------------------------------------------------------------
(* findOne and findOneEntry.                                               *)

StartFind(t, k) ==
  /\ pc[t] = "idle"
  /\ key' = [key EXCEPT ![t] = k]
  /\ Go(t, "find")
  /\ UNCHANGED <<entries, next, entry, loc, insertVars, answer, right>>

\* The filter of find_chain_tagged.
PassesFilter(word, h) == UseTags => TagOf[h] \in word.tags

\* find_chain, find_chain_tagged
FindChain(t) ==
  LET h == HashOf[key[t]]
      word == entries[BucketOf[h]]
      matching == {e \in stored : KeyOf[e] = key[t]}
  IN
  /\ pc[t] = "find"
  /\ entry' = [entry EXCEPT ![t] = IF PassesFilter(word, h) THEN word.ptr ELSE Null]
  /\ right' = [right EXCEPT ![t] = IF matching = {} THEN {Null} ELSE matching]
  /\ Go(t, "walk")
  /\ UNCHANGED <<entries, next, loc, insertVars, key, answer>>

IsMatch(t) == Hash(entry[t]) = HashOf[key[t]] /\ KeyOf[entry[t]] = key[t]

Step(t) ==
  /\ pc[t] = "walk" /\ entry[t] # Null /\ ~IsMatch(t)
  /\ entry' = [entry EXCEPT ![t] = next[entry[t]]]
  /\ UNCHANGED <<entries, next, pc, loc, insertVars, lookupVars>>

Return(t) ==
  /\ pc[t] = "walk" /\ (entry[t] # Null => IsMatch(t))
  /\ answer' = [answer EXCEPT ![t] = entry[t]]
  /\ key' = [key EXCEPT ![t] = Null]
  /\ right' = [right EXCEPT ![t] = {}]
  /\ entry' = [entry EXCEPT ![t] = Null]
  /\ Go(t, "idle")
  /\ UNCHANGED <<entries, next, loc, insertVars>>

-----------------------------------------------------------------------------
(* What may only be called by one thread alone.                            *)

Alone == \A t \in Threads : pc[t] = "idle"

\* findOrCreate of a key that is not there yet: insert<false> of a new entry.
\* That it finds a key that is there is what the lookups show.
Create(e) ==
  LET b == Bucket(e) IN
  /\ Alone
  /\ e \in fresh /\ KeyOf[e] \notin {KeyOf[f] : f \in stored}
  /\ next' = [next EXCEPT ![e] = entries[b].ptr]
  /\ entries' = [entries EXCEPT ![b] = Update(entries[b], e)]
  /\ nrEntries' = nrEntries + 1
  /\ fresh' = fresh \ {e}
  /\ chain' = [chain EXCEPT ![b] = Append(@, e)]
  /\ UNCHANGED <<pc, batch, size, entry, loc, count, lookupVars>>

\* clear forgets the entries and leaves them as they are.
Clear ==
  /\ Alone
  /\ entries' = [b \in Buckets |-> Empty]
  /\ nrEntries' = 0
  /\ fresh' = Entries
  /\ chain' = [b \in Buckets |-> <<>>]
  /\ UNCHANGED <<next, pc, batch, size, entry, loc, count, lookupVars>>

-----------------------------------------------------------------------------
Inserts(t) == Load(t) \/ Swap(t) \/ SwapFails(t) \/ CountLoad(t) \/ CountStore(t)
Finds(t) == FindChain(t) \/ Step(t) \/ Return(t)

Next ==
  \/ \E t \in Threads :
       \/ Inserts(t) \/ Finds(t)
       \/ \E set \in SUBSET Entries : StartInsert(t, set)
       \/ \E k \in Keys : StartFind(t, k)
  \/ \E e \in Entries : Create(e)
  \/ Clear

\* A thread that is in a call runs, and compare_exchange_weak does not fail for
\* no reason for ever.
Fairness ==
  \A t \in Threads : WF_vars(Inserts(t) \/ Finds(t)) /\ SF_vars(Swap(t))

SafeSpec == Init /\ [][Next]_vars

Spec == SafeSpec /\ Fairness

-----------------------------------------------------------------------------
(* Properties.                                                             *)

TypeOK ==
  /\ entries \in [Buckets -> Words]
  /\ next \in [Entries -> Pointers]
  /\ nrEntries \in Nat
  /\ pc \in [Threads -> {"idle", "load", "swap", "count", "add", "find", "walk"}]
  /\ batch \in [Threads -> SUBSET Entries]
  /\ size \in [Threads -> Nat]
  /\ entry \in [Threads -> Pointers]
  /\ loc \in [Threads -> Words]
  /\ count \in [Threads -> Nat]
  /\ key \in [Threads -> Keys \cup {Null}]
  /\ answer \in [Threads -> Pointers]
  /\ fresh \subseteq Entries
  /\ chain \in [Buckets -> Seq(Entries)]
  /\ right \in [Threads -> SUBSET Pointers]

\* The chain that starts at a head and runs along next holds each entry that
\* was inserted in the bucket, in order and up to the end: a compare-and-swap
\* that wins over a stale load would cut off what went in between.
ChainsAreLinked ==
  \A b \in Buckets :
    LET c == chain[b] IN
    /\ entries[b].ptr = IF c = <<>> THEN Null ELSE c[Len(c)]
    /\ \A i \in 1..Len(c) : next[c[i]] = IF i = 1 THEN Null ELSE c[i - 1]

\* No entry is in the table twice, which would close a chain to a ring.
EntriesOccurOnce ==
  /\ \A b, d \in Buckets : \A i \in 1..Len(chain[b]), j \in 1..Len(chain[d]) :
       chain[b][i] = chain[d][j] => b = d /\ i = j
  /\ fresh \cap stored = {}

\* The filter lets every lookup through whose key is in the chain: the tags in
\* a word cover the chain, also when a word was replaced while a thread built
\* its own.
TagsCoverTheChain ==
  UseTags =>
    \A b \in Buckets : \A e \in Members(b) : TagOf[Hash(e)] \in entries[b].tags

\* nrEntries++ may lose counts when threads insert at the same time, it never
\* counts what is not there.
SizeIsNoOverestimate == nrEntries <= Cardinality(stored)

Store == INSTANCE EntryStore WITH asked <- key

\* A lookup beside any number of inserts answers as if the table had stood
\* still at one moment of it, and what was inserted stays.
KeepsEntries == Store!Spec

\* Every call ends: a compare-and-swap fails only as often as others succeed,
\* and no insert makes the chain longer before a thread that walks it.
CallsEnd == \A t \in Threads : pc[t] # "idle" ~> pc[t] = "idle"
=============================================================================
