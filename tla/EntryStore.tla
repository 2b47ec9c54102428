---------------------------- MODULE EntryStore ----------------------------
(***************************************************************************)
(* What a hash table promises the threads that share it: entries go in one *)
(* at a time and stay until the table is cleared, and a lookup answers as  *)
(* if it had looked at the whole table at one moment between its call and  *)
(* its return.  How chains and tagged words achieve it is in Hashmap.      *)
(***************************************************************************)
CONSTANTS
  Threads,
  Entries,
  Keys,
  KeyOf,    \* [Entries -> Keys]
  Null      \* no entry, no key

VARIABLES
  stored,   \* the entries in the table
  asked,    \* the key a thread looks for, or Null
  right,    \* the answers that were right when its lookup took effect
  answer    \* what its last lookup returned

vars == <<stored, asked, right, answer>>

\* findOne is content with any entry of the key.
RightNow(k) ==
  LET matching == {e \in stored : KeyOf[e] = k}
  IN  IF matching = {} THEN {Null} ELSE matching

Init ==
  /\ stored = {}
  /\ asked = [t \in Threads |-> Null]
  /\ right = [t \in Threads |-> {}]
  /\ answer = [t \in Threads |-> Null]

Store(e) ==
  /\ e \notin stored
  /\ stored' = stored \cup {e}
  /\ UNCHANGED <<asked, right, answer>>

Ask(t, k) ==
  /\ asked[t] = Null
  /\ asked' = [asked EXCEPT ![t] = k]
  /\ UNCHANGED <<stored, right, answer>>

\* The moment at which the lookup takes effect.
Look(t) ==
  /\ asked[t] # Null /\ right[t] = {}
  /\ right' = [right EXCEPT ![t] = RightNow(asked[t])]
  /\ UNCHANGED <<stored, asked, answer>>

Return(t) ==
  /\ asked[t] # Null
  /\ \E e \in right[t] : answer' = [answer EXCEPT ![t] = e]
  /\ asked' = [asked EXCEPT ![t] = Null]
  /\ right' = [right EXCEPT ![t] = {}]
  /\ UNCHANGED stored

\* Not beside anything else.
Clear ==
  /\ \A t \in Threads : asked[t] = Null
  /\ stored' = {}
  /\ UNCHANGED <<asked, right, answer>>

Next ==
  \/ \E e \in Entries : Store(e)
  \/ Clear
  \/ \E t \in Threads : Look(t) \/ Return(t) \/ \E k \in Keys : Ask(t, k)

Spec == Init /\ [][Next]_vars
=============================================================================
