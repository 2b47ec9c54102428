--------------------------- MODULE DataDictionary ---------------------------
(***************************************************************************)
(* The dictionaries of the two execution layers as functions, and what a   *)
(* buffer can hold.  openCL_layer::mDataDictionary maps (alias, device) to *)
(* a buffer, cpp_layer::mDataDictionary maps an alias to host memory.      *)
(***************************************************************************)

\* What is in a buffer, as far as a query can tell: a column as it was
\* loaded, the result of an operation on its right inputs, the zeros of
\* calloc, the result of an operation on anything else, or the buffer of an
\* earlier query.
Column(key) == <<"column", key>>
Result(v)   == <<"result", v>>
Zeros       == <<"zeros", 0>>
Wrong       == <<"wrong", 0>>
Stale       == <<"stale", 0>>

\* std::map::insert: an entry that exists stays as it is.
Insert(dict, k, content) ==
  IF k \in DOMAIN dict
  THEN dict
  ELSE [x \in DOMAIN dict \cup {k} |-> IF x = k THEN content ELSE dict[x]]

\* cpp_layer::add_data assigns through operator[].
Assign(dict, k, content) ==
  [x \in DOMAIN dict \cup {k} |-> IF x = k THEN content ELSE dict[x]]

\* delete_data: nothing happens when the entry is absent.
Erase(dict, k) == [x \in DOMAIN dict \ {k} |-> dict[x]]

\* get_data reads through find()->second without a look at end().  For an
\* entry that is absent the read is undefined: what is not a crash is a
\* failed clEnqueueReadBuffer, which leaves the zeros of the calloc.
Fetched(dict, k) == IF k \in DOMAIN dict THEN dict[k] ELSE Zeros

\* transfer_data: the buffer is copied to the target and deleted at the
\* source, it moves.
Transfer(dict, alias, source, target) ==
  Erase(Insert(dict, <<alias, target>>, Fetched(dict, <<alias, source>>)),
        <<alias, source>>)
=============================================================================
