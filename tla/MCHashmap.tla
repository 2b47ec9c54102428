----------------------------- MODULE MCHashmap -----------------------------
(* Two threads and three entries in one chain: two apples, and a pear of   *)
(* another hash and tag.                                                   *)
EXTENDS Hashmap, TLC

CONSTANTS t1, t2, e1, e2, e3, apple, pear

MCThreads == {t1, t2}
MCEntries == {e1, e2, e3}
MCKeys == {apple, pear}
MCKeyOf == e1 :> apple @@ e2 :> pear @@ e3 :> apple
MCHashOf == apple :> 1 @@ pear :> 2
MCBucketOf == 1 :> 0 @@ 2 :> 0
MCTagOf == 1 :> 0 @@ 2 :> 1
=============================================================================
