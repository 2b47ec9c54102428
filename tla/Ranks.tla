-------------------------------- MODULE Ranks --------------------------------
(***************************************************************************)
(* The order in which what is left to do goes down.  A rank is a triple of *)
(* naturals, the first place counting most: what a queue holds, say, then  *)
(* the place in the code, then what a loop has left there.  Several actors *)
(* have a family of ranks; a step may change the ranks of others, as long  *)
(* as none of them gets larger.                                            *)
(***************************************************************************)
EXTENDS Naturals

Triples == Nat \X Nat \X Nat

Smaller(p, q) ==
  \/ p[1] < q[1]
  \/ p[1] = q[1] /\ p[2] < q[2]
  \/ p[1] = q[1] /\ p[2] = q[2] /\ p[3] < q[3]

NotLarger(p, q) == p = q \/ Smaller(p, q)

\* Family f of ranks comes after family g.
Lower(f, g) ==
  /\ \A x \in DOMAIN g : NotLarger(f[x], g[x])
  /\ \E x \in DOMAIN g : Smaller(f[x], g[x])

\* The pairs of ranks, and of families over the set I, that are in this order.
Descent == {pq \in Triples \X Triples : Smaller(pq[1], pq[2])}

FamilyDescent(I) ==
  {fg \in [I -> Triples] \X [I -> Triples] : Lower(fg[1], fg[2])}
=============================================================================
