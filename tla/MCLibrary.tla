----------------------------- MODULE MCLibrary -----------------------------
(***************************************************************************)
(* The parts of the runtime library that know nothing of each other, in    *)
(* one run: a behaviour is one of the part that Init chooses, the others   *)
(* stay where they begin.                                                  *)
(***************************************************************************)
EXTENDS Allocator, GlobalPool, ColumnCache, WorkerGroup

CONSTANTS t1, t2

VARIABLE part

MCThreads == {t1, t2}

\* three versions of a table, of one, two and three rows
MCRowsOf == <<1, 2, 3>>

ASSUME LibraryAssumption ==
  PoolAssumption /\ StoreAssumption

libraryVars == <<vars, part, poolVars, groupVars, storeVars>>

LibraryInit ==
  /\ part \in {"allocator", "pool", "group", "store"}
  /\ Init /\ PoolInit /\ GroupInit /\ StoreInit
  /\ part # "pool" => current = 1
  /\ part # "group" => groupSize = 1
  /\ part # "store" => tbl = 1

LibraryNext ==
  \/ part = "allocator" /\ Next /\ UNCHANGED <<poolVars, groupVars, storeVars, part>>
  \/ part = "pool" /\ PoolNext /\ UNCHANGED <<vars, groupVars, storeVars, part>>
  \/ part = "group" /\ GroupNext /\ UNCHANGED <<vars, poolVars, storeVars, part>>
  \/ part = "store" /\ StoreNext /\ UNCHANGED <<vars, poolVars, groupVars, part>>

LibrarySpec == LibraryInit /\ [][LibraryNext]_libraryVars

-----------------------------------------------------------------------------
\* The type invariants of the four parts.
PartsTypeOK == TypeOK /\ PoolTypeOK /\ GroupTypeOK /\ StoreTypeOK
=============================================================================
