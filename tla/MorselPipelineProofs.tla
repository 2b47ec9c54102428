------------------------ MODULE MorselPipelineProofs ------------------------
(***************************************************************************)
(* What holds of morsel_driven for every number of devices, selections and *)
(* rows.                                                                   *)
(*                                                                         *)
(* Control says where the two threads of a device can be and that no two   *)
(* devices have an operation in common.  Sizes is about the morsels of an  *)
(* operation, whenever it was taken.  Timely follows the morsels from the  *)
(* operations that have ended to those in work, along the chain up to the  *)
(* first that was taken late.                                              *)
(***************************************************************************)
EXTENDS MorselPipeline, Ranks, SequenceTheorems, TLAPS

\* Morsels of an operation that reads selections.
Packed == Rows \div Pack

IsQueued(o) == \E k \in DOMAIN queue : queue[k] = o

\* An operation of which no morsel was brought or processed.
Untouched(o) ==
  /\ limit[o] = 0 /\ fetched[o] = 0 /\ processed[o] = 0 /\ good[o] = {}
  /\ o \notin ended

\* The two threads of device d, and the edge that one of them has in hand.
Threads(d) ==
  /\ at[d] = None <=> transfer[d] = "none"
  /\ process[d] = "none" <=> transfer[d] \in {"none", "take"}
  /\ transfer[d] \notin {"inspect", "sub", "copy"} => edge[d] = 1
  /\ transfer[d] \in {"none", "take", "name", "size"} \/ (transfer[d] = "inspect" /\ edge[d] = 1)
       => maxSize[d] = 0
  /\ at[d] # None =>
       /\ edge[d] <= Len(Inputs(at[d]))
       /\ ~IsQueued(at[d])
       /\ process[d] = "done" <=> at[d] \in ended
       /\ process[d] = "done" => IsInitialized(d)
       /\ transfer[d] = "take" => dataSize[at[d]] = SizeAtFirst(at[d])
       /\ transfer[d] = "copy" => fetched[at[d]] < limit[at[d]]

Control ==
  /\ \A i, j \in DOMAIN queue : queue[i] = queue[j] => i = j
  /\ \A o \in Operations : IsQueued(o) =>
       /\ Untouched(o) /\ dataSize[o] = SizeAtFirst(o)
       /\ \A e \in EdgesInto(o) : edgeFetched[e] = 0 /\ right[e] = {}
  /\ \A c, d \in Devices : at[c] = at[d] /\ at[d] # None => c = d
  /\ \A d \in Devices : Threads(d)

\* A selection has its size from the first, and its reader sees that or the
\* packed one; nothing is processed behind the size of the operation.
MorselsFit(o) ==
  /\ IsSelection(o) => dataSize[o] = Rows /\ edgeSize[o] \in {Rows, Packed}
  /\ processed[o] <= limit[o] /\ processed[o] <= dataSize[o]
  /\ o \in ended => processed[o] = limit[o] /\ limit[o] >= TrueSize(o)

\* The limit is set when all inputs have been looked at.
LimitIsSet(d) ==
  /\ ~IsInitialized(d) => Untouched(at[d])
  /\ IsInitialized(d) => limit[at[d]] >= TrueSize(at[d])

Sizes ==
  /\ \A o \in Operations : MorselsFit(o)
  /\ \A d \in Devices : at[d] # None => LimitIsSet(d)

\* What an operation that has ended leaves to its reader.
Complete(o) ==
  /\ where[o] \in Devices
  /\ dataSize[o] = TrueSize(o) /\ edgeSize[o] = Packed
  /\ good[o] = 0..(TrueSize(o) - 1)

\* The morsels of edge e that device d, its reader, has brought.
Brought(d, e) ==
  fetched[e[1]] + (IF IsInitialized(d) /\ e[2] < edge[d] THEN 1 ELSE 0)

\* Device d works on what others have ended.
OnTime(d) ==
  LET o == at[d] IN
  /\ \A e \in EdgesInto(o) : Producer(e) \in ended \cup {None}
  /\ transfer[d] # "take" => dataSize[o] = TrueSize(o)
  /\ transfer[d] \notin {"take", "name"} => where[o] = d
  /\ transfer[d] \notin {"take", "name", "size"} => edgeSize[o] = Packed
  /\ transfer[d] = "inspect" /\ edge[d] = 2 => maxSize[d] = TrueSize(o)
  /\ IsInitialized(d) => limit[o] = TrueSize(o)
  /\ fetched[o] <= TrueSize(o)
  /\ good[o] = 0..(processed[o] - 1)
  /\ \A e \in EdgesInto(o) : From(e) # d =>
       edgeFetched[e] = Brought(d, e) /\ right[e] = 0..(edgeFetched[e] - 1)
  /\ transfer[d] = "copy" => From(<<o, edge[d]>>) # d

Timely ==
  /\ late = {} => ~failed
  /\ \A o \in ended : InTime(o) => Complete(o)
  /\ \A d \in Devices : at[d] # None /\ InTime(at[d]) => OnTime(d)

IInv == TypeOK /\ Control /\ Sizes /\ Timely

-----------------------------------------------------------------------------
(* Sizes and edges.                                                        *)

LEMMA PackedRows ==
  /\ Rows \in Nat /\ Rows > 0 /\ Pack \in Nat /\ Pack > 0
  /\ Packed \in 1..Rows /\ Rows = Pack * Packed
<1>1. Rows \in Nat /\ Rows > 0 /\ Pack \in Nat /\ Pack > 0 /\ Rows % Pack = 0
  BY MorselAssumption
<1>2. Rows % Pack = Rows - Pack * (Rows \div Pack) /\ Rows \div Pack \in Int
  BY <1>1
<1>3. Rows = Pack * Packed /\ Packed \in Int
  BY <1>1, <1>2 DEF Packed
<1>4. Packed > 0
  BY <1>1, <1>3
<1>5. Packed <= Pack * Packed
  BY <1>1, <1>3, <1>4
<1>6. QED
  BY <1>1, <1>3, <1>4, <1>5

LEMMA TrueSizes ==
  \A o \in Operations : TrueSize(o) = (IF IsSelection(o) THEN Rows ELSE Packed)
                        /\ TrueSize(o) \in 1..Rows /\ TrueSize(o) >= Packed
  BY PackedRows DEF TrueSize, Packed

\* The morsels a morsel of the reader is made of are morsels of the operation.
LEMMA SourceOfMorsel ==
  ASSUME NEW p \in Operations, NEW m \in 0..(Packed - 1)
  PROVE  Source(p, m) \subseteq 0..(TrueSize(p) - 1)
<1>1. CASE IsSelection(p)
  <2>1. /\ m \in Nat /\ m + 1 <= Packed /\ Packed \in Nat /\ Pack \in Nat /\ Pack > 0
        /\ Rows = Pack * Packed
    BY PackedRows
  <2>2. (m + 1) * Pack <= Packed * Pack
    BY <2>1
  <2>3. (m + 1) * Pack = m * Pack + Pack /\ Packed * Pack = Pack * Packed
    BY <2>1
  <2>4. m * Pack \in Nat
    BY <2>1
  <2>5. Source(p, m) = (m * Pack)..(m * Pack + Pack - 1)
    BY <1>1 DEF Source, Width
  <2>6. QED
    BY <1>1, <2>1, <2>2, <2>3, <2>4, <2>5, TrueSizes
<1>2. CASE ~IsSelection(p)
  <2>1. Source(p, m) = (m * 1)..(m * 1 + 1 - 1) /\ m * 1 = m
    BY <1>2 DEF Source, Width
  <2>2. QED
    BY <1>2, <2>1, PackedRows, TrueSizes
<1>3. QED
  BY <1>1, <1>2

\* What an operation reads comes before it; its second input is a selection.
LEMMA Reading ==
  ASSUME NEW o \in Operations
  PROVE  /\ None \notin Operations /\ o \in Nat
         /\ IsSelection(o) =>
              Len(Inputs(o)) = 1 /\ Inputs(o)[1] = None
         /\ ~IsSelection(o) =>
              /\ Len(Inputs(o)) = 2
              /\ Inputs(o)[1] \in Operations /\ Inputs(o)[1] < o
              /\ Inputs(o)[2] \in Operations /\ Inputs(o)[2] < o /\ IsSelection(Inputs(o)[2])
<1>1. Selections \in Nat /\ Selections >= 2 /\ None \notin Nat
  BY MorselAssumption
<1>2. o \in 1..(2 * Selections - 1)
  BY DEF Operations
<1>3. CASE IsSelection(o)
  BY <1>1, <1>2, <1>3 DEF Operations, IsSelection, Inputs
<1>4. CASE ~IsSelection(o)
  <2>1. Inputs(o) = <<IF o = Selections + 1 THEN 1 ELSE o - 1, o - Selections + 1>>
    BY <1>4 DEF Inputs
  <2>2. o >= Selections + 1
    BY <1>1, <1>2, <1>4 DEF IsSelection
  <2>3. QED
    BY <1>1, <1>2, <1>4, <2>1, <2>2 DEF Operations, IsSelection
<1>5. QED
  BY <1>3, <1>4

LEMMA InputCount ==
  ASSUME NEW o \in Operations
  PROVE  /\ Len(Inputs(o)) = (IF IsSelection(o) THEN 1 ELSE 2) /\ Len(Inputs(o)) \in {1, 2}
         /\ 1 <= Len(Inputs(o))
         /\ \A k \in {1, 2} : k <= Len(Inputs(o)) /\ k # Len(Inputs(o)) =>
              k = 1 /\ k + 1 = 2 /\ Len(Inputs(o)) = 2 /\ ~IsSelection(o)
<1>1. CASE IsSelection(o)
  <2>1. Len(Inputs(o)) = 1
    BY <1>1, Reading
  <2>2. QED
    BY <1>1, <2>1
<1>2. CASE ~IsSelection(o)
  <2>1. Len(Inputs(o)) = 2
    BY <1>2, Reading
  <2>2. QED
    BY <1>2, <2>1
<1>3. QED
  BY <1>1, <1>2

LEMMA EdgeShape ==
  ASSUME NEW o \in Operations
  PROVE  /\ \A k \in {1, 2} : k <= Len(Inputs(o)) =>
              /\ <<o, k>> \in Edges /\ <<o, k>> \in EdgesInto(o)
              /\ Producer(<<o, k>>) = Inputs(o)[k]
         /\ \A e \in EdgesInto(o) :
              /\ e \in Edges /\ e[1] = o /\ e[2] \in {1, 2} /\ e[2] <= Len(Inputs(o))
              /\ e = <<o, e[2]>>
              /\ Producer(e) \in Operations \cup {None} /\ Producer(e) # o
              /\ Producer(e) = None <=> IsSelection(o)
<1>1. Len(Inputs(o)) \in {1, 2} /\ None # o
  BY Reading
<1>2. \A k \in {1, 2} : k <= Len(Inputs(o)) =>
        /\ <<o, k>> \in Edges /\ <<o, k>> \in EdgesInto(o)
        /\ Producer(<<o, k>>) = Inputs(o)[k]
  BY DEF Edges, EdgesInto, Producer
<1>3. ASSUME NEW e \in EdgesInto(o)
      PROVE  /\ e \in Edges /\ e[1] = o /\ e[2] \in {1, 2} /\ e[2] <= Len(Inputs(o))
             /\ e = <<o, e[2]>>
  BY DEF Edges, EdgesInto
<1>4. ASSUME NEW e \in EdgesInto(o)
      PROVE  /\ Producer(e) \in Operations \cup {None} /\ Producer(e) # o
             /\ Producer(e) = None <=> IsSelection(o)
  <2>1. Producer(e) = Inputs(o)[e[2]] /\ e[2] \in {1, 2} /\ e[2] <= Len(Inputs(o))
    BY <1>3 DEF Producer
  <2>2. QED
    BY <1>1, <2>1, Reading
<1>5. QED
  BY <1>2, <1>3, <1>4

-----------------------------------------------------------------------------
(* A step of a device is about the operation it has, and about no other.   *)

IsLocal(d) ==
  /\ queue' = queue /\ at' = at /\ late' = late
  /\ \A c \in Devices \ {d} :
       /\ transfer'[c] = transfer[c] /\ process'[c] = process[c]
       /\ edge'[c] = edge[c] /\ maxSize'[c] = maxSize[c]
  /\ \A o \in Operations \ {at[d]} :
       /\ where'[o] = where[o] /\ edgeSize'[o] = edgeSize[o] /\ dataSize'[o] = dataSize[o]
       /\ limit'[o] = limit[o] /\ fetched'[o] = fetched[o]
       /\ processed'[o] = processed[o] /\ good'[o] = good[o]
       /\ o \in ended' <=> o \in ended
  /\ \A e \in Edges : e[1] # at[d] =>
       edgeFetched'[e] = edgeFetched[e] /\ right'[e] = right[e]

\* The steps of a device with an operation, but for the last.
Works(d) == Take(d) \/ Transfers(d) \/ Processes(d)

LEMMA AtWork ==
  ASSUME TypeOK, Control, NEW d \in Devices, at[d] # None
  PROVE  /\ at[d] \in Operations /\ Threads(d)
         /\ edge[d] \in {1, 2} /\ edge[d] <= Len(Inputs(at[d]))
         /\ <<at[d], edge[d]>> \in Edges /\ <<at[d], edge[d]>> \in EdgesInto(at[d])
         /\ \A c \in Devices \ {d} : at[c] # at[d]
<1>1. at[d] \in Operations /\ edge[d] \in {1, 2} /\ Threads(d)
  BY DEF TypeOK, Control
<1>2. edge[d] <= Len(Inputs(at[d])) /\ \A c \in Devices \ {d} : at[c] # at[d]
  BY <1>1 DEF Threads, Control
<1>3. QED
  BY <1>1, <1>2, EdgeShape

LEMMA WorkIsLocal ==
  ASSUME TypeOK, Control, NEW d \in Devices, Works(d)
  PROVE  at[d] # None /\ IsLocal(d)
<1>1. Threads(d)
  BY DEF Control
<1>2. at[d] # None
  BY <1>1 DEF Threads, Works, Transfers, Processes, Take, Name, SetSize, Inspect, SubBuffer,
              Copy, SkipEdge, TransferEnds, ProcessMorsel, ProcessFails, ProcessEnds,
              IsInitialized
<1>3. PICK o \in Operations : o = at[d] /\ <<o, edge[d]>> \in Edges /\ <<o, edge[d]>>[1] = o
  BY <1>2, AtWork
<1> USE DEF IsLocal, TypeOK
<1>4. ASSUME Take(d) PROVE IsLocal(d)
  BY <1>3, <1>4 DEF Take
<1>5. ASSUME Name(d) PROVE IsLocal(d)
  BY <1>3, <1>5 DEF Name
<1>6. ASSUME SetSize(d) PROVE IsLocal(d)
  BY <1>3, <1>6 DEF SetSize
<1>7. ASSUME Inspect(d) PROVE IsLocal(d)
  <2>1. /\ UNCHANGED <<queue, at, process, where, edgeSize, dataSize, fetched,
                       right, processed, good, ended, late>>
        /\ \A c \in Devices \ {d} : /\ transfer'[c] = transfer[c] /\ edge'[c] = edge[c]
                                    /\ maxSize'[c] = maxSize[c]
        /\ \A p \in Operations \ {o} : limit'[p] = limit[p]
        /\ \A e \in Edges : e[1] # o => edgeFetched'[e] = edgeFetched[e]
    BY <1>3, <1>7 DEF Inspect, NextEdge
  <2>2. QED
    BY <1>3, <2>1
<1>8. ASSUME SubBuffer(d) PROVE IsLocal(d)
  BY <1>3, <1>8 DEF SubBuffer
<1>9. ASSUME Copy(d) PROVE IsLocal(d)
  <2>1. /\ UNCHANGED <<queue, at, process, maxSize, where, edgeSize, dataSize, limit,
                       processed, good, ended, late>>
        /\ \A c \in Devices \ {d} : transfer'[c] = transfer[c] /\ edge'[c] = edge[c]
        /\ \A p \in Operations \ {o} : fetched'[p] = fetched[p]
        /\ \A e \in Edges : e[1] # o => edgeFetched'[e] = edgeFetched[e] /\ right'[e] = right[e]
    BY <1>3, <1>9 DEF Copy, Fetched
  <2>2. QED
    BY <1>3, <2>1
<1>10. ASSUME SkipEdge(d) PROVE IsLocal(d)
  BY <1>3, <1>10 DEF SkipEdge, NextEdge, Fetched
<1>11. ASSUME TransferEnds(d) PROVE IsLocal(d)
  BY <1>3, <1>11 DEF TransferEnds
<1>12. ASSUME ProcessMorsel(d) PROVE IsLocal(d)
  BY <1>3, <1>12 DEF ProcessMorsel
<1>13. ASSUME ProcessFails(d) PROVE IsLocal(d)
  BY <1>3, <1>13 DEF ProcessFails
<1>14. ASSUME ProcessEnds(d) PROVE IsLocal(d)
  BY <1>3, <1>14 DEF ProcessEnds
<1>15. QED
  BY <1>2, <1>4, <1>5, <1>6, <1>7, <1>8, <1>9, <1>10, <1>11, <1>12, <1>13, <1>14
     DEF Works, Transfers, Processes

LEMMA ControlElsewhere ==
  ASSUME TypeOK, Control, NEW d \in Devices, at[d] # None, IsLocal(d), Threads(d)'
  PROVE  Control'
<1>1. PICK o \in Operations : o = at[d] /\ ~IsQueued(o) /\ \A c \in Devices \ {d} : at[c] # o
  BY AtWork DEF Threads
<1>2. \A p : IsQueued(p)' <=> IsQueued(p)
  BY DEF IsQueued, IsLocal
<1>3. ASSUME NEW p \in Operations, IsQueued(p)
      PROVE  /\ Untouched(p)' /\ dataSize'[p] = SizeAtFirst(p)
             /\ \A e \in EdgesInto(p) : edgeFetched'[e] = 0 /\ right'[e] = {}
  <2>1. p # o /\ \A e \in EdgesInto(p) : e \in Edges /\ e[1] = p
    BY <1>1, <1>3 DEF EdgesInto
  <2>2. QED
    BY <1>1, <1>3, <2>1 DEF Control, Untouched, IsLocal
<1>4. ASSUME NEW c \in Devices \ {d} PROVE Threads(c)'
  <2>1. Threads(c) /\ at[c] # o /\ (at[c] # None => at[c] \in Operations \ {o})
    BY <1>1 DEF Control, TypeOK
  <2>2. QED
    BY <1>1, <1>2, <2>1 DEF Threads, IsLocal, IsInitialized
<1>5. QED
  BY <1>2, <1>3, <1>4 DEF Control, IsLocal

LEMMA SizesElsewhere ==
  ASSUME TypeOK, Control, Sizes, NEW d \in Devices, at[d] # None, IsLocal(d),
         MorselsFit(at[d])', LimitIsSet(d)'
  PROVE  Sizes'
<1>1. PICK o \in Operations : o = at[d] /\ \A c \in Devices \ {d} : at[c] # o
  BY AtWork
<1>2. ASSUME NEW p \in Operations \ {o} PROVE MorselsFit(p)'
  BY <1>1 DEF Sizes, MorselsFit, IsLocal
<1>3. MorselsFit(o)'
  BY <1>1 DEF MorselsFit, IsLocal
<1>4. ASSUME NEW c \in Devices \ {d}, at[c] # None PROVE LimitIsSet(c)'
  <2>1. PICK p \in Operations \ {o} : p = at[c]
    BY <1>1, <1>4 DEF TypeOK
  <2>2. /\ at'[c] = p /\ limit'[p] = limit[p] /\ fetched'[p] = fetched[p]
        /\ processed'[p] = processed[p] /\ good'[p] = good[p] /\ (p \in ended' <=> p \in ended)
    BY <1>1, <2>1 DEF IsLocal
  <2>3. IsInitialized(c)' <=> IsInitialized(c)
    BY DEF IsLocal, IsInitialized
  <2>4. LimitIsSet(c)
    BY <1>4 DEF Sizes
  <2>5. QED
    BY <2>1, <2>2, <2>3, <2>4 DEF LimitIsSet, Untouched, TrueSize
<1>5. QED
  BY <1>1, <1>2, <1>3, <1>4 DEF Sizes, IsLocal

\* What a device has brought in time stays so: what it reads has ended and
\* does not change its place.
LEMMA TimelyElsewhere ==
  ASSUME TypeOK, TypeOK', Control, Timely, NEW d \in Devices, at[d] # None,
         IsLocal(d), ended \subseteq ended',
         at[d] \in ended => where'[at[d]] = where[at[d]],
         late = {} => ~failed',
         InTime(at[d]) => OnTime(d)' /\ (at[d] \in ended' => Complete(at[d])')
  PROVE  Timely'
<1>1. PICK o \in Operations : o = at[d] /\ \A c \in Devices \ {d} : at[c] # o
  BY AtWork
<1>2. ASSUME NEW p \in ended', InTime(p) PROVE Complete(p)'
  <2>1. p \in Operations
    BY DEF TypeOK
  <2>2. CASE p = o
    BY <1>1, <1>2, <2>2 DEF Complete, IsLocal
  <2>3. CASE p # o
    <3>1. Complete(p)
      BY <1>1, <1>2, <2>1, <2>3 DEF Timely, IsLocal
    <3>2. QED
      BY <1>1, <2>1, <2>3, <3>1 DEF Complete, IsLocal
  <2>4. QED
    BY <2>2, <2>3
<1>3. ASSUME NEW c \in Devices \ {d}, at[c] # None, InTime(at[c]) PROVE OnTime(c)'
  <2>1. PICK p \in Operations : p = at[c] /\ p # o
    BY <1>1, <1>3 DEF TypeOK
  <2>2. OnTime(c) /\ None \notin Operations /\ \A q \in ended : q \in Operations
    BY <1>3, Reading DEF Timely, TypeOK
  <2>3. \A q \in ended : where'[q] = where[q]
    BY <1>1, <2>2 DEF IsLocal
  <2>4. \A e \in EdgesInto(p) :
          /\ e \in Edges /\ e[1] = p
          /\ Producer(e) \in ended \cup {None} /\ From(e)' = From(e)
    BY <2>1, <2>2, <2>3, EdgeShape DEF OnTime, From
  <2>5. \A e \in EdgesInto(p) : /\ edgeFetched'[e] = edgeFetched[e] /\ right'[e] = right[e]
                                /\ Brought(c, e)' = Brought(c, e)
    BY <1>1, <2>1, <2>4 DEF IsLocal, Brought, IsInitialized
  <2>6. transfer[c] = "copy" => <<p, edge[c]>> \in EdgesInto(p)
    BY <1>3, <2>1, AtWork
  <2>7. /\ at'[c] = p /\ transfer'[c] = transfer[c] /\ edge'[c] = edge[c]
        /\ maxSize'[c] = maxSize[c] /\ dataSize'[p] = dataSize[p] /\ where'[p] = where[p]
        /\ edgeSize'[p] = edgeSize[p] /\ limit'[p] = limit[p] /\ fetched'[p] = fetched[p]
        /\ good'[p] = good[p] /\ processed'[p] = processed[p]
    BY <1>1, <2>1 DEF IsLocal
  <2>8. QED
    BY <2>1, <2>2, <2>4, <2>5, <2>6, <2>7 DEF OnTime, IsInitialized
<1>4. \A p : InTime(p)' <=> InTime(p)
  BY DEF InTime, IsLocal
<1>5. QED
  BY <1>1, <1>2, <1>3, <1>4 DEF Timely, IsLocal

-----------------------------------------------------------------------------
(* Types.                                                                  *)

LEMMA SizeOfEdge ==
  ASSUME TypeOK, NEW o \in Operations, NEW e \in EdgesInto(o)
  PROVE  /\ Size(e) \in 0..Rows
         /\ IsSelection(o) => Size(e) = Rows
         /\ ~IsSelection(o) => Size(e) = edgeSize[Producer(e)]
<1>1. Producer(e) = None <=> IsSelection(o)
  BY EdgeShape
<1>2. Producer(e) \in Operations \cup {None} /\ Rows \in Nat
  BY EdgeShape, PackedRows
<1>3. QED
  BY <1>1, <1>2 DEF Size, TypeOK

\* The edge whose size an operation without one takes.
LEMMA FirstSize ==
  ASSUME TypeOK, NEW o \in Operations
  PROVE  (IF Size(<<o, 1>>) # 0 THEN <<o, 1>> ELSE <<o, 2>>) \in EdgesInto(o)
<1>1. <<o, 1>> \in EdgesInto(o)
  BY EdgeShape, InputCount
<1>2. CASE IsSelection(o)
  BY <1>1, <1>2, SizeOfEdge, PackedRows
<1>3. CASE ~IsSelection(o)
  BY <1>1, <1>3, EdgeShape, InputCount
<1>4. QED
  BY <1>2, <1>3

LEMMA InitTyping == Init => TypeOK
<1> SUFFICES ASSUME Init PROVE TypeOK
  OBVIOUS
<1>1. Rows \in Nat /\ Rows > 0 /\ \A o : SizeAtFirst(o) \in 0..Rows
  BY PackedRows DEF SizeAtFirst
<1>2. queue \in Seq(Operations)
  <2>1. 2 * Selections - 1 \in Nat
    BY MorselAssumption
  <2>2. QED
    BY <2>1 DEF Init, Operations
<1>3. /\ at \in [Devices -> Operations \cup {None}] /\ edge \in [Devices -> {1, 2}]
      /\ transfer \in [Devices -> {"none", "take", "name", "size", "inspect", "sub", "copy",
                                    "done"}]
      /\ process \in [Devices -> {"none", "run", "done"}]
      /\ maxSize \in [Devices -> 0..Rows] /\ where \in [Operations -> Devices \cup {None}]
  BY <1>1 DEF Init
<1>4. /\ edgeSize \in [Operations -> 0..Rows] /\ dataSize \in [Operations -> 0..Rows]
      /\ limit \in [Operations -> 0..Rows] /\ fetched \in [Operations -> 0..Rows]
      /\ edgeFetched \in [Edges -> 0..Rows] /\ processed \in [Operations -> 0..Rows]
  BY <1>1 DEF Init
<1>5. /\ present \in [Edges -> SUBSET (0..(Rows - 1))] /\ right \in [Edges -> SUBSET (0..(Rows - 1))]
      /\ good \in [Operations -> SUBSET (0..(Rows - 1))]
      /\ ended \subseteq Operations /\ late \subseteq Operations /\ failed \in BOOLEAN
  BY DEF Init
<1>6. QED
  BY <1>2, <1>3, <1>4, <1>5 DEF TypeOK

LEMMA KeepTyping ==
  ASSUME TypeOK, Control, Sizes, [Next]_vars
  PROVE  TypeOK'
<1>0. Rows \in Nat /\ Rows > 0 /\ Packed \in 0..Rows
  BY PackedRows
<1>1. ASSUME NEW d \in Devices, Pop(d) PROVE TypeOK'
  <2>1. Head(queue) \in Operations /\ Tail(queue) \in Seq(Operations)
    BY <1>1 DEF Pop, TypeOK
  <2>2. late' \subseteq Operations
    BY <1>1, <2>1 DEF Pop, TypeOK
  <2>3. QED
    BY <1>1, <2>1, <2>2 DEF Pop, TypeOK
<1>2. ASSUME NEW d \in Devices, Join(d) PROVE TypeOK'
  BY <1>0, <1>2 DEF Join, TypeOK
<1>3. ASSUME NEW d \in Devices, Works(d) PROVE TypeOK'
  <2>1. PICK o \in Operations :
          /\ o = at[d] /\ edge[d] \in {1, 2} /\ edge[d] <= Len(Inputs(o))
          /\ <<o, edge[d]>> \in Edges /\ <<o, edge[d]>> \in EdgesInto(o)
    BY <1>3, AtWork, WorkIsLocal
  <2>2. /\ Threads(d) /\ MorselsFit(o)
        /\ limit[o] \in 0..Rows /\ fetched[o] \in 0..Rows /\ processed[o] \in 0..Rows
        /\ dataSize[o] \in 0..Rows
    BY <2>1 DEF Control, Sizes, TypeOK
  <2>3. CASE Take(d)
    <3>1. PICK first \in EdgesInto(o) :
            dataSize' = [dataSize EXCEPT ![o] = IF @ = 0 THEN Size(first) ELSE @]
      BY <2>1, <2>3, FirstSize DEF Take
    <3>2. Size(first) \in 0..Rows
      BY SizeOfEdge
    <3>3. dataSize' \in [Operations -> 0..Rows]
      BY <3>1, <3>2 DEF TypeOK
    <3>4. QED
      BY <2>3, <3>3 DEF Take, TypeOK
  <2>4. CASE Name(d)
    BY <2>1, <2>4 DEF Name, TypeOK
  <2>5. CASE SetSize(d)
    <3>1. ResultSize(o) \in 0..Rows
      BY <1>0, <2>2 DEF ResultSize, MorselsFit, Packed
    <3>2. QED
      BY <2>1, <2>5, <3>1 DEF SetSize, TypeOK
  <2>6. CASE Inspect(d)
    <3>1. Size(<<o, edge[d]>>) \in 0..Rows /\ maxSize[d] \in 0..Rows
      BY <2>1, SizeOfEdge DEF TypeOK
    <3> DEFINE larger == IF Size(<<o, edge[d]>>) > maxSize[d] THEN Size(<<o, edge[d]>>)
                         ELSE maxSize[d]
    <3>2. larger \in 0..Rows
      BY <3>1
    <3>3. (edge[d] # Len(Inputs(o)) => edge[d] + 1 \in {1, 2}) /\ Len(Inputs(o)) \in {1, 2}
      BY <2>1, InputCount
    <3>4. /\ edgeFetched' \in [Edges -> 0..Rows] /\ maxSize' \in [Devices -> 0..Rows]
          /\ limit' \in [Operations -> 0..Rows]
          /\ failed' \in BOOLEAN
      <4>1. CASE From(<<o, edge[d]>>) = None /\ Producer(<<o, edge[d]>>) # None
        BY <2>1, <2>6, <4>1 DEF Inspect, TypeOK, Fail
      <4>2. CASE ~(From(<<o, edge[d]>>) = None /\ Producer(<<o, edge[d]>>) # None)
        <5>1. /\ edgeFetched' = [edgeFetched EXCEPT ![<<o, edge[d]>>] =
                     IF From(<<o, edge[d]>>) = d THEN Size(<<o, edge[d]>>) ELSE @]
              /\ maxSize' = [maxSize EXCEPT ![d] = larger]
              /\ limit' = [limit EXCEPT ![o] = IF edge[d] = Len(Inputs(o)) THEN larger ELSE @]
              /\ failed' = failed
          BY <2>1, <2>6, <4>2 DEF Inspect
        <5> HIDE DEF larger
        <5>2. QED
          BY <2>1, <3>1, <3>2, <5>1 DEF TypeOK
      <4>3. QED
        BY <4>1, <4>2
    <3>5. edge' \in [Devices -> {1, 2}]
          /\ transfer' \in [Devices -> {"none", "take", "name", "size", "inspect", "sub",
                                        "copy", "done"}]
      BY <2>1, <2>6, <3>3 DEF Inspect, NextEdge, TypeOK
    <3>6. QED
      BY <2>6, <3>4, <3>5 DEF Inspect, TypeOK
  <2>7. CASE SubBuffer(d)
    <3>1. fetched[o] < dataSize[o] => fetched[o] \in 0..(Rows - 1)
      BY <1>0, <2>2
    <3>2. present' \in [Edges -> SUBSET (0..(Rows - 1))]
      <4>1. CASE fetched[o] < dataSize[o]
        <5>1. present' = [present EXCEPT ![<<o, edge[d]>>] = @ \cup {fetched[o]}]
          BY <2>1, <2>2, <2>7, <4>1 DEF SubBuffer
        <5>2. present \in [Edges -> SUBSET (0..(Rows - 1))]
          BY DEF TypeOK
        <5>3. fetched[o] \in 0..(Rows - 1)
          BY <3>1, <4>1
        <5>4. QED
          BY ONLY <5>1, <5>2, <5>3
      <4>2. CASE fetched[o] >= dataSize[o]
        BY <2>1, <2>7, <4>2 DEF SubBuffer, TypeOK
      <4>3. QED
        BY <2>2, <4>1, <4>2
    <3>3. QED
      BY <2>7, <3>2 DEF SubBuffer, TypeOK, Fail
  <2>8. CASE Copy(d)
    <3>1. fetched[o] \in 0..(Rows - 1) /\ fetched[o] + 1 \in 0..Rows
      BY <1>0, <2>1, <2>2, <2>8 DEF Copy, Threads
    <3>2. (edge[d] # Len(Inputs(o)) => edge[d] + 1 \in {1, 2}) /\ Len(Inputs(o)) \in {1, 2}
      BY <2>1, InputCount
    <3>3. CASE UNCHANGED <<transfer, edge, fetched, edgeFetched, right>>
      BY <2>8, <3>3 DEF Copy, TypeOK, Fail
    <3>4. CASE \E r \in {right[<<o, edge[d]>>], right[<<o, edge[d]>>] \cup {fetched[o]}} :
              /\ right' = [right EXCEPT ![<<o, edge[d]>>] = r]
              /\ edgeFetched' = [edgeFetched EXCEPT ![<<o, edge[d]>>] = fetched[o] + 1]
              /\ edge' = [edge EXCEPT ![d] = IF @ = Len(Inputs(o)) THEN 1 ELSE @ + 1]
              /\ fetched' = [fetched EXCEPT ![o] =
                                IF edge[d] = Len(Inputs(o)) THEN @ + 1 ELSE @]
              /\ transfer' = [transfer EXCEPT ![d] = "sub"] /\ failed' = failed
      <4>1. /\ right' \in [Edges -> SUBSET (0..(Rows - 1))]
            /\ edgeFetched' \in [Edges -> 0..Rows]
        <5>1. PICK r \in {right[<<o, edge[d]>>], right[<<o, edge[d]>>] \cup {fetched[o]}} :
                /\ right' = [right EXCEPT ![<<o, edge[d]>>] = r]
                /\ edgeFetched' = [edgeFetched EXCEPT ![<<o, edge[d]>>] = fetched[o] + 1]
          BY <3>4
        <5>2. r \subseteq 0..(Rows - 1)
          <6>1. right[<<o, edge[d]>>] \in SUBSET (0..(Rows - 1))
            BY <2>1 DEF TypeOK
          <6>2. QED
            BY <3>1, <5>1, <6>1
        <5>3. right' \in [Edges -> SUBSET (0..(Rows - 1))]
          BY <2>1, <5>1, <5>2 DEF TypeOK
        <5>4. edgeFetched' \in [Edges -> 0..Rows]
          BY <2>1, <3>1, <5>1 DEF TypeOK
        <5>5. QED
          BY <5>3, <5>4
      <4>2. edge' \in [Devices -> {1, 2}] /\ fetched' \in [Operations -> 0..Rows]
        BY <2>1, <3>1, <3>2, <3>4 DEF TypeOK
      <4>3. QED
        BY <2>8, <3>4, <4>1, <4>2 DEF Copy, TypeOK
    <3>5. QED
      BY <2>1, <2>8, <3>3, <3>4 DEF Copy, Fetched
  <2>9. CASE SkipEdge(d)
    <3>1. fetched[o] + 1 \in 0..Rows
      BY <1>0, <2>1, <2>2, <2>9 DEF SkipEdge, MoreToFetch
    <3>2. (edge[d] # Len(Inputs(o)) => edge[d] + 1 \in {1, 2}) /\ Len(Inputs(o)) \in {1, 2}
      BY <2>1, InputCount
    <3>3. edge' \in [Devices -> {1, 2}] /\ fetched' \in [Operations -> 0..Rows]
      BY <2>1, <2>9, <3>1, <3>2 DEF SkipEdge, NextEdge, Fetched, TypeOK
    <3>4. QED
      BY <2>1, <2>9, <3>3 DEF SkipEdge, NextEdge, TypeOK
  <2>10. CASE TransferEnds(d)
    BY <2>10 DEF TransferEnds, TypeOK
  <2>11. CASE ProcessMorsel(d)
    <3>1. processed[o] \in 0..(Rows - 1) /\ processed[o] + 1 \in 0..Rows
      BY <1>0, <2>1, <2>2, <2>11 DEF ProcessMorsel
    <3>2. good' \in [Operations -> SUBSET (0..(Rows - 1))] /\ processed' \in [Operations -> 0..Rows]
      BY <2>1, <2>11, <3>1 DEF ProcessMorsel, TypeOK
    <3>3. QED
      BY <2>11, <3>2 DEF ProcessMorsel, TypeOK
  <2>12. CASE ProcessFails(d)
    BY <2>12 DEF ProcessFails, TypeOK, Fail
  <2>13. CASE ProcessEnds(d)
    BY <2>1, <2>13 DEF ProcessEnds, TypeOK
  <2>14. QED
    BY <1>3, <2>3, <2>4, <2>5, <2>6, <2>7, <2>8, <2>9, <2>10, <2>11, <2>12, <2>13
       DEF Works, Transfers, Processes
<1>4. CASE UNCHANGED vars
  BY <1>4 DEF vars, TypeOK
<1>5. QED
  BY <1>1, <1>2, <1>3, <1>4 DEF Next, Executes, Works

-----------------------------------------------------------------------------
(* The beginning, and the steps that give a device an operation and take   *)
(* it away.                                                                *)

LEMMA InitIInv == Init => IInv
<1> SUFFICES ASSUME Init PROVE IInv
  OBVIOUS
<1>1. TypeOK
  BY InitTyping
<1>2. /\ queue = [k \in Operations |-> k] /\ DOMAIN queue = Operations
      /\ \A d \in Devices : at[d] = None /\ transfer[d] = "none" /\ process[d] = "none"
                            /\ edge[d] = 1 /\ maxSize[d] = 0
      /\ \A o \in Operations : edgeSize[o] = SizeAtFirst(o) /\ dataSize[o] = SizeAtFirst(o)
                               /\ Untouched(o) /\ processed[o] = 0 /\ limit[o] = 0
      /\ \A e \in Edges : edgeFetched[e] = 0 /\ right[e] = {}
      /\ ended = {} /\ ~failed
  BY DEF Init, Untouched
<1>3. Control
  BY <1>2 DEF Control, IsQueued, EdgesInto, Threads
<1>4. Sizes
  <2>1. \A o \in Operations : SizeAtFirst(o) \in 0..Rows /\ (IsSelection(o) => SizeAtFirst(o) = Rows)
    BY PackedRows DEF SizeAtFirst
  <2>2. QED
    BY <1>2, <2>1, PackedRows DEF Sizes, MorselsFit
<1>5. Timely
  BY <1>2 DEF Timely
<1>6. QED
  BY <1>1, <1>3, <1>4, <1>5 DEF IInv

LEMMA PopControl ==
  ASSUME TypeOK, Control, Sizes, NEW d \in Devices, Pop(d)
  PROVE  Control' /\ Sizes'
<1>1. PICK o \in Operations :
        /\ o = Head(queue) /\ o = queue[1] /\ at' = [at EXCEPT ![d] = o]
        /\ Len(queue) \in Nat /\ Len(queue) >= 1 /\ 1 \in DOMAIN queue /\ IsQueued(o)
        /\ DOMAIN queue' = 1..(Len(queue) - 1)
        /\ \A k \in DOMAIN queue' : k + 1 \in DOMAIN queue /\ queue'[k] = queue[k + 1]
  <2>1. queue \in Seq(Operations) /\ queue # <<>> /\ queue' = Tail(queue)
    BY DEF Pop, TypeOK
  <2>2. /\ Len(queue) \in Nat /\ Len(queue) >= 1 /\ DOMAIN queue = 1..Len(queue)
        /\ Head(queue) = queue[1] /\ queue[1] \in Operations
        /\ Tail(queue) \in Seq(Operations) /\ Len(Tail(queue)) = Len(queue) - 1
        /\ \A k \in 1..Len(Tail(queue)) : Tail(queue)[k] = queue[k + 1]
    BY <2>1
  <2>3. DOMAIN queue' = 1..(Len(queue) - 1)
    BY <2>1, <2>2
  <2>4. IsQueued(Head(queue)) /\ at' = [at EXCEPT ![d] = Head(queue)]
    BY <2>2 DEF IsQueued, Pop
  <2>5. \A k \in DOMAIN queue' : k + 1 \in DOMAIN queue /\ queue'[k] = queue[k + 1]
    BY <2>1, <2>2, <2>3
  <2>6. 1 \in DOMAIN queue
    BY <2>2
  <2>7. QED
    BY <2>2, <2>3, <2>4, <2>5, <2>6, Zenon
<1>2. /\ UNCHANGED <<process, edge, maxSize, where, edgeSize, dataSize, limit, fetched,
                     edgeFetched, present, right, processed, good, ended, failed>>
      /\ transfer' = [transfer EXCEPT ![d] = "take"] /\ at[d] = None
  BY DEF Pop
<1>3. /\ \A i, j \in DOMAIN queue : queue[i] = queue[j] => i = j
      /\ \A c \in Devices : at[c] # o /\ Threads(c)
      /\ o # None
  BY <1>1, Reading DEF Control, Threads
<1>4. \A p : IsQueued(p)' => IsQueued(p) /\ p # o
  <2> SUFFICES ASSUME NEW k \in DOMAIN queue' PROVE IsQueued(queue'[k]) /\ queue'[k] # o
    BY DEF IsQueued
  <2>1. k + 1 \in DOMAIN queue /\ queue'[k] = queue[k + 1] /\ k + 1 # 1
    BY <1>1
  <2>2. QED
    BY <1>1, <1>3, <2>1 DEF IsQueued
<1>5. \A i, j \in DOMAIN queue' : queue'[i] = queue'[j] => i = j
  <2> SUFFICES ASSUME NEW i \in DOMAIN queue', NEW j \in DOMAIN queue', queue'[i] = queue'[j]
               PROVE  i = j
    OBVIOUS
  <2>1. queue[i + 1] = queue[j + 1] /\ i + 1 \in DOMAIN queue /\ j + 1 \in DOMAIN queue
    BY <1>1
  <2>2. i + 1 = j + 1
    BY <1>3, <2>1
  <2>3. i \in Int /\ j \in Int
    BY <1>1
  <2>4. QED
    BY <2>2, <2>3
<1>6. ASSUME NEW p \in Operations, IsQueued(p)'
      PROVE  /\ Untouched(p)' /\ dataSize'[p] = SizeAtFirst(p)
             /\ \A e \in EdgesInto(p) : edgeFetched'[e] = 0 /\ right'[e] = {}
  BY <1>2, <1>4, <1>6 DEF Control, Untouched
<1>7. \A b, c \in Devices : at'[b] = at'[c] /\ at'[b] # None => b = c
  BY <1>1, <1>3 DEF Control, TypeOK
<1>8. Threads(d)'
  <2>1. at'[d] = o /\ transfer'[d] = "take" /\ edge'[d] = 1 /\ maxSize'[d] = 0 /\ process'[d] = "none"
    BY <1>1, <1>2, <1>3 DEF Threads, TypeOK
  <2>2. ~IsQueued(o)' /\ o \notin ended' /\ dataSize'[o] = SizeAtFirst(o)
    BY <1>1, <1>2, <1>4 DEF Control, Untouched
  <2>3. edge'[d] <= Len(Inputs(o))
    BY <2>1, InputCount
  <2>4. QED
    BY <1>3, <2>1, <2>2, <2>3 DEF Threads, IsInitialized
<1>9. ASSUME NEW c \in Devices \ {d} PROVE Threads(c)'
  <2>1. at'[c] = at[c] /\ transfer'[c] = transfer[c]
    BY <1>1, <1>2 DEF TypeOK
  <2>2. QED
    BY <1>2, <1>3, <1>4, <2>1 DEF Threads, IsInitialized
<1>10. Control'
  BY <1>5, <1>6, <1>7, <1>8, <1>9 DEF Control
<1>11. ASSUME NEW c \in Devices, at'[c] # None PROVE LimitIsSet(c)'
  <2>1. CASE c = d
    <3>1. at'[d] = o /\ transfer'[d] = "take" /\ Untouched(o)
      BY <1>1, <1>2 DEF Control, TypeOK
    <3>2. QED
      BY <1>2, <2>1, <3>1 DEF LimitIsSet, Untouched, IsInitialized
  <2>2. CASE c # d
    <3>1. at'[c] = at[c] /\ transfer'[c] = transfer[c]
      BY <1>1, <1>2, <2>2 DEF TypeOK
    <3>2. LimitIsSet(c)
      BY <1>11, <3>1 DEF Sizes
    <3>3. QED
      BY <1>2, <3>1, <3>2 DEF LimitIsSet, Untouched, IsInitialized
  <2>3. QED
    BY <2>1, <2>2
<1>12. Sizes'
  BY <1>2, <1>11 DEF Sizes, MorselsFit
<1>13. QED
  BY <1>10, <1>12

LEMMA JoinControl ==
  ASSUME TypeOK, Control, Sizes, NEW d \in Devices, Join(d)
  PROVE  Control' /\ Sizes'
<1>1. /\ UNCHANGED <<queue, edge, where, edgeSize, dataSize, limit, fetched, edgeFetched,
                     present, right, processed, good, ended>>
      /\ at' = [at EXCEPT ![d] = None] /\ transfer' = [transfer EXCEPT ![d] = "none"]
      /\ process' = [process EXCEPT ![d] = "none"] /\ maxSize' = [maxSize EXCEPT ![d] = 0]
      /\ transfer[d] = "done"
  BY DEF Join
<1>2. \A p : IsQueued(p)' <=> IsQueued(p)
  BY <1>1 DEF IsQueued
<1>3. Threads(d)'
  <2>1. edge[d] = 1
    BY <1>1 DEF Control, Threads
  <2>2. QED
    BY <1>1, <2>1 DEF Threads, TypeOK
<1>4. ASSUME NEW c \in Devices \ {d} PROVE Threads(c)'
  <2>1. /\ at'[c] = at[c] /\ transfer'[c] = transfer[c] /\ process'[c] = process[c]
        /\ maxSize'[c] = maxSize[c]
    BY <1>1 DEF TypeOK
  <2>2. QED
    BY <1>1, <1>2, <2>1 DEF Control, Threads, IsInitialized
<1>5. \A b, c \in Devices : at'[b] = at'[c] /\ at'[b] # None => b = c
  BY <1>1 DEF Control, TypeOK
<1>6. Control'
  BY <1>1, <1>2, <1>3, <1>4, <1>5 DEF Control, Untouched
<1>7. ASSUME NEW c \in Devices, at'[c] # None PROVE LimitIsSet(c)'
  <2>1. at'[c] = at[c] /\ transfer'[c] = transfer[c]
    BY <1>1, <1>7 DEF TypeOK
  <2>2. LimitIsSet(c)
    BY <1>7, <2>1 DEF Sizes
  <2>3. QED
    BY <1>1, <2>1, <2>2 DEF LimitIsSet, Untouched, IsInitialized
<1>8. QED
  BY <1>1, <1>6, <1>7 DEF Sizes, MorselsFit

-----------------------------------------------------------------------------
(* A step of a device at work: its threads, and the sizes of its operation. *)

LEMMA WorkControl ==
  ASSUME TypeOK, TypeOK', Control, Sizes, NEW d \in Devices, Works(d)
  PROVE  Threads(d)' /\ MorselsFit(at[d])' /\ LimitIsSet(d)'
<1>1. PICK o \in Operations :
        /\ o = at[d] /\ at'[d] = o /\ o # None /\ ~IsQueued(o)'
        /\ edge[d] \in {1, 2} /\ edge[d] <= Len(Inputs(o)) /\ <<o, edge[d]>> \in EdgesInto(o)
  <2>1. at[d] # None /\ IsLocal(d)
    BY WorkIsLocal
  <2>2. ~IsQueued(at[d])'
    <3>1. ~IsQueued(at[d]) /\ queue' = queue /\ at' = at
      BY <2>1, AtWork DEF Threads, IsLocal
    <3>2. QED
      BY <3>1 DEF IsQueued
  <2>3. at[d] \in Operations /\ at'[d] = at[d]
    BY <2>1, AtWork DEF IsLocal
  <2>4. QED
    BY <2>1, <2>2, <2>3, AtWork
<1>2. /\ limit[o] \in 0..Rows /\ fetched[o] \in 0..Rows /\ processed[o] \in 0..Rows
      /\ dataSize[o] \in 0..Rows /\ maxSize[d] \in 0..Rows
      /\ Threads(d) /\ MorselsFit(o) /\ LimitIsSet(d)
  BY <1>1 DEF TypeOK, Control, Sizes
<1>3. /\ Rows \in Nat /\ Rows > 0 /\ Packed \in 1..Rows /\ TrueSize(o) \in 1..Rows
      /\ Len(Inputs(o)) \in {1, 2} /\ 1 <= Len(Inputs(o))
  BY PackedRows, TrueSizes, InputCount
<1> SUFFICES Threads(d)' /\ MorselsFit(o)' /\ LimitIsSet(d)'
  BY <1>1 DEF MorselsFit, TrueSize
<1> USE DEF IsInitialized, Untouched
<1>4. CASE Take(d)
  <2>1. /\ transfer[d] = "take" /\ process[d] = "none" /\ edge[d] = 1 /\ maxSize[d] = 0
        /\ transfer'[d] = "name" /\ process'[d] = "run" /\ edge' = edge /\ maxSize' = maxSize
        /\ dataSize[o] # 0 => dataSize'[o] = dataSize[o]
        /\ UNCHANGED <<edgeSize, limit, fetched, processed, good, ended>>
    BY <1>1, <1>2, <1>4 DEF Take, Threads, TypeOK
  <2>2. o \notin ended /\ limit[o] = 0 /\ processed[o] = 0 /\ dataSize'[o] \in 0..Rows
    BY <1>1, <1>2, <2>1 DEF Threads, LimitIsSet, TypeOK
  <2>3. Threads(d)'
    BY <1>1, <1>3, <2>1, <2>2 DEF Threads
  <2>4. MorselsFit(o)'
    BY <1>2, <1>3, <2>1, <2>2 DEF MorselsFit
  <2>5. QED
    BY <1>1, <1>2, <2>1, <2>3, <2>4 DEF LimitIsSet
<1>5. CASE Name(d)
  <2>1. /\ transfer[d] = "name" /\ edge[d] = 1 /\ maxSize[d] = 0
        /\ transfer'[d] = "size" /\ process' = process /\ edge' = edge /\ maxSize' = maxSize
        /\ UNCHANGED <<dataSize, edgeSize, limit, fetched, processed, good, ended>>
    BY <1>1, <1>2, <1>5 DEF Name, Threads, TypeOK
  <2>2. QED
    BY <1>1, <1>2, <2>1 DEF Threads, MorselsFit, LimitIsSet
<1>6. CASE SetSize(d)
  <2>1. /\ transfer[d] = "size" /\ edge[d] = 1 /\ maxSize[d] = 0
        /\ transfer'[d] = "inspect" /\ process' = process /\ edge' = edge /\ maxSize' = maxSize
        /\ edgeSize'[o] = ResultSize(o)
        /\ UNCHANGED <<dataSize, limit, fetched, processed, good, ended>>
    BY <1>1, <1>2, <1>6 DEF SetSize, Threads, TypeOK
  <2>2. IsSelection(o) => ResultSize(o) = Packed
    BY <1>2 DEF MorselsFit, ResultSize, Packed
  <2>3. QED
    BY <1>1, <1>2, <2>1, <2>2 DEF Threads, MorselsFit, LimitIsSet
<1>7. CASE Inspect(d)
  <2>1. /\ transfer[d] = "inspect" /\ process' = process
        /\ UNCHANGED <<dataSize, edgeSize, fetched, processed, good, ended>>
    BY <1>7 DEF Inspect
  <2>2. CASE UNCHANGED <<transfer, edge, maxSize, limit>>
    BY <1>1, <1>2, <2>1, <2>2 DEF Threads, MorselsFit, LimitIsSet
  <2>3. CASE ~ UNCHANGED <<transfer, edge, maxSize, limit>>
    <3> DEFINE size == Size(<<o, edge[d]>>)
    <3>1. PICK larger : larger = IF size > maxSize[d] THEN size ELSE maxSize[d]
      OBVIOUS
    <3>2. /\ limit' = [limit EXCEPT ![o] = IF edge[d] = Len(Inputs(o)) THEN larger ELSE @]
          /\ edge' = [edge EXCEPT ![d] = IF edge[d] = Len(Inputs(o)) THEN 1 ELSE @ + 1]
          /\ transfer' = [transfer EXCEPT ![d] = IF edge[d] = Len(Inputs(o)) THEN "sub" ELSE @]
      BY <1>1, <1>7, <2>3, <3>1 DEF Inspect, NextEdge
    <3>3. size \in 0..Rows /\ larger \in 0..Rows /\ larger >= size
      BY <1>1, <1>2, <3>1, SizeOfEdge
    <3>4. process[d] = "run" /\ o \notin ended /\ processed[o] = 0 /\ limit[o] = 0
      BY <1>1, <1>2, <2>1 DEF Threads, LimitIsSet, TypeOK
    <3>5. CASE edge[d] = Len(Inputs(o))
      <4>1. edge'[d] = 1 /\ transfer'[d] = "sub" /\ limit'[o] = larger
        BY <1>1, <3>2, <3>5 DEF TypeOK
      <4>2. size >= TrueSize(o)
        <5>1. CASE IsSelection(o)
          BY <1>1, <1>3, <5>1, SizeOfEdge, TrueSizes
        <5>2. CASE ~IsSelection(o)
          <6>1. PICK p \in Operations : p = Producer(<<o, edge[d]>>) /\ IsSelection(p)
            <7>1. edge[d] = 2 /\ Inputs(o)[2] \in Operations /\ IsSelection(Inputs(o)[2])
              BY <1>1, <3>5, <5>2, Reading
            <7>2. Producer(<<o, 2>>) = Inputs(o)[2]
              BY <1>1, <7>1, <3>5, EdgeShape
            <7>3. QED
              BY <7>1, <7>2, Zenon
          <6>2. size = edgeSize[p] /\ edgeSize[p] \in {Rows, Packed}
            BY <1>1, <5>2, <6>1, SizeOfEdge DEF Sizes, MorselsFit
          <6>3. QED
            BY <1>3, <5>2, <6>2, TrueSizes
        <5>3. QED
          BY <5>1, <5>2
      <4> HIDE DEF size
      <4>3. Threads(d)'
        BY <1>1, <1>2, <1>3, <2>1, <3>4, <4>1 DEF Threads
      <4>4. MorselsFit(o)'
        BY <1>2, <2>1, <3>3, <3>4, <4>1 DEF MorselsFit
      <4>5. QED
        BY <1>1, <1>3, <3>3, <4>1, <4>2, <4>3, <4>4 DEF LimitIsSet, TrueSize
    <3>6. CASE edge[d] # Len(Inputs(o))
      <4>1. edge[d] = 1 /\ edge'[d] = 2 /\ 2 <= Len(Inputs(o))
        BY <1>1, <3>2, <3>6, InputCount DEF TypeOK
      <4>2. transfer'[d] = "inspect" /\ limit'[o] = limit[o]
        BY <1>1, <2>1, <3>2, <3>6 DEF TypeOK
      <4> HIDE DEF size
      <4>3. QED
        BY <1>1, <1>2, <2>1, <3>4, <4>1, <4>2 DEF Threads, MorselsFit, LimitIsSet
    <3>7. QED
      BY <3>5, <3>6
  <2>4. QED
    BY <2>2, <2>3
<1>8. CASE SubBuffer(d)
  <2>1. /\ transfer[d] = "sub" /\ fetched[o] < limit[o]
        /\ UNCHANGED <<process, edge, maxSize, dataSize, edgeSize, limit, fetched, processed,
                       good, ended>>
        /\ transfer'[d] \in {"sub", "copy"}
    BY <1>1, <1>8 DEF SubBuffer, MoreToFetch, TypeOK
  <2>2. QED
    BY <1>1, <1>2, <2>1 DEF Threads, MorselsFit, LimitIsSet
<1>9. CASE Copy(d)
  <2>1. /\ transfer[d] = "copy" /\ edge'[d] \in {1, 2} /\ edge'[d] <= Len(Inputs(o))
        /\ transfer'[d] = "sub" \/ (transfer'[d] = "copy" /\ UNCHANGED <<edge, fetched>>)
        /\ UNCHANGED <<process, maxSize, dataSize, edgeSize, limit, processed, good, ended>>
    <3>1. edge[d] # Len(Inputs(o)) => edge[d] + 1 = 2 /\ Len(Inputs(o)) = 2
      BY <1>1, InputCount
    <3>2. CASE UNCHANGED <<transfer, edge, fetched>>
      BY <1>1, <1>3, <1>9, <3>2 DEF Copy
    <3>3. CASE ~ UNCHANGED <<transfer, edge, fetched>>
      <4>1. /\ edge' = [edge EXCEPT ![d] = IF @ = Len(Inputs(o)) THEN 1 ELSE @ + 1]
            /\ transfer' = [transfer EXCEPT ![d] = "sub"]
        BY <1>1, <1>9, <3>3 DEF Copy
      <4>2. edge'[d] = (IF edge[d] = Len(Inputs(o)) THEN 1 ELSE edge[d] + 1) /\ transfer'[d] = "sub"
        BY <4>1 DEF TypeOK
      <4>3. QED
        BY <1>3, <1>9, <3>1, <4>2 DEF Copy
    <3>4. QED
      BY <3>2, <3>3
  <2>2. QED
    BY <1>1, <1>2, <2>1 DEF Threads, MorselsFit, LimitIsSet
<1>10. CASE SkipEdge(d)
  <2>1. /\ transfer[d] = "sub" /\ edge'[d] \in {1, 2} /\ edge'[d] <= Len(Inputs(o))
        /\ transfer'[d] = "sub"
        /\ UNCHANGED <<process, maxSize, dataSize, edgeSize, limit, processed, good, ended>>
    <3>1. edge[d] # Len(Inputs(o)) => edge[d] + 1 = 2 /\ Len(Inputs(o)) = 2
      BY <1>1, InputCount
    <3>2. QED
      BY <1>1, <1>3, <1>10, <3>1 DEF SkipEdge, NextEdge, TypeOK
  <2>2. QED
    BY <1>1, <1>2, <2>1 DEF Threads, MorselsFit, LimitIsSet
<1>11. CASE TransferEnds(d)
  <2>1. /\ transfer[d] = "sub" /\ edge[d] = 1 /\ transfer'[d] = "done"
        /\ UNCHANGED <<process, edge, maxSize, dataSize, edgeSize, limit, fetched, processed,
                       good, ended>>
    BY <1>1, <1>11 DEF TransferEnds, TypeOK
  <2>2. QED
    BY <1>1, <1>2, <2>1 DEF Threads, MorselsFit, LimitIsSet
<1>12. CASE ProcessMorsel(d)
  <2>1. /\ process[d] = "run" /\ IsInitialized(d) /\ processed'[o] = processed[o] + 1
        /\ processed[o] < limit[o] /\ processed[o] < dataSize[o]
        /\ UNCHANGED <<transfer, process, edge, maxSize, dataSize, edgeSize, limit, fetched,
                       ended>>
    BY <1>1, <1>12 DEF ProcessMorsel, TypeOK
  <2>2. QED
    BY <1>1, <1>2, <2>1 DEF Threads, MorselsFit, LimitIsSet
<1>13. CASE ProcessFails(d)
  BY <1>1, <1>2, <1>13 DEF ProcessFails, Threads, MorselsFit, LimitIsSet
<1>14. CASE ProcessEnds(d)
  <2>1. /\ process'[d] = "done" /\ IsInitialized(d) /\ processed[o] >= limit[o]
        /\ ended' = ended \cup {o} /\ process[d] = "run"
        /\ UNCHANGED <<transfer, edge, maxSize, dataSize, edgeSize, limit, fetched, processed,
                       good>>
    BY <1>1, <1>14 DEF ProcessEnds, TypeOK
  <2>2. QED
    BY <1>1, <1>2, <2>1 DEF Threads, MorselsFit, LimitIsSet
<1>15. QED
  BY <1>4, <1>5, <1>6, <1>7, <1>8, <1>9, <1>10, <1>11, <1>12, <1>13, <1>14
     DEF Works, Transfers, Processes

LEMMA KeepControl ==
  ASSUME TypeOK, Control, Sizes, [Next]_vars
  PROVE  TypeOK' /\ Control' /\ Sizes'
<1>1. TypeOK'
  BY KeepTyping
<1>2. ASSUME NEW d \in Devices, Works(d) PROVE Control' /\ Sizes'
  BY <1>1, <1>2, WorkIsLocal, WorkControl, ControlElsewhere, SizesElsewhere
<1>3. CASE UNCHANGED vars
  <2>1. \A o : (IsQueued(o)' <=> IsQueued(o)) /\ (Untouched(o)' <=> Untouched(o))
    BY <1>3 DEF vars, IsQueued, Untouched
  <2>2. \A d \in Devices : (Threads(d)' <=> Threads(d)) /\ (LimitIsSet(d)' <=> LimitIsSet(d))
    BY <1>3 DEF vars, IsQueued, Untouched, Threads, LimitIsSet, IsInitialized
  <2>3. \A o \in Operations : MorselsFit(o)' <=> MorselsFit(o)
    BY <1>3 DEF vars, MorselsFit
  <2>4. Control'
    BY <1>3, <2>1, <2>2 DEF vars, Control
  <2>5. Sizes'
    BY <1>3, <2>2, <2>3 DEF vars, Sizes
  <2>6. QED
    BY <1>1, <2>4, <2>5
<1>4. QED
  BY <1>1, <1>2, <1>3, PopControl, JoinControl DEF Next, Executes, Works

-----------------------------------------------------------------------------
(* Steps in time.                                                          *)

\* What an operation in time reads was taken in time.
LEMMA TimelyBefore ==
  ASSUME TypeOK, NEW o \in Operations, InTime(o), NEW e \in EdgesInto(o), Producer(e) # None
  PROVE  InTime(Producer(e))
<1>1. PICK p \in Operations : p = Producer(e) /\ p < o
  <2>1. e[1] = o /\ e[2] \in {1, 2} /\ (Producer(e) = None <=> IsSelection(o))
    BY EdgeShape
  <2>2. ~IsSelection(o)
    BY <2>1
  <2>3. Producer(e) = Inputs(o)[e[2]]
    BY <2>1 DEF Producer
  <2>4. QED
    BY <2>1, <2>2, <2>3, Reading
<1>2. \A q \in late : q \in Nat /\ q > o
  BY Reading DEF InTime, TypeOK
<1>3. p \in Nat /\ o \in Nat
  BY Reading
<1>4. QED
  BY <1>1, <1>2, <1>3 DEF InTime

\* A device at work has not failed.
LEMMA WorksUnfailed ==
  ASSUME NEW d \in Devices, Works(d)
  PROVE  ~failed
  BY DEF Works, Transfers, Processes, Take, Name, SetSize, Inspect, SubBuffer, Copy, SkipEdge,
         TransferEnds, ProcessMorsel, ProcessFails, ProcessEnds

\* What a device in time reads: all its inputs have the size of its operation.
LEMMA TimelyInputs ==
  ASSUME TypeOK, Timely, NEW d \in Devices, NEW o \in Operations, o = at[d], InTime(o)
  PROVE  \A e \in EdgesInto(o) :
           /\ Size(e) = TrueSize(o)
           /\ Producer(e) = None => From(e) = None
           /\ Producer(e) # None =>
                /\ Producer(e) \in Operations /\ Complete(Producer(e))
                /\ From(e) \in Devices /\ ResultSize(Producer(e)) = TrueSize(o)
                /\ TrueSize(o) = Packed
<1> SUFFICES ASSUME NEW e \in EdgesInto(o)
             PROVE  /\ Size(e) = TrueSize(o)
                    /\ Producer(e) = None => From(e) = None
                    /\ Producer(e) # None =>
                         /\ Producer(e) \in Operations /\ Complete(Producer(e))
                         /\ From(e) \in Devices /\ ResultSize(Producer(e)) = TrueSize(o)
                         /\ TrueSize(o) = Packed
  OBVIOUS
<1>1. PICK p : p = Producer(e)
  OBVIOUS
<1>2. /\ p \in ended \cup {None} /\ (p = None <=> IsSelection(o)) /\ o # None
      /\ p # None => p \in Operations /\ Complete(p)
  <2>1. o # None /\ (p = None <=> IsSelection(o)) /\ p \in Operations \cup {None}
    BY <1>1, Reading, EdgeShape
  <2>2. OnTime(d)
    BY <2>1 DEF Timely
  <2>3. p \in ended \cup {None}
    BY <1>1, <2>2 DEF OnTime
  <2>4. p # None => InTime(p)
    BY <1>1, <2>1, TimelyBefore
  <2>5. QED
    BY <2>1, <2>3, <2>4 DEF Timely
<1>3. CASE p = None
  BY <1>1, <1>2, <1>3, TrueSizes DEF Size, From
<1>4. CASE p # None
  <2>1. TrueSize(o) = Packed
    BY <1>2, <1>4, TrueSizes
  <2>2. Size(e) = edgeSize[p] /\ From(e) = where[p]
    BY <1>1, <1>4 DEF Size, From
  <2>3. edgeSize[p] = Packed /\ where[p] \in Devices /\ dataSize[p] = TrueSize(p)
    BY <1>2, <1>4 DEF Complete
  <2>4. ResultSize(p) = Packed
    BY <1>2, <1>4, <2>3, TrueSizes DEF ResultSize, Packed
  <2>5. QED
    BY <1>1, <1>2, <1>4, <2>1, <2>2, <2>3, <2>4
<1>5. QED
  BY <1>3, <1>4

LEMMA SameInTime ==
  ASSUME NEW c \in Devices, OnTime(c),
         UNCHANGED <<edge, where, edgeSize, dataSize, limit, fetched, edgeFetched,
                     right, processed, good, ended>>,
         at'[c] = at[c], transfer'[c] = transfer[c], maxSize'[c] = maxSize[c]
  PROVE  OnTime(c)'
<1>1. \A e \in EdgesInto(at[c]) : From(e)' = From(e) /\ Brought(c, e)' = Brought(c, e)
  BY DEF From, Brought, IsInitialized
<1>2. QED
  BY <1>1 DEF OnTime, From, IsInitialized

LEMMA PopTimely ==
  ASSUME TypeOK, Control, Sizes, Timely, NEW d \in Devices, Pop(d)
  PROVE  Timely'
<1>1. PICK o \in Operations :
        /\ o = Head(queue) /\ at' = [at EXCEPT ![d] = o] /\ IsQueued(o)
        /\ late \subseteq late'
        /\ o \notin late' => \A e \in EdgesInto(o) : Producer(e) \in ended \cup {None}
  <2>1. queue \in Seq(Operations) /\ queue # <<>>
    BY DEF Pop, TypeOK
  <2>2. Head(queue) \in Operations /\ Head(queue) = queue[1] /\ 1 \in DOMAIN queue
    BY <2>1
  <2>3. IsQueued(Head(queue))
    BY <2>2 DEF IsQueued
  <2>4. /\ late \subseteq late'
        /\ Head(queue) \notin late' =>
             \A e \in EdgesInto(Head(queue)) : Producer(e) \in ended \cup {None}
    BY DEF Pop
  <2>5. QED
    BY <2>2, <2>3, <2>4 DEF Pop
<1>2. /\ UNCHANGED <<process, edge, maxSize, where, edgeSize, dataSize, limit, fetched,
                     edgeFetched, present, right, processed, good, ended, failed>>
      /\ transfer' = [transfer EXCEPT ![d] = "take"]
  BY DEF Pop
<1>3. \A p : InTime(p)' => InTime(p)
  BY <1>1 DEF InTime
<1>4. (late' = {} => ~failed') /\ \A p \in ended' : InTime(p)' => Complete(p)'
  BY <1>3, <1>1, <1>2 DEF Timely, Complete
<1>5. ASSUME InTime(o)' PROVE OnTime(d)'
  <2>1. \A e \in EdgesInto(o) : Producer(e) \in ended \cup {None}
    <3>1. o \in Nat
      BY Reading
    <3>2. o \notin late'
      BY <1>5, <3>1 DEF InTime
    <3>3. QED
      BY <1>1, <3>2
  <2>2. at'[d] = o /\ transfer'[d] = "take"
    BY <1>1, <1>2 DEF TypeOK
  <2>3. fetched[o] = 0 /\ processed[o] = 0 /\ good[o] = {} /\ TrueSize(o) \in Nat
    BY <1>1, TrueSizes DEF Control, Untouched
  <2>4. \A e \in EdgesInto(o) : edgeFetched[e] = 0 /\ right[e] = {} /\ e[1] = o
    BY <1>1 DEF Control, EdgesInto
  <2>5. \A e \in EdgesInto(o) : Brought(d, e)' = 0
    BY <1>2, <2>2, <2>3, <2>4 DEF Brought, IsInitialized
  <2>6. 0..(0 - 1) = {}
    OBVIOUS
  <2>7. /\ fetched' = fetched /\ good' = good /\ processed' = processed /\ right' = right
        /\ edgeFetched' = edgeFetched /\ ended' = ended
        /\ ~IsInitialized(d)'
    BY <1>2, <2>2 DEF IsInitialized
  <2>8. \A e \in EdgesInto(o) :
          edgeFetched'[e] = Brought(d, e)' /\ right'[e] = 0..(edgeFetched'[e] - 1)
    BY <2>4, <2>5, <2>6, <2>7
  <2>9. fetched'[o] <= TrueSize(o) /\ good'[o] = 0..(processed'[o] - 1)
    <3>1. fetched'[o] = 0 /\ good'[o] = {} /\ processed'[o] = 0
      BY <2>3, <2>7
    <3>2. 0 <= TrueSize(o) /\ {} = 0..(0 - 1)
      BY <2>3
    <3>3. QED
      BY <3>1, <3>2
  <2>10. QED
    BY <2>1, <2>2, <2>7, <2>8, <2>9 DEF OnTime
<1>6. ASSUME NEW c \in Devices \ {d}, at'[c] # None, InTime(at[c]) PROVE OnTime(c)'
  <2>1. at'[c] = at[c] /\ transfer'[c] = transfer[c]
    BY <1>1, <1>2 DEF TypeOK
  <2>2. OnTime(c)
    BY <1>1, <1>6, <2>1 DEF Timely
  <2>3. QED
    BY <1>2, <2>1, <2>2, SameInTime
<1>7. at'[d] = o /\ \A c \in Devices \ {d} : at'[c] = at[c]
  BY <1>1 DEF TypeOK
<1>8. InTime(at[d])' => InTime(o)'
  BY <1>7 DEF InTime
<1>9. \A c \in Devices \ {d} : InTime(at[c])' => InTime(at[c])
  BY <1>3, <1>7 DEF InTime
<1>10. QED
  BY <1>4, <1>5, <1>6, <1>8, <1>9 DEF Timely

LEMMA JoinTimely ==
  ASSUME TypeOK, Control, Timely, NEW d \in Devices, Join(d)
  PROVE  Timely'
<1>1. /\ UNCHANGED <<edge, where, edgeSize, dataSize, limit, fetched, edgeFetched,
                     right, processed, good, ended, late, failed>>
      /\ at' = [at EXCEPT ![d] = None] /\ transfer' = [transfer EXCEPT ![d] = "none"]
      /\ maxSize' = [maxSize EXCEPT ![d] = 0]
  BY DEF Join
<1>2. (late' = {} => ~failed') /\ \A p \in ended' : InTime(p)' => Complete(p)'
  BY <1>1 DEF Timely, Complete, InTime
<1>3. ASSUME NEW c \in Devices, at'[c] # None, InTime(at[c])' PROVE OnTime(c)'
  <2>1. at'[c] = at[c] /\ transfer'[c] = transfer[c] /\ maxSize'[c] = maxSize[c]
    BY <1>1, <1>3 DEF TypeOK
  <2>2. OnTime(c)
    BY <1>1, <1>3, <2>1 DEF Timely, InTime
  <2>3. QED
    BY <1>1, <2>1, <2>2, SameInTime
<1>4. QED
  BY <1>2, <1>3 DEF Timely

\* transfer_data goes on to the next edge: one morsel more of this edge.
LEMMA NextBrought ==
  ASSUME TypeOK, NEW d \in Devices, NEW o \in Operations, o = at[d],
         NEW k \in {1, 2}, k = edge[d],
         k <= Len(Inputs(o)), IsInitialized(d), IsInitialized(d)',
         edge'[d] = (IF k = Len(Inputs(o)) THEN 1 ELSE k + 1),
         fetched'[o] = (IF k = Len(Inputs(o)) THEN fetched[o] + 1 ELSE fetched[o])
  PROVE  /\ Brought(d, <<o, k>>) = fetched[o]
         /\ Brought(d, <<o, k>>)' = fetched[o] + 1
         /\ \A e \in EdgesInto(o) : e # <<o, k>> => Brought(d, e)' = Brought(d, e)
<1>1. /\ fetched[o] \in Nat /\ Len(Inputs(o)) \in {1, 2}
      /\ k # Len(Inputs(o)) => k = 1 /\ Len(Inputs(o)) = 2
  <2>1. fetched[o] \in 0..Rows /\ Rows \in Nat
    BY PackedRows DEF TypeOK
  <2>2. k # Len(Inputs(o)) => k = 1 /\ Len(Inputs(o)) = 2
    BY InputCount
  <2>3. QED
    BY <2>1, <2>2, InputCount
<1>2. Brought(d, <<o, k>>) = fetched[o]
  BY <1>1 DEF Brought
<1>3. edge'[d] = (IF k = Len(Inputs(o)) THEN 1 ELSE 2)
  BY <1>1
<1>4. Brought(d, <<o, k>>)' = fetched[o] + 1
  BY <1>1, <1>3 DEF Brought
<1>5. ASSUME NEW e \in EdgesInto(o), e # <<o, k>> PROVE Brought(d, e)' = Brought(d, e)
  <2>1. e[1] = o /\ e[2] \in {1, 2} /\ e[2] # k /\ e[2] <= Len(Inputs(o))
    <3>1. e[1] = o /\ e[2] \in {1, 2} /\ e[2] <= Len(Inputs(o)) /\ e = <<o, e[2]>>
      <4>1. \A f \in EdgesInto(o) : f[1] = o /\ f[2] \in {1, 2}
        BY EdgeShape
      <4>2. \A f \in EdgesInto(o) : f[2] <= Len(Inputs(o)) /\ f = <<o, f[2]>>
        BY DEF EdgesInto, Edges
      <4>3. QED
        BY <4>1, <4>2
    <3>2. e[2] # k
      <4> SUFFICES ASSUME e[2] = k PROVE FALSE
        OBVIOUS
      <4>1. e = <<o, k>>
        BY <3>1, Zenon
      <4>2. QED
        BY <1>5, <4>1
    <3>3. QED
      BY <3>1, <3>2
  <2>2. QED
    BY <1>1, <1>3, <2>1 DEF Brought
<1>6. QED
  BY <1>2, <1>4, <1>5

\* What the edges of a device at work keep, whatever it does.
LEMMA InputsStay ==
  ASSUME TypeOK, Control, Timely, NEW d \in Devices, Works(d),
         NEW o \in Operations, o = at[d], InTime(o)
  PROVE  /\ ended \subseteq ended' /\ at'[d] = o
         /\ \A e \in EdgesInto(o) :
              /\ e \in Edges /\ e[1] = o
              /\ Producer(e) \in ended' \cup {None} /\ From(e)' = From(e)
<1>1. at[d] # None /\ IsLocal(d) /\ OnTime(d)
  BY WorkIsLocal DEF Timely
<1>2. ended \subseteq ended'
  BY DEF Works, Transfers, Processes, Take, Name, SetSize, Inspect, SubBuffer, Copy, SkipEdge,
         TransferEnds, ProcessMorsel, ProcessFails, ProcessEnds
<1>3. ASSUME NEW e \in EdgesInto(o)
      PROVE  e \in Edges /\ e[1] = o /\ Producer(e) \in ended' \cup {None} /\ From(e)' = From(e)
  <2>1. e \in Edges /\ e[1] = o /\ Producer(e) \in ended' \cup {None}
    BY <1>1, <1>2 DEF EdgesInto, OnTime
  <2>2. PICK p \in Operations \cup {None} : p = Producer(e) /\ p # o
    BY EdgeShape
  <2>3. From(e)' = From(e)
    BY <1>1, <2>2 DEF From, IsLocal
  <2>4. QED
    BY <2>1, <2>3
<1>4. QED
  BY <1>1, <1>2, <1>3 DEF IsLocal

\* The steps before the first morsel.
LEMMA StartTimely ==
  ASSUME TypeOK, Control, Sizes, Timely, NEW d \in Devices, NEW o \in Operations,
         o = at[d], InTime(o), Take(d) \/ Name(d) \/ SetSize(d) \/ Inspect(d)
  PROVE  o \notin ended' /\ ~failed' /\ OnTime(d)'
<1>1. /\ Works(d) /\ at[d] # None /\ ~failed /\ OnTime(d) /\ Threads(d) /\ MorselsFit(o)
      /\ LimitIsSet(d)
  <2>1. Works(d)
    BY DEF Works, Transfers
  <2>2. at[d] # None
    BY <2>1, WorkIsLocal
  <2>3. QED
    BY <2>1, <2>2, WorksUnfailed DEF Timely, Control, Sizes
<1>2. PICK N \in 1..Rows :
        N = TrueSize(o) /\ N = (IF IsSelection(o) THEN Rows ELSE Packed)
  BY TrueSizes
<1>3. /\ Rows \in Nat /\ Packed \in 1..Rows /\ N \in Nat /\ N > 0
      /\ edge[d] \in {1, 2} /\ edge[d] <= Len(Inputs(o)) /\ <<o, edge[d]>> \in EdgesInto(o)
      /\ dataSize[o] \in 0..Rows /\ fetched[o] \in Nat
  <2>1. dataSize[o] \in 0..Rows /\ fetched[o] \in 0..Rows /\ Rows \in Nat
    BY PackedRows DEF TypeOK
  <2>2. /\ edge[d] \in {1, 2} /\ edge[d] <= Len(Inputs(o)) /\ <<o, edge[d]>> \in EdgesInto(o)
    BY <1>1, AtWork
  <2>3. QED
    BY <1>2, <2>1, <2>2, PackedRows
<1>4. /\ ~IsInitialized(d) /\ o \notin ended' /\ ended' = ended /\ ~failed
      /\ UNCHANGED <<fetched, processed, good, right>>
  BY <1>1 DEF Take, Name, SetSize, Inspect, IsInitialized, Threads
<1>5. \A e \in EdgesInto(o) :
        e \in Edges /\ e[1] = o /\ Producer(e) \in ended' \cup {None} /\ From(e)' = From(e)
  BY <1>1, InputsStay
<1>6. \A e \in EdgesInto(o) : Size(e) = N /\ (Producer(e) # None => From(e) \in Devices)
  BY <1>2, TimelyInputs
<1>7. /\ fetched'[o] <= N /\ good'[o] = 0..(processed'[o] - 1) /\ at'[d] = o
      /\ \A e \in EdgesInto(o) : From(e) # d =>
           edgeFetched[e] = fetched[o] /\ right[e] = 0..(edgeFetched[e] - 1)
  <2>1. /\ fetched[o] <= N /\ good[o] = 0..(processed[o] - 1) /\ at'[d] = o
        /\ \A e \in EdgesInto(o) : From(e) # d =>
             edgeFetched[e] = Brought(d, e) /\ right[e] = 0..(edgeFetched[e] - 1)
    BY <1>1, <1>2, InputsStay DEF OnTime
  <2>2. \A e \in EdgesInto(o) : Brought(d, e) = fetched[o]
    BY <1>3, <1>4, <1>5 DEF Brought
  <2>3. QED
    BY <1>4, <2>1, <2>2
<1>8. ~IsInitialized(d)' => \A e \in EdgesInto(o) : Brought(d, e)' = fetched[o]
  BY <1>3, <1>4, <1>5 DEF Brought
<1>9. CASE Take(d)
  <2>1. PICK first \in EdgesInto(o) :
          dataSize' = [dataSize EXCEPT ![o] = IF @ = 0 THEN Size(first) ELSE @]
    BY <1>9, FirstSize DEF Take
  <2>2. dataSize[o] = SizeAtFirst(o)
    BY <1>1, <1>9 DEF Threads, Take
  <2>3. dataSize'[o] = N
    BY <1>2, <1>3, <1>6, <2>1, <2>2 DEF TypeOK, SizeAtFirst
  <2>4. /\ transfer'[d] = "name" /\ UNCHANGED <<edge, edgeFetched, failed>>
        /\ ~IsInitialized(d)'
    BY <1>9 DEF Take, TypeOK, IsInitialized
  <2>5. \A e \in EdgesInto(o) : Brought(d, e)' = fetched[o]
    BY <1>8, <2>4
  <2>6. \A e \in EdgesInto(o) : From(e)' # d =>
          edgeFetched'[e] = Brought(d, e)' /\ right'[e] = 0..(edgeFetched'[e] - 1)
    BY <1>4, <1>5, <1>7, <2>4, <2>5
  <2>7. QED
    BY <1>2, <1>4, <1>5, <1>7, <2>3, <2>4, <2>5, <2>6 DEF OnTime
<1>10. CASE Name(d)
  <2>1. /\ transfer[d] = "name" /\ transfer'[d] = "size" /\ where'[o] = d
        /\ UNCHANGED <<edge, edgeFetched, dataSize, failed>> /\ ~IsInitialized(d)'
    BY <1>10 DEF Name, TypeOK, IsInitialized
  <2>2. dataSize[o] = N
    BY <1>1, <1>2, <2>1 DEF OnTime
  <2>3. \A e \in EdgesInto(o) : Brought(d, e)' = fetched[o]
    BY <1>8, <2>1
  <2>4. \A e \in EdgesInto(o) : From(e)' # d =>
          edgeFetched'[e] = Brought(d, e)' /\ right'[e] = 0..(edgeFetched'[e] - 1)
    BY <1>4, <1>5, <1>7, <2>1, <2>3
  <2>5. QED
    BY <1>2, <1>4, <1>5, <1>7, <2>1, <2>2, <2>3, <2>4 DEF OnTime
<1>11. CASE SetSize(d)
  <2>1. /\ transfer[d] = "size" /\ transfer'[d] = "inspect" /\ edgeSize'[o] = ResultSize(o)
        /\ UNCHANGED <<edge, edgeFetched, dataSize, where, failed>> /\ ~IsInitialized(d)'
        /\ edge[d] = 1
    BY <1>1, <1>11 DEF SetSize, TypeOK, IsInitialized, Threads
  <2>2. dataSize[o] = N /\ where[o] = d
    BY <1>1, <1>2, <2>1 DEF OnTime
  <2>3. ResultSize(o) = Packed
    BY <1>2, <2>2 DEF ResultSize, Packed
  <2>4. \A e \in EdgesInto(o) : Brought(d, e)' = fetched[o]
    BY <1>8, <2>1
  <2>5. \A e \in EdgesInto(o) : From(e)' # d =>
          edgeFetched'[e] = Brought(d, e)' /\ right'[e] = 0..(edgeFetched'[e] - 1)
    BY <1>4, <1>5, <1>7, <2>1, <2>4
  <2>6. dataSize'[o] = N /\ where'[o] = d /\ edgeSize'[o] = Packed /\ edge'[d] # 2 /\ ~failed'
    BY <1>4, <2>1, <2>2, <2>3
  <2>7. transfer'[d] = "inspect" /\ ~IsInitialized(d)'
    BY <2>1
  <2>8. QED
    BY <1>2, <1>4, <1>5, <1>7, <2>5, <2>6, <2>7 DEF OnTime
<1>12. CASE Inspect(d)
  <2>1. transfer[d] = "inspect" /\ UNCHANGED <<dataSize, where, edgeSize>>
    BY <1>12 DEF Inspect
  <2>2. dataSize[o] = N /\ where[o] = d /\ edgeSize[o] = Packed
    BY <1>1, <1>2, <2>1 DEF OnTime
  <2>3. PICK k \in {1, 2} : k = edge[d] /\ <<o, k>> \in EdgesInto(o)
    BY <1>3
  <2>4. ~(From(<<o, k>>) = None /\ Producer(<<o, k>>) # None)
    BY <1>6, <2>3, MorselAssumption
  <2>5. maxSize[d] = 0 \/ maxSize[d] = N
    BY <1>1, <1>2, <2>1, <2>3 DEF OnTime, Threads
  <2>6. (IF Size(<<o, k>>) > maxSize[d] THEN Size(<<o, k>>) ELSE maxSize[d]) = N
    BY <1>3, <1>6, <2>3, <2>5
  <2>7. /\ edgeFetched' = [edgeFetched EXCEPT ![<<o, k>>] = IF From(<<o, k>>) = d THEN N ELSE @]
        /\ maxSize' = [maxSize EXCEPT ![d] = N]
        /\ limit' = [limit EXCEPT ![o] = IF k = Len(Inputs(o)) THEN N ELSE @]
        /\ edge' = [edge EXCEPT ![d] = IF k = Len(Inputs(o)) THEN 1 ELSE @ + 1]
        /\ transfer' = [transfer EXCEPT ![d] = IF k = Len(Inputs(o)) THEN "sub" ELSE @]
        /\ failed' = failed
    <3>1. Size(<<o, k>>) = N
      BY <1>6, <2>3
    <3>2. QED
      BY <1>12, <2>3, <2>4, <2>6, <3>1 DEF Inspect, NextEdge
  <2>8. maxSize'[d] = N
    BY <2>7 DEF TypeOK
  <2>9. \A e \in EdgesInto(o) : From(e) # d => edgeFetched'[e] = edgeFetched[e]
    BY <1>5, <2>7 DEF TypeOK
  <2>10. CASE k = Len(Inputs(o))
    <3>1. edge'[d] = 1 /\ transfer'[d] = "sub" /\ limit'[o] = N
      BY <2>7, <2>10 DEF TypeOK
    <3>2. \A e \in EdgesInto(o) : Brought(d, e)' = fetched[o]
      <4>1. \A e \in EdgesInto(o) : e[2] \in {1, 2}
        BY EdgeShape
      <4>2. fetched[o] \in 0..Rows
        BY DEF TypeOK
      <4>3. QED
        BY <1>3, <1>4, <1>5, <3>1, <4>1, <4>2 DEF Brought
    <3>3. \A e \in EdgesInto(o) : From(e)' # d =>
          edgeFetched'[e] = Brought(d, e)' /\ right'[e] = 0..(edgeFetched'[e] - 1)
      BY <1>4, <1>5, <1>7, <2>9, <3>2
    <3>4. QED
      BY <1>2, <1>4, <1>5, <1>7, <2>1, <2>2, <2>7, <2>8, <2>9, <3>1, <3>2, <3>3 DEF OnTime
  <2>11. CASE k # Len(Inputs(o))
    <3>1. edge'[d] = 2 /\ transfer'[d] = "inspect" /\ ~IsInitialized(d)'
      BY <1>3, <2>1, <2>3, <2>7, <2>11, InputCount DEF TypeOK, IsInitialized
    <3>2. \A e \in EdgesInto(o) : Brought(d, e)' = fetched[o]
      BY <1>8, <3>1
    <3>3. \A e \in EdgesInto(o) : From(e)' # d =>
          edgeFetched'[e] = Brought(d, e)' /\ right'[e] = 0..(edgeFetched'[e] - 1)
      BY <1>4, <1>5, <1>7, <2>9, <3>2
    <3>4. QED
      BY <1>2, <1>4, <1>5, <1>7, <2>1, <2>2, <2>7, <2>8, <2>9, <3>1, <3>2, <3>3 DEF OnTime
  <2>12. QED
    BY <2>10, <2>11
<1>13. QED
  BY <1>9, <1>10, <1>11, <1>12

\* The steps that bring a morsel.
LEMMA BringTimely ==
  ASSUME TypeOK, Control, Sizes, Timely, NEW d \in Devices, NEW o \in Operations,
         o = at[d], InTime(o), SubBuffer(d) \/ Copy(d) \/ SkipEdge(d) \/ TransferEnds(d)
  PROVE  /\ UNCHANGED <<where, dataSize, edgeSize, good, ended>>
         /\ ~failed' /\ OnTime(d)'
<1>1. /\ Works(d) /\ at[d] # None /\ ~failed /\ OnTime(d) /\ Threads(d)
  <2>1. Works(d)
    BY DEF Works, Transfers
  <2>2. at[d] # None
    BY <2>1, WorkIsLocal
  <2>3. QED
    BY <2>1, <2>2, WorksUnfailed DEF Timely, Control
<1>2. PICK N \in 1..Rows :
        N = TrueSize(o) /\ N = (IF IsSelection(o) THEN Rows ELSE Packed)
  BY TrueSizes
<1>3. PICK k \in {1, 2} :
        /\ k = edge[d] /\ k <= Len(Inputs(o)) /\ <<o, k>> \in EdgesInto(o)
        /\ <<o, k>> \in Edges
  BY <1>1, AtWork
<1>4. /\ UNCHANGED <<where, dataSize, edgeSize, limit, processed, good, ended>>
      /\ transfer[d] \in {"sub", "copy"} /\ ~failed /\ IsInitialized(d)
  BY <1>1 DEF SubBuffer, Copy, SkipEdge, TransferEnds, IsInitialized
<1>5. \A e \in EdgesInto(o) :
        e \in Edges /\ e[1] = o /\ Producer(e) \in ended' \cup {None} /\ From(e)' = From(e)
  BY <1>1, InputsStay
<1>6. /\ dataSize[o] = N /\ where[o] = d /\ edgeSize[o] = Packed /\ limit[o] = N
      /\ fetched[o] \in 0..N /\ good[o] = 0..(processed[o] - 1) /\ at'[d] = o
      /\ \A e \in EdgesInto(o) : From(e) # d =>
           edgeFetched[e] = Brought(d, e) /\ right[e] = 0..(edgeFetched[e] - 1)
  <2>1. at'[d] = o /\ fetched[o] \in 0..Rows
    BY <1>1, InputsStay DEF TypeOK
  <2>2. QED
    BY <1>1, <1>2, <1>4, <2>1 DEF OnTime
<1>7. ASSUME ~failed', transfer'[d] \in {"sub", "copy", "done"}, fetched'[o] \in 0..N,
             transfer'[d] = "copy" => edge'[d] = k /\ From(<<o, k>>) # d,
             \A e \in EdgesInto(o) : From(e) # d =>
               edgeFetched'[e] = Brought(d, e)' /\ right'[e] = 0..(edgeFetched'[e] - 1)
      PROVE  OnTime(d)'
  <2>1. /\ dataSize'[o] = N /\ where'[o] = d /\ edgeSize'[o] = Packed /\ limit'[o] = N
        /\ fetched'[o] <= N /\ good'[o] = 0..(processed'[o] - 1)
    BY <1>2, <1>4, <1>6, <1>7
  <2>2. \A e \in EdgesInto(o) : From(e)' # d =>
          edgeFetched'[e] = Brought(d, e)' /\ right'[e] = 0..(edgeFetched'[e] - 1)
    BY <1>5, <1>7
  <2>3. transfer'[d] = "copy" => From(<<at[d], edge[d]>>)' # d
    BY <1>4, <1>6, <1>7 DEF From
  <2>4. transfer'[d] \notin {"take", "name", "size", "inspect"}
    BY <1>7
  <2>5. QED
    BY <1>2, <1>5, <1>6, <2>1, <2>2, <2>3, <2>4 DEF OnTime
<1>8. CASE SubBuffer(d)
  <2>1. fetched[o] < N /\ From(<<o, k>>) # d
    BY <1>3, <1>6, <1>8 DEF SubBuffer, MoreToFetch, ToFetch
  <2>2. /\ transfer'[d] = "copy" /\ UNCHANGED <<edge, fetched, edgeFetched, right>> /\ ~failed'
    BY <1>2, <1>3, <1>4, <1>6, <1>8, <2>1 DEF SubBuffer, TypeOK
  <2>3. \A e \in EdgesInto(o) : Brought(d, e)' = Brought(d, e)
    BY <1>4, <2>2 DEF Brought, IsInitialized
  <2>4. QED
    BY <1>3, <1>4, <1>6, <1>7, <2>1, <2>2, <2>3
<1>9. CASE Copy(d)
  <2>1. transfer[d] = "copy" /\ fetched[o] \in 0..(N - 1) /\ From(<<o, k>>) # d
    BY <1>1, <1>2, <1>3, <1>6, <1>9 DEF Copy, Threads, OnTime
  <2>2. PICK m \in 0..(N - 1), p \in Operations \cup {None} :
          m = fetched[o] /\ p = Producer(<<o, k>>)
    BY <1>3, <2>1, EdgeShape
  <2>3. p # None => p \in Operations /\ Complete(p) /\ ResultSize(p) = N /\ N = Packed
    BY <1>1, <1>2, <1>3, <2>2, TimelyInputs
  <2>4. p # None => Source(p, m) \subseteq good[p]
    BY <2>2, <2>3, SourceOfMorsel DEF Complete
  <2>5. ~(p # None /\ m >= ResultSize(p))
    BY <1>2, <2>2, <2>3
  <2>6. /\ right' = [right EXCEPT ![<<o, k>>] = @ \cup {m}]
        /\ edgeFetched' = [edgeFetched EXCEPT ![<<o, k>>] = m + 1]
        /\ edge' = [edge EXCEPT ![d] = IF @ = Len(Inputs(o)) THEN 1 ELSE @ + 1]
        /\ transfer' = [transfer EXCEPT ![d] = "sub"]
        /\ fetched' = [fetched EXCEPT ![o] = IF k = Len(Inputs(o)) THEN @ + 1 ELSE @]
        /\ failed' = failed
    BY <1>3, <1>9, <2>2, <2>4, <2>5 DEF Copy, Fetched
  <2>7. /\ edge'[d] = (IF k = Len(Inputs(o)) THEN 1 ELSE k + 1) /\ transfer'[d] = "sub"
        /\ fetched'[o] = (IF k = Len(Inputs(o)) THEN fetched[o] + 1 ELSE fetched[o])
        /\ right'[<<o, k>>] = right[<<o, k>>] \cup {m} /\ edgeFetched'[<<o, k>>] = m + 1
        /\ \A e \in EdgesInto(o) : e # <<o, k>> =>
             right'[e] = right[e] /\ edgeFetched'[e] = edgeFetched[e]
    BY <1>3, <1>5, <2>6 DEF TypeOK
  <2>8. /\ Brought(d, <<o, k>>) = m /\ Brought(d, <<o, k>>)' = m + 1
        /\ \A e \in EdgesInto(o) : e # <<o, k>> => Brought(d, e)' = Brought(d, e)
    <3>1. IsInitialized(d)'
      BY <2>7 DEF IsInitialized
    <3>2. /\ Brought(d, <<o, k>>) = fetched[o] /\ Brought(d, <<o, k>>)' = fetched[o] + 1
          /\ \A e \in EdgesInto(o) : e # <<o, k>> => Brought(d, e)' = Brought(d, e)
      <4>1. /\ k \in {1, 2} /\ k = edge[d] /\ k <= Len(Inputs(o)) /\ IsInitialized(d)
            /\ edge'[d] = (IF k = Len(Inputs(o)) THEN 1 ELSE k + 1)
            /\ fetched'[o] = (IF k = Len(Inputs(o)) THEN fetched[o] + 1 ELSE fetched[o])
        BY <1>3, <1>4, <2>7
      <4>2. QED
        BY <3>1, <4>1, NextBrought
    <3>3. QED
      BY <2>2, <3>2
  <2>9. right[<<o, k>>] = 0..(m - 1) /\ (0..(m - 1)) \cup {m} = 0..(m + 1 - 1)
    BY <1>3, <1>6, <2>1, <2>2, <2>8
  <2>10. \A e \in EdgesInto(o) : From(e) # d =>
           edgeFetched'[e] = Brought(d, e)' /\ right'[e] = 0..(edgeFetched'[e] - 1)
    <3>1. ASSUME NEW e \in EdgesInto(o), From(e) # d, e # <<o, k>>
          PROVE  edgeFetched'[e] = Brought(d, e)' /\ right'[e] = 0..(edgeFetched'[e] - 1)
      BY <1>6, <2>7, <2>8, <3>1
    <3>2. edgeFetched'[<<o, k>>] = Brought(d, <<o, k>>)'
          /\ right'[<<o, k>>] = 0..(edgeFetched'[<<o, k>>] - 1)
      BY <2>7, <2>8, <2>9
    <3>3. QED
      BY <3>1, <3>2
  <2>11. fetched'[o] \in 0..N
    BY <1>2, <2>2, <2>7
  <2>12. QED
    BY <1>4, <1>7, <2>6, <2>7, <2>10, <2>11
<1>10. CASE SkipEdge(d)
  <2>1. /\ fetched[o] \in 0..(N - 1) /\ transfer[d] = "sub"
        /\ edgeFetched[<<o, k>>] >= Size(<<o, k>>) \/ From(<<o, k>>) = d
    <3>1. edgeFetched[<<o, k>>] \in 0..Rows /\ Size(<<o, k>>) \in 0..Rows /\ Rows \in Nat
      BY <1>3, PackedRows, SizeOfEdge DEF TypeOK
    <3>2. QED
      BY <1>2, <1>3, <1>6, <1>10, <3>1 DEF SkipEdge, MoreToFetch, ToFetch
  <2>2. /\ edge'[d] = (IF k = Len(Inputs(o)) THEN 1 ELSE k + 1) /\ transfer'[d] = "sub"
        /\ fetched'[o] = (IF k = Len(Inputs(o)) THEN fetched[o] + 1 ELSE fetched[o])
        /\ UNCHANGED <<right, edgeFetched, failed>>
    BY <1>3, <1>10, <2>1 DEF SkipEdge, NextEdge, Fetched, TypeOK
  <2>3. /\ Brought(d, <<o, k>>) = fetched[o]
        /\ \A e \in EdgesInto(o) : e # <<o, k>> => Brought(d, e)' = Brought(d, e)
    BY <1>3, <1>4, <2>2, NextBrought DEF IsInitialized
  <2>4. From(<<o, k>>) = d
    <3>1. Size(<<o, k>>) = N
      BY <1>1, <1>2, <1>3, TimelyInputs
    <3>2. QED
      BY <1>2, <1>3, <1>6, <2>1, <2>3, <3>1
  <2>5. \A e \in EdgesInto(o) : From(e) # d =>
          edgeFetched'[e] = Brought(d, e)' /\ right'[e] = 0..(edgeFetched'[e] - 1)
    BY <1>6, <2>2, <2>3, <2>4
  <2>6. fetched'[o] \in 0..N
    BY <1>2, <2>1, <2>2
  <2>7. QED
    BY <1>4, <1>7, <2>2, <2>5, <2>6
<1>11. CASE TransferEnds(d)
  <2>1. /\ transfer'[d] = "done" /\ UNCHANGED <<edge, fetched, edgeFetched, right, failed>>
    BY <1>11 DEF TransferEnds, TypeOK
  <2>2. \A e \in EdgesInto(o) : Brought(d, e)' = Brought(d, e)
    BY <1>4, <2>1 DEF Brought, IsInitialized
  <2>3. QED
    BY <1>4, <1>6, <1>7, <2>1, <2>2
<1>12. QED
  BY <1>8, <1>9, <1>10, <1>11

\* The steps of process_data.
LEMMA ProcessTimely ==
  ASSUME TypeOK, Control, Sizes, Timely, NEW d \in Devices, NEW o \in Operations,
         o = at[d], InTime(o), Processes(d)
  PROVE  /\ UNCHANGED where /\ ~failed' /\ OnTime(d)'
         /\ o \in ended' => Complete(o)'
<1>1. /\ Works(d) /\ at[d] # None /\ ~failed /\ OnTime(d) /\ Threads(d) /\ MorselsFit(o)
  <2>1. Works(d)
    BY DEF Works
  <2>2. at[d] # None
    BY <2>1, WorkIsLocal
  <2>3. QED
    BY <2>1, <2>2, WorksUnfailed DEF Timely, Control, Sizes
<1>2. PICK N \in 1..Rows :
        N = TrueSize(o) /\ N = (IF IsSelection(o) THEN Rows ELSE Packed)
  BY TrueSizes
<1>3. /\ UNCHANGED <<transfer, edge, where, dataSize, edgeSize, limit, fetched, edgeFetched,
                     right>>
      /\ process[d] = "run" /\ IsInitialized(d)
  BY DEF Processes, ProcessMorsel, ProcessFails, ProcessEnds
<1>4. \A e \in EdgesInto(o) :
        e \in Edges /\ e[1] = o /\ Producer(e) \in ended' \cup {None} /\ From(e)' = From(e)
  BY <1>1, InputsStay
<1>5. /\ dataSize[o] = N /\ where[o] = d /\ edgeSize[o] = Packed /\ limit[o] = N
      /\ fetched[o] <= N /\ good[o] = 0..(processed[o] - 1) /\ at'[d] = o
      /\ \A e \in EdgesInto(o) : From(e) # d =>
           edgeFetched[e] = Brought(d, e) /\ right[e] = 0..(edgeFetched[e] - 1)
      /\ transfer[d] = "copy" => From(<<o, edge[d]>>) # d
  BY <1>1, <1>2, <1>3, InputsStay DEF OnTime, IsInitialized
<1>6. o \notin ended /\ processed[o] \in Nat /\ fetched[o] \in Nat
  <2>1. processed[o] \in 0..Rows /\ fetched[o] \in 0..Rows /\ Rows \in Nat
    BY PackedRows DEF TypeOK
  <2>2. QED
    BY <1>1, <1>3, <2>1 DEF Threads
<1>7. ASSUME good'[o] = 0..(processed'[o] - 1) PROVE OnTime(d)'
  <2>1. \A e \in EdgesInto(o) : Brought(d, e)' = Brought(d, e)
    BY <1>3 DEF Brought, IsInitialized
  <2>2. \A e \in EdgesInto(o) : From(e)' # d =>
          edgeFetched'[e] = Brought(d, e)' /\ right'[e] = 0..(edgeFetched'[e] - 1)
    BY <1>3, <1>4, <1>5, <2>1
  <2>3. transfer'[d] = "copy" => From(<<at[d], edge[d]>>)' # d
    BY <1>3, <1>5 DEF From
  <2>4. /\ dataSize'[o] = N /\ where'[o] = d /\ edgeSize'[o] = Packed /\ limit'[o] = N
        /\ fetched'[o] <= N
    BY <1>3, <1>5
  <2>5. transfer'[d] \notin {"take", "name", "size", "inspect"}
    BY <1>3 DEF IsInitialized
  <2>6. QED
    BY <1>2, <1>4, <1>5, <1>7, <2>2, <2>3, <2>4, <2>5 DEF OnTime
<1>8. CASE ProcessMorsel(d)
  <2>1. /\ processed[o] < N /\ Available(d, processed[o])
        /\ good' = [good EXCEPT ![o] = IF \A e \in EdgesInto(o) : IsRight(d, e, processed[o])
                                       THEN @ \cup {processed[o]} ELSE @]
        /\ processed'[o] = processed[o] + 1 /\ ended' = ended /\ failed' = failed
    BY <1>5, <1>8 DEF ProcessMorsel, TypeOK
  <2>2. PICK m \in 0..(N - 1) : m = processed[o] /\ m < fetched[o]
    BY <1>2, <1>5, <1>6, <2>1 DEF Available
  <2>3. ASSUME NEW e \in EdgesInto(o) PROVE IsRight(d, e, m)
    <3>1. CASE From(e) = d
      <4>1. PICK p : p = Producer(e)
        OBVIOUS
      <4>2. p # None /\ p \in Operations /\ Complete(p) /\ N = Packed
        BY <1>1, <1>2, <3>1, <4>1, TimelyInputs, MorselAssumption
      <4>3. Source(p, m) \subseteq good[p]
        BY <2>2, <4>2, SourceOfMorsel DEF Complete
      <4>4. QED
        BY <3>1, <4>1, <4>3 DEF IsRight
    <3>2. CASE From(e) # d
      <4>1. edgeFetched[e] = Brought(d, e) /\ right[e] = 0..(edgeFetched[e] - 1) /\ e[1] = o
        BY <1>4, <1>5, <3>2
      <4>2. Brought(d, e) = fetched[o] \/ Brought(d, e) = fetched[o] + 1
        BY <1>6, <4>1 DEF Brought
      <4>3. m \in right[e]
        BY <1>2, <1>6, <2>2, <4>1, <4>2
      <4>4. QED
        BY <3>2, <4>3 DEF IsRight
    <3>3. QED
      BY <3>1, <3>2
  <2>4. good'[o] = good[o] \cup {m}
    BY <2>1, <2>2, <2>3 DEF TypeOK
  <2>5. (0..(m - 1)) \cup {m} = 0..(m + 1 - 1)
    BY <1>2, <2>2
  <2>6. good'[o] = 0..(processed'[o] - 1)
    <3>1. good'[o] = (0..(m - 1)) \cup {m}
      BY <1>5, <2>2, <2>4
    <3>2. processed'[o] = m + 1
      BY <2>1, <2>2
    <3>3. QED
      BY <2>5, <3>1, <3>2
  <2>7. QED
    BY <1>1, <1>3, <1>6, <1>7, <2>1, <2>6
<1>9. CASE ProcessFails(d)
  BY <1>1, <1>5, <1>6, <1>9 DEF ProcessFails
<1>10. CASE ProcessEnds(d)
  <2>1. processed[o] >= N /\ UNCHANGED <<good, processed, failed>>
    BY <1>5, <1>10 DEF ProcessEnds
  <2>2. processed[o] = N
    BY <1>1, <1>2, <1>5, <1>6, <2>1 DEF MorselsFit
  <2>3. Complete(o)'
    BY <1>2, <1>3, <1>5, <2>1, <2>2 DEF Complete
  <2>4. QED
    BY <1>1, <1>3, <1>5, <1>7, <2>1, <2>3
<1>11. QED
  BY <1>8, <1>9, <1>10 DEF Processes

LEMMA WorkTimely ==
  ASSUME TypeOK, TypeOK', Control, Sizes, Timely, NEW d \in Devices, Works(d)
  PROVE  Timely'
<1>1. PICK o \in Operations : o = at[d] /\ at[d] # None /\ IsLocal(d)
  BY WorkIsLocal, AtWork
<1>2. ended \subseteq ended' /\ at'[d] = o
  BY <1>1 DEF IsLocal, Works, Transfers, Processes, Take, Name, SetSize, Inspect, SubBuffer, Copy,
              SkipEdge, TransferEnds, ProcessMorsel, ProcessFails, ProcessEnds
<1>3. o \in ended => where'[o] = where[o]
  <2>1. Threads(d) /\ (o \in ended => IsInitialized(d))
    BY <1>1 DEF Control, Threads
  <2>2. \/ ~IsInitialized(d)
        \/ where' = where
    BY DEF Works, Transfers, Processes, Take, Name, SetSize, Inspect, SubBuffer, Copy,
           SkipEdge, TransferEnds, ProcessMorsel, ProcessFails, ProcessEnds, IsInitialized
  <2>3. QED
    BY <2>1, <2>2
<1>4. ASSUME InTime(o) PROVE ~failed' /\ OnTime(d)' /\ (o \in ended' => Complete(o)')
  <2>1. CASE Take(d) \/ Name(d) \/ SetSize(d) \/ Inspect(d)
    BY <1>1, <1>4, <2>1, StartTimely
  <2>2. CASE SubBuffer(d) \/ Copy(d) \/ SkipEdge(d) \/ TransferEnds(d)
    <3>1. o \in ended => Complete(o)
      BY <1>4 DEF Timely
    <3>2. QED
      BY <1>1, <1>4, <2>2, <3>1, BringTimely DEF Complete
  <2>3. CASE Processes(d)
    BY <1>1, <1>4, <2>3, ProcessTimely
  <2>4. QED
    BY <2>1, <2>2, <2>3 DEF Works, Transfers
<1>5. Complete(at[d])' <=> Complete(o)'
  BY <1>2 DEF Complete
<1>6. late = {} => InTime(o)
  BY DEF InTime
<1>7. QED
  BY <1>1, <1>2, <1>3, <1>4, <1>5, <1>6, TimelyElsewhere

LEMMA KeepTimely ==
  ASSUME TypeOK, Control, Sizes, Timely, [Next]_vars
  PROVE  Timely'
<1>1. TypeOK'
  BY KeepTyping
<1>2. ASSUME NEW d \in Devices, Works(d) PROVE Timely'
  BY <1>1, <1>2, WorkTimely
<1>3. CASE UNCHANGED vars
  <2>1. \A o : (Complete(o)' <=> Complete(o)) /\ (InTime(o)' <=> InTime(o))
    BY <1>3 DEF vars, Complete, InTime
  <2>2. ASSUME NEW d \in Devices, at'[d] # None, InTime(at[d]) PROVE OnTime(d)'
    <3>1. OnTime(d)
      BY <1>3, <2>2 DEF vars, Timely
    <3>2. QED
      BY <1>3, <3>1, SameInTime DEF vars
  <2>3. \A d \in Devices : InTime(at[d])' <=> InTime(at[d])
    BY <1>3 DEF vars, InTime
  <2>4. QED
    BY <1>3, <2>1, <2>2, <2>3 DEF vars, Timely
<1>4. QED
  BY <1>2, <1>3, PopTimely, JoinTimely DEF Next, Executes, Works

-----------------------------------------------------------------------------
(* Theorems.                                                               *)

LEMMA IInvHolds == Spec => []IInv
<1>1. Init => IInv
  BY InitIInv
<1>2. IInv /\ [Next]_vars => IInv'
  BY KeepControl, KeepTimely DEF IInv
<1>3. QED
  BY <1>1, <1>2, PTL DEF Spec

\* No index of morsel_driven (data_parallelism.h) leaves its buffer: the sub buffers
\* brought, filled and processed are morsels of the table, at every limit.
THEOREM TypeCorrect == Spec => []TypeOK
<1>1. IInv => TypeOK
  BY DEF IInv
<1>2. QED
  BY <1>1, IInvHolds, PTL

\* transfer_data and process_data of a device go on without a lock, and still
\* an operation taken after those it reads processes every morsel from inputs
\* that are there and filled.
THEOREM TimelyResults == Spec => []TimelyResultsAreRight
<1>1. IInv => TimelyResultsAreRight
  BY DEF IInv, Timely, Complete, TimelyResultsAreRight
<1>2. QED
  BY <1>1, IInvHolds, PTL

-----------------------------------------------------------------------------
(* Nobody takes what does not exist: a morsel behind the bits of a         *)
(* selection is there only while transfer_data tries to copy it.           *)

InHand(o, m) ==
  /\ m = fetched[o]
  /\ \E d \in Devices : at[d] = o /\ transfer[d] = "copy" /\ edge[d] = 2

NoneBehind(o) ==
  /\ processed[o] <= Packed
  /\ \A m \in present[<<o, 2>>] : m < Packed \/ InHand(o, m)

NothingBehind == \A o \in Operations : ~IsSelection(o) => NoneBehind(o)

\* The edge that ends the wait for morsels that do not exist is the one from a
\* selection, whose size is right from the first.
LEMMA SecondInput ==
  ASSUME TypeOK, Sizes, NEW o \in Operations, ~IsSelection(o)
  PROVE  /\ <<o, 2>> \in EdgesInto(o) /\ <<o, 2>> \in Edges
         /\ Producer(<<o, 2>>) \in Operations /\ Producer(<<o, 2>>) # None
         /\ IsSelection(Producer(<<o, 2>>))
         /\ ResultSize(Producer(<<o, 2>>)) = Packed
         /\ processed[Producer(<<o, 2>>)] <= Rows
<1>1. /\ Len(Inputs(o)) = 2 /\ Inputs(o)[2] \in Operations /\ IsSelection(Inputs(o)[2])
      /\ None \notin Operations
  BY Reading
<1>2. <<o, 2>> \in EdgesInto(o) /\ <<o, 2>> \in Edges /\ Producer(<<o, 2>>) = Inputs(o)[2]
  <2>1. 2 \in {1, 2} /\ 2 <= Len(Inputs(o))
    BY <1>1
  <2>2. QED
    BY <2>1, EdgeShape
<1>3. PICK p \in Operations : p = Producer(<<o, 2>>) /\ IsSelection(p)
  BY <1>1, <1>2
<1>4. dataSize[p] = Rows /\ processed[p] <= dataSize[p]
  BY <1>3 DEF Sizes, MorselsFit
<1>5. ResultSize(p) = Packed
  BY <1>3, <1>4 DEF ResultSize, Packed
<1>6. QED
  BY <1>1, <1>2, <1>3, <1>4, <1>5

\* What process_data finds there exists.
LEMMA AvailableExists ==
  ASSUME TypeOK, Control, Sizes, NEW d \in Devices, at[d] # None, ~IsSelection(at[d]),
         NoneBehind(at[d]), Available(d, processed[at[d]])
  PROVE  processed[at[d]] < Packed
<1>1. PICK o \in Operations, m \in 0..Rows : o = at[d] /\ m = processed[o] /\ fetched[o] \in 0..Rows
  BY AtWork DEF TypeOK
<1>2. PICK p \in Operations :
        /\ p = Producer(<<o, 2>>) /\ IsSelection(p) /\ processed[p] <= Rows
        /\ <<o, 2>> \in EdgesInto(o)
  BY <1>1, SecondInput
<1>3. IsPresent(d, <<o, 2>>, m) /\ m < fetched[o]
  BY <1>1, <1>2 DEF Available
<1>4. CASE From(<<o, 2>>) = d
  <2>1. m * Pack < processed[p]
    BY <1>2, <1>3, <1>4 DEF IsPresent, Width
  <2>2. PICK n \in 0..Rows : n = processed[p]
    BY DEF TypeOK
  <2>3. m * Pack < Rows
    <3>1. m * Pack \in Int /\ Rows \in Int
      BY PackedRows
    <3>2. QED
      BY <1>2, <2>1, <2>2, <3>1
  <2>4. Rows = Pack * Packed /\ Pack \in Nat /\ Pack > 0 /\ Packed \in Nat /\ m \in Nat
    BY PackedRows
  <2>5. m < Packed
    <3> SUFFICES ASSUME m >= Packed PROVE FALSE
      BY <2>4
    <3>1. m * Pack >= Packed * Pack
      BY <2>4
    <3>2. QED
      BY <2>3, <2>4, <3>1
  <2>6. QED
    BY <1>1, <2>5
<1>5. CASE From(<<o, 2>>) # d
  <2>1. m \in present[<<o, 2>>]
    BY <1>3, <1>5 DEF IsPresent
  <2>2. m < Packed \/ m = fetched[o]
    BY <1>1, <2>1 DEF NoneBehind, InHand
  <2>3. QED
    BY <1>1, <1>3, <2>2
<1>6. QED
  BY <1>4, <1>5

\* A device that copies nothing has nothing in hand.
LEMMA NotInHand ==
  ASSUME TypeOK, Control, NEW d \in Devices, at[d] # None,
         transfer[d] # "copy" \/ edge[d] # 2
  PROVE  \A m : ~InHand(at[d], m)
  BY AtWork DEF InHand

LEMMA WorkBehind ==
  ASSUME TypeOK, Control, Sizes, NothingBehind, NEW d \in Devices, Works(d)
  PROVE  NothingBehind'
<1>1. PICK o \in Operations :
        /\ o = at[d] /\ at[d] # None /\ IsLocal(d) /\ at' = at
        /\ <<o, edge[d]>> \in Edges /\ edge[d] \in {1, 2}
  BY WorkIsLocal, AtWork DEF IsLocal
<1>2. /\ present \in [Edges -> SUBSET (0..(Rows - 1))]
      /\ fetched[o] \in 0..Rows /\ processed[o] \in 0..Rows
  BY DEF TypeOK
<1>3. \/ present' = present
      \/ SubBuffer(d) /\ present' = [present EXCEPT ![<<o, edge[d]>>] = @ \cup {fetched[o]}]
  BY <1>1 DEF Works, Transfers, Processes, Take, Name, SetSize, Inspect, SubBuffer, Copy,
              SkipEdge, TransferEnds, ProcessMorsel, ProcessFails, ProcessEnds
<1>4. ASSUME NEW p \in Operations \ {o}, ~IsSelection(p) PROVE NoneBehind(p)'
  <2>1. NoneBehind(p)
    BY <1>4 DEF NothingBehind
  <2>2. present'[<<p, 2>>] = present[<<p, 2>>]
    <3>1. <<p, 2>> # <<o, edge[d]>> /\ <<p, 2>> \in Edges
      BY <1>4, SecondInput
    <3>2. QED
      BY <1>2, <1>3, <3>1
  <2>3. fetched'[p] = fetched[p] /\ processed'[p] = processed[p]
    BY <1>1 DEF IsLocal
  <2>4. ASSUME NEW m, InHand(p, m) PROVE InHand(p, m)'
    <3>1. PICK c \in Devices : at[c] = p /\ transfer[c] = "copy" /\ edge[c] = 2
      BY <2>4 DEF InHand
    <3>2. c # d
      BY <1>1, <3>1
    <3>3. at'[c] = p /\ transfer'[c] = "copy" /\ edge'[c] = 2
      BY <1>1, <3>1, <3>2 DEF IsLocal
    <3>4. QED
      BY <2>3, <2>4, <3>3 DEF InHand
  <2>5. QED
    BY <2>1, <2>2, <2>3, <2>4 DEF NoneBehind
<1>5. ASSUME ~IsSelection(o) PROVE NoneBehind(o)'
  <2>1. NoneBehind(o)
    BY <1>5 DEF NothingBehind
  <2>2. transfer[d] # "copy" \/ edge[d] # 2 => \A m \in present[<<o, 2>>] : m < Packed
    <3>1. transfer[d] # "copy" \/ edge[d] # 2 => \A m : ~InHand(o, m)
      BY <1>1, NotInHand
    <3>2. QED
      BY <2>1, <3>1 DEF NoneBehind
  <2>3. CASE ProcessMorsel(d)
    <3>1. /\ UNCHANGED <<at, transfer, edge, fetched, present>>
          /\ processed'[o] = processed[o] + 1 /\ Available(d, processed[o])
      BY <1>1, <2>3 DEF ProcessMorsel, TypeOK
    <3>2. processed[o] < Packed
      <4>1. at[d] # None /\ ~IsSelection(at[d]) /\ NoneBehind(at[d]) /\ Available(d, processed[at[d]])
        BY <1>1, <1>5, <2>1, <3>1
      <4>2. processed[at[d]] < Packed
        BY <4>1, AvailableExists
      <4>3. QED
        BY <1>1, <4>2
    <3>3. processed'[o] <= Packed
      BY <1>2, <3>1, <3>2, PackedRows
    <3>4. \A m : InHand(o, m) => InHand(o, m)'
      BY <3>1 DEF InHand
    <3>5. QED
      BY <2>1, <3>1, <3>3, <3>4 DEF NoneBehind
  <2>4. CASE UNCHANGED <<at, transfer, edge, fetched, present, processed>>
    BY <2>1, <2>4 DEF NoneBehind, InHand
  <2>5. CASE SubBuffer(d)
    <3>1. \A m \in present[<<o, 2>>] : m < Packed
      BY <2>2, <2>5 DEF SubBuffer
    <3>2. CASE present' = present
      <4>1. processed' = processed
        BY <2>5 DEF SubBuffer
      <4>2. QED
        BY <2>1, <3>1, <3>2, <4>1 DEF NoneBehind
    <3>3. CASE present' # present
      <4>1. /\ present' = [present EXCEPT ![<<o, edge[d]>>] = @ \cup {fetched[o]}]
            /\ transfer'[d] = "copy" /\ UNCHANGED <<at, edge, fetched, processed>>
        <5>1. /\ UNCHANGED <<at, edge, fetched, processed>>
              /\ ~(fetched[at[d]] >= dataSize[at[d]])
          BY <2>5, <3>3 DEF SubBuffer
        <5>2. transfer' = [transfer EXCEPT ![d] = "copy"]
          BY <2>5, <5>1 DEF SubBuffer
        <5>3. transfer'[d] = "copy"
          BY <5>2 DEF TypeOK
        <5>4. QED
          BY <1>3, <3>3, <5>1, <5>3
      <4>2. ASSUME NEW m \in present'[<<o, 2>>] PROVE m < Packed \/ InHand(o, m)'
        <5>1. CASE m \in present[<<o, 2>>]
          BY <3>1, <5>1
        <5>2. CASE m \notin present[<<o, 2>>]
          <6>1. edge[d] = 2 /\ m = fetched[o]
            <7>1. edge[d] # 2 => present'[<<o, 2>>] = present[<<o, 2>>]
              BY <1>1, <1>2, <4>1
            <7>2. edge[d] = 2 => present'[<<o, 2>>] = present[<<o, 2>>] \cup {fetched[o]}
              BY <1>1, <1>2, <4>1
            <7>3. QED
              BY <4>2, <5>2, <7>1, <7>2
          <6>2. QED
            BY <1>1, <4>1, <6>1 DEF InHand
        <5>3. QED
          BY <5>1, <5>2
      <4>3. processed'[o] <= Packed
        BY <2>1, <4>1 DEF NoneBehind
      <4>4. QED
        BY <4>2, <4>3 DEF NoneBehind
    <3>4. QED
      BY <3>2, <3>3
  <2>6. CASE Copy(d)
    <3>1. transfer[d] = "copy" /\ UNCHANGED <<at, present, processed>>
      BY <2>6 DEF Copy
    <3>2. CASE UNCHANGED <<transfer, edge, fetched>>
      BY <2>4, <3>1, <3>2
    <3>3. CASE ~ UNCHANGED <<transfer, edge, fetched>>
      <4>1. edge[d] = 2 => fetched[o] < Packed
        <5>1. edge[d] = 2 => ResultSize(Producer(<<o, edge[d]>>)) = Packed
                             /\ Producer(<<o, edge[d]>>) # None
          BY <1>5, SecondInput
        <5>2. edge[d] = 2 => ~(fetched[o] >= Packed)
          BY <1>1, <2>6, <3>3, <5>1 DEF Copy
        <5>3. QED
          BY <1>2, <5>2, PackedRows
      <4>2. \A m \in present[<<o, 2>>] : m < Packed
        <5>1. CASE edge[d] = 2
          <6>1. \A m : InHand(o, m) => m < Packed
            BY <4>1, <5>1 DEF InHand
          <6>2. QED
            BY <2>1, <6>1 DEF NoneBehind
        <5>2. CASE edge[d] # 2
          BY <2>2, <5>2
        <5>3. QED
          BY <5>1, <5>2
      <4>3. QED
        BY <2>1, <3>1, <4>2 DEF NoneBehind
    <3>4. QED
      BY <3>2, <3>3
  <2>7. CASE Take(d) \/ Name(d) \/ SetSize(d) \/ Inspect(d) \/ SkipEdge(d) \/ TransferEnds(d)
    <3>1. transfer[d] # "copy" /\ present' = present /\ processed' = processed
      BY <2>7 DEF Take, Name, SetSize, Inspect, SkipEdge, TransferEnds
    <3>2. \A m \in present[<<o, 2>>] : m < Packed
      BY <2>2, <3>1
    <3>3. QED
      BY <2>1, <3>1, <3>2 DEF NoneBehind
  <2>8. CASE ProcessFails(d) \/ ProcessEnds(d)
    <3>1. UNCHANGED <<at, transfer, edge, fetched, present, processed>>
      BY <2>8 DEF ProcessFails, ProcessEnds
    <3>2. QED
      BY <2>4, <3>1
  <2>9. QED
    BY <2>3, <2>5, <2>6, <2>7, <2>8 DEF Works, Transfers, Processes
<1>6. QED
  BY <1>4, <1>5 DEF NothingBehind

LEMMA KeepBehind ==
  IInv /\ NothingBehind /\ [Next]_vars => NothingBehind'
<1> SUFFICES ASSUME IInv, NothingBehind, [Next]_vars PROVE NothingBehind'
  OBVIOUS
<1> USE DEF IInv
<1>1. ASSUME UNCHANGED <<edge, fetched, present, processed>>,
             \A c \in Devices : at[c] # None /\ transfer[c] = "copy" =>
               at'[c] = at[c] /\ transfer'[c] = transfer[c]
      PROVE  NothingBehind'
  <2> SUFFICES ASSUME NEW o \in Operations, ~IsSelection(o) PROVE NoneBehind(o)'
    BY DEF NothingBehind
  <2>1. NoneBehind(o) /\ o # None
    BY Reading DEF NothingBehind
  <2>2. ASSUME NEW m, InHand(o, m) PROVE InHand(o, m)'
    <3>1. PICK c \in Devices : at[c] = o /\ transfer[c] = "copy" /\ edge[c] = 2
      BY <2>2 DEF InHand
    <3>2. at'[c] = o /\ transfer'[c] = "copy" /\ edge'[c] = 2
      BY <1>1, <2>1, <3>1
    <3>3. QED
      BY <1>1, <2>2, <3>2 DEF InHand
  <2>3. QED
    BY <1>1, <2>1, <2>2 DEF NoneBehind
<1>2. CASE UNCHANGED vars
  BY <1>1, <1>2 DEF vars
<1>3. ASSUME NEW d \in Devices, Pop(d) PROVE NothingBehind'
  BY <1>1, <1>3 DEF Pop, TypeOK
<1>4. ASSUME NEW d \in Devices, Join(d) PROVE NothingBehind'
  BY <1>1, <1>4 DEF Join, TypeOK
<1>5. QED
  BY <1>2, <1>3, <1>4, WorkBehind DEF Next, Executes, Works

\* However late an operation was taken and whatever old size of an edge it went by
\* (data_parallelism.h:441, 560), it ends with the morsels it should have: none too
\* few, for the old sizes are the larger ones, and none too many, for what does
\* not exist is waited for (line 671) or is an error when it is copied (line 995).
THEOREM OldSizesAreNoticed == Spec => []EndedAreWhole
<1>1. Init => NothingBehind
  <2> SUFFICES ASSUME Init, NEW o \in Operations, ~IsSelection(o) PROVE NoneBehind(o)
    BY DEF NothingBehind
  <2>1. processed[o] = 0 /\ <<o, 2>> \in Edges
    <3>1. 2 \in {1, 2} /\ 2 <= Len(Inputs(o))
      BY Reading
    <3>2. QED
      BY <3>1, EdgeShape DEF Init
  <2>2. present[<<o, 2>>] = {}
    BY <2>1 DEF Init
  <2>3. QED
    BY <2>1, <2>2, PackedRows DEF NoneBehind
<1>2. IInv /\ NothingBehind => EndedAreWhole
  <2> SUFFICES ASSUME IInv, NothingBehind, NEW o \in ended PROVE processed[o] = TrueSize(o)
    BY DEF EndedAreWhole
  <2>1. o \in Operations /\ processed[o] \in 0..Rows /\ limit[o] \in 0..Rows /\ Rows \in Nat
    BY PackedRows DEF IInv, TypeOK
  <2>2. TrueSize(o) \in 1..Rows /\ TrueSize(o) = (IF IsSelection(o) THEN Rows ELSE Packed)
    BY <2>1, TrueSizes
  <2>3. processed[o] = limit[o] /\ limit[o] >= TrueSize(o)
    BY <2>1 DEF IInv, Sizes, MorselsFit
  <2>4. ~IsSelection(o) => processed[o] <= Packed
    BY <2>1 DEF NothingBehind, NoneBehind
  <2>5. QED
    BY <2>1, <2>2, <2>3, <2>4
<1>3. QED
  BY <1>1, <1>2, KeepBehind, IInvHolds, PTL DEF Spec

-----------------------------------------------------------------------------
(* Nobody goes on for ever: how many steps are left.                       *)

TransferStages ==
  [take |-> 6, name |-> 5, size |-> 4, inspect |-> 3, sub |-> 2, copy |-> 2, done |-> 1,
   none |-> 0]

ProcessStages == [run |-> 2, done |-> 1, none |-> 0]

\* A morsel is brought at two edges, at each with a sub buffer and a copy.
BringsLeft(d) ==
  4 * (Rows - fetched[at[d]]) + 2 * (2 - edge[d]) + (IF transfer[d] = "sub" THEN 1 ELSE 0)

\* What the two threads of a device have left: operations in the queue, stages
\* of this one, and morsels.
TransferRank(d) ==
  <<Len(queue), TransferStages[transfer[d]],
    IF transfer[d] \in {"inspect", "sub", "copy"} THEN BringsLeft(d) ELSE 0>>

ProcessRank(d) ==
  <<Len(queue), IF transfer[d] = "take" THEN 3 ELSE ProcessStages[process[d]],
    IF process[d] = "run" THEN Rows - processed[at[d]] ELSE 0>>

Workers == Devices \X {"transfer_data", "process_data"}

StepsLeft ==
  [w \in Workers |-> IF w[2] = "transfer_data" THEN TransferRank(w[1]) ELSE ProcessRank(w[1])]

\* A step ends the program with an error, or it brings a thread forward.
StepsGoDown ==
  \/ ~failed /\ failed'
  \/ failed' = failed /\ <<StepsLeft', StepsLeft>> \in FamilyDescent(Workers)

LEMMA WorkingThreads ==
  ASSUME TypeOK, Control, NEW d \in Devices
  PROVE  /\ transfer[d] \in {"inspect", "sub", "copy"} \/ process[d] = "run" =>
              at[d] \in Operations
         /\ Len(queue) \in Nat /\ edge[d] \in {1, 2} /\ Rows \in Nat
<1>1. at[d] \in Operations \cup {None} /\ Threads(d) /\ queue \in Seq(Operations)
  BY DEF TypeOK, Control
<1>2. Len(queue) \in Nat /\ edge[d] \in {1, 2} /\ Rows \in Nat
  BY <1>1, PackedRows DEF TypeOK
<1>3. QED
  BY <1>1, <1>2 DEF Threads

LEMMA StepsAreRanks == TypeOK /\ Control => StepsLeft \in [Workers -> Triples]
<1> SUFFICES ASSUME TypeOK, Control, NEW d \in Devices
             PROVE  TransferRank(d) \in Triples /\ ProcessRank(d) \in Triples
  BY DEF StepsLeft, Workers
<1>1. TransferStages[transfer[d]] \in Nat /\ ProcessStages[process[d]] \in Nat
  <2>1. /\ transfer[d] \in {"none", "take", "name", "size", "inspect", "sub", "copy", "done"}
        /\ process[d] \in {"none", "run", "done"}
    BY DEF TypeOK
  <2>2. TransferStages[transfer[d]] \in Nat
    BY ONLY <2>1 DEF TransferStages
  <2>3. ProcessStages[process[d]] \in Nat
    BY ONLY <2>1 DEF ProcessStages
  <2>4. QED
    BY <2>2, <2>3
<1>2. transfer[d] \in {"inspect", "sub", "copy"} => BringsLeft(d) \in Nat
  <2> SUFFICES ASSUME transfer[d] \in {"inspect", "sub", "copy"} PROVE BringsLeft(d) \in Nat
    OBVIOUS
  <2>1. fetched[at[d]] \in 0..Rows /\ edge[d] \in {1, 2} /\ Rows \in Nat
    BY WorkingThreads DEF TypeOK
  <2>2. QED
    BY <2>1 DEF BringsLeft
<1>3. process[d] = "run" => Rows - processed[at[d]] \in Nat
  <2> SUFFICES ASSUME process[d] = "run" PROVE Rows - processed[at[d]] \in Nat
    OBVIOUS
  <2>1. processed[at[d]] \in 0..Rows /\ Rows \in Nat
    BY WorkingThreads DEF TypeOK
  <2>2. QED
    BY <2>1
<1>4. Len(queue) \in Nat
  BY WorkingThreads
<1>5. QED
  BY <1>1, <1>2, <1>3, <1>4 DEF TransferRank, ProcessRank, Triples

\* Where an operation is brought forward by a step of transfer_data.
LEMMA TransferGoesDown ==
  ASSUME TypeOK, TypeOK', Control, NEW d \in Devices, Transfers(d), ~failed'
  PROVE  Smaller(TransferRank(d)', TransferRank(d)) /\ ProcessRank(d)' = ProcessRank(d)
<1>1. Works(d)
  BY DEF Works
<1>2. PICK o \in Operations : o = at[d] /\ o = at'[d] /\ queue' = queue
  BY <1>1, WorkIsLocal, AtWork DEF IsLocal
<1>3. /\ fetched[o] \in 0..Rows /\ fetched'[o] \in 0..Rows /\ Rows \in Nat
      /\ edge[d] \in {1, 2} /\ edge'[d] \in {1, 2} /\ Len(Inputs(o)) \in {1, 2}
      /\ edge[d] <= Len(Inputs(o))
  BY <1>1, <1>2, WorkIsLocal, AtWork, PackedRows, InputCount DEF TypeOK
<1>4. ProcessRank(d)' = ProcessRank(d)
  <2>1. process' = process /\ processed' = processed /\ transfer[d] # "take"
    BY DEF Transfers, Name, SetSize, Inspect, SubBuffer, Copy, SkipEdge, TransferEnds
  <2>2. transfer'[d] # "take"
    BY <2>1 DEF TypeOK, Transfers, Name, SetSize, Inspect, SubBuffer, Copy, SkipEdge,
                TransferEnds, NextEdge
  <2>3. QED
    BY <1>2, <2>1, <2>2 DEF ProcessRank
<1>5. ASSUME TransferStages[transfer'[d]] < TransferStages[transfer[d]]
      PROVE  Smaller(TransferRank(d)', TransferRank(d))
  BY <1>2, <1>5 DEF TransferRank, Smaller
<1>6. ASSUME transfer[d] \in {"inspect", "sub", "copy"}, transfer'[d] \in {"inspect", "sub", "copy"},
             TransferStages[transfer'[d]] = TransferStages[transfer[d]],
             BringsLeft(d)' < BringsLeft(d)
      PROVE  Smaller(TransferRank(d)', TransferRank(d))
  BY <1>2, <1>6 DEF TransferRank, Smaller
<1>7. CASE Name(d) \/ SetSize(d) \/ TransferEnds(d)
  <2>1. /\ transfer \in [Devices -> DOMAIN TransferStages]
        /\ \/ transfer[d] = "name" /\ transfer' = [transfer EXCEPT ![d] = "size"]
           \/ transfer[d] = "size" /\ transfer' = [transfer EXCEPT ![d] = "inspect"]
           \/ transfer[d] = "sub" /\ transfer' = [transfer EXCEPT ![d] = "done"]
    BY <1>7 DEF TypeOK, Name, SetSize, TransferEnds, TransferStages
  <2>2. TransferStages[transfer'[d]] < TransferStages[transfer[d]]
    BY <2>1 DEF TransferStages
  <2>3. QED
    BY <1>4, <1>5, <2>2
<1>8. CASE Inspect(d)
  <2>1. transfer[d] = "inspect" /\ NextEdge(d, "sub") /\ fetched' = fetched
    BY <1>8 DEF Inspect, Fail
  <2>2. CASE edge[d] = Len(Inputs(o))
    <3>1. transfer'[d] = "sub"
      BY <1>2, <2>1, <2>2 DEF NextEdge, TypeOK
    <3>2. TransferStages[transfer'[d]] < TransferStages[transfer[d]]
      BY <2>1, <3>1 DEF TransferStages
    <3>3. QED
      BY <1>4, <1>5, <3>2
  <2>3. CASE edge[d] # Len(Inputs(o))
    <3>1. transfer'[d] = "inspect" /\ edge'[d] = edge[d] + 1
      BY <1>2, <2>1, <2>3 DEF NextEdge, TypeOK
    <3>2. BringsLeft(d)' < BringsLeft(d)
      BY <1>2, <1>3, <2>1, <3>1 DEF BringsLeft
    <3>3. QED
      BY <1>4, <1>6, <2>1, <3>1, <3>2
  <2>4. QED
    BY <2>2, <2>3
<1>9. CASE SubBuffer(d)
  <2>1. /\ transfer[d] = "sub" /\ transfer'[d] = "copy" /\ UNCHANGED <<fetched, edge>>
    BY <1>9 DEF SubBuffer, Fail, TypeOK
  <2>2. BringsLeft(d)' < BringsLeft(d)
    <3>1. PICK n \in Int : n = 4 * (Rows - fetched[o]) + 2 * (2 - edge[d])
      BY <1>3
    <3>2. BringsLeft(d) = n + 1 /\ BringsLeft(d)' = n + 0
      BY <1>2, <1>3, <2>1, <3>1 DEF BringsLeft
    <3>3. QED
      BY ONLY <3>1, <3>2
  <2>3. QED
    BY <1>4, <1>6, <2>1, <2>2 DEF TransferStages
<1>10. CASE Copy(d) \/ SkipEdge(d)
  <2>1. /\ transfer[d] \in {"sub", "copy"} /\ transfer'[d] = "sub"
        /\ edge'[d] = (IF edge[d] = Len(Inputs(o)) THEN 1 ELSE edge[d] + 1)
        /\ fetched'[o] = (IF edge[d] = Len(Inputs(o)) THEN fetched[o] + 1 ELSE fetched[o])
    BY <1>2, <1>10 DEF Copy, SkipEdge, NextEdge, Fetched, Fail, TypeOK
  <2>2. /\ BringsLeft(d) \in {4 * (Rows - fetched[o]) + 2 * (2 - edge[d]),
                              4 * (Rows - fetched[o]) + 2 * (2 - edge[d]) + 1}
        /\ BringsLeft(d)' = 4 * (Rows - fetched'[o]) + 2 * (2 - edge'[d]) + 1
    <3>1. PICK n \in Int, m \in Int : /\ n = 4 * (Rows - fetched[o]) + 2 * (2 - edge[d])
                                      /\ m = 4 * (Rows - fetched'[o]) + 2 * (2 - edge'[d])
      <4>1. PICK r \in Int, x \in Int, y \in Int, i \in Int, j \in Int :
              r = Rows /\ x = fetched[o] /\ y = fetched'[o] /\ i = edge[d] /\ j = edge'[d]
        BY ONLY <1>3
      <4>2. 4 * (r - x) + 2 * (2 - i) \in Int /\ 4 * (r - y) + 2 * (2 - j) \in Int
        BY ONLY <4>1
      <4>3. QED
        BY ONLY <4>1, <4>2
    <3>2. BringsLeft(d) = n + (IF transfer[d] = "sub" THEN 1 ELSE 0)
      BY ONLY <1>2, <3>1 DEF BringsLeft
    <3>3. BringsLeft(d)' = m + 1
      BY ONLY <1>2, <2>1, <3>1 DEF BringsLeft
    <3>4. BringsLeft(d) \in {n, n + 1}
      BY ONLY <3>1, <3>2
    <3>5. QED
      BY ONLY <3>1, <3>3, <3>4
  <2>3. BringsLeft(d)' < BringsLeft(d)
    <3>1. PICK x \in Nat, y \in Nat, r \in Nat :
             x = fetched[o] /\ y = fetched'[o] /\ r = Rows
      BY <1>3
    <3>2. CASE edge[d] = Len(Inputs(o))
      <4>1. y = x + 1 /\ edge'[d] = 1 /\ edge[d] \in {1, 2}
        BY <1>3, <2>1, <3>1, <3>2
      <4>2. 4 * (r - y) + 2 * (2 - edge'[d]) + 1 < 4 * (r - x) + 2 * (2 - edge[d])
        BY ONLY <3>1, <4>1
      <4>3. QED
        BY <2>2, <3>1, <4>1, <4>2
    <3>3. CASE edge[d] # Len(Inputs(o))
      <4>1. y = x /\ edge'[d] = 2 /\ edge[d] = 1
        BY <1>3, <2>1, <3>1, <3>3
      <4>2. QED
        BY <2>2, <3>1, <4>1
    <3>4. QED
      BY <3>2, <3>3
  <2>4. QED
    BY <1>4, <1>6, <2>1, <2>3 DEF TransferStages
<1>11. QED
  BY <1>7, <1>8, <1>9, <1>10 DEF Transfers

LEMMA ProcessGoesDown ==
  ASSUME TypeOK, TypeOK', Control, NEW d \in Devices, Processes(d), ~failed'
  PROVE  Smaller(ProcessRank(d)', ProcessRank(d)) /\ TransferRank(d)' = TransferRank(d)
<1>1. Works(d)
  BY DEF Works
<1>2. PICK o \in Operations : o = at[d] /\ o = at'[d] /\ queue' = queue
  BY <1>1, WorkIsLocal, AtWork DEF IsLocal
<1>3. processed[o] \in 0..Rows /\ processed'[o] \in 0..Rows /\ Rows \in Nat
  BY PackedRows DEF TypeOK
<1>4. /\ UNCHANGED <<at, transfer, edge, fetched>> /\ process[d] = "run"
      /\ transfer[d] # "take"
  BY DEF Processes, ProcessMorsel, ProcessFails, ProcessEnds, IsInitialized
<1>5. TransferRank(d)' = TransferRank(d)
  BY <1>2, <1>4 DEF TransferRank, BringsLeft
<1>6. CASE ProcessMorsel(d)
  <2>1. process' = process /\ processed'[o] = processed[o] + 1
    BY <1>2, <1>6 DEF ProcessMorsel, TypeOK
  <2>2. Rows - processed'[o] < Rows - processed[o]
    BY <1>3, <2>1
  <2>3. QED
    BY <1>2, <1>4, <1>5, <2>1, <2>2 DEF ProcessRank, Smaller
<1>7. CASE ProcessEnds(d)
  <2>1. process'[d] = "done"
    BY <1>7 DEF ProcessEnds, TypeOK
  <2>2. ProcessRank(d)'[2] = 1 /\ ProcessRank(d)[2] = 2 /\ ProcessRank(d)'[1] = ProcessRank(d)[1]
    BY <1>2, <1>4, <2>1 DEF ProcessRank, ProcessStages
  <2>3. QED
    BY <1>5, <2>2 DEF Smaller
<1>8. QED
  BY <1>6, <1>7 DEF Processes, ProcessFails, Fail

\* Other devices keep what they have left.
LEMMA RanksElsewhere ==
  ASSUME TypeOK, Control, NEW d \in Devices, Works(d), NEW c \in Devices \ {d}
  PROVE  TransferRank(c)' = TransferRank(c) /\ ProcessRank(c)' = ProcessRank(c)
<1>1. /\ IsLocal(d) /\ at[d] # None
      /\ at[c] # at[d]
  BY WorkIsLocal, AtWork
<1>2. /\ queue' = queue /\ at' = at /\ transfer'[c] = transfer[c] /\ process'[c] = process[c]
      /\ edge'[c] = edge[c]
  BY <1>1 DEF IsLocal
<1>3. at[c] \in Operations => fetched'[at[c]] = fetched[at[c]] /\ processed'[at[c]] = processed[at[c]]
  BY <1>1 DEF IsLocal
<1>4. transfer[c] \in {"inspect", "sub", "copy"} \/ process[c] = "run" => at[c] \in Operations
  BY WorkingThreads
<1>5. QED
  BY <1>2, <1>3, <1>4 DEF TransferRank, ProcessRank, BringsLeft

LEMMA StepGoesDown ==
  ASSUME TypeOK, TypeOK', Control, Next, ~failed'
  PROVE  Lower(StepsLeft', StepsLeft)
<1> DEFINE f(w) == IF w[2] = "transfer_data" THEN TransferRank(w[1]) ELSE ProcessRank(w[1])
<1>1. PICK d \in Devices : Pop(d) \/ Join(d) \/ Take(d) \/ Transfers(d) \/ Processes(d)
  BY DEF Next, Executes
<1>2. ASSUME \A c \in Devices : /\ NotLarger(TransferRank(c)', TransferRank(c))
                                /\ NotLarger(ProcessRank(c)', ProcessRank(c)),
             \/ Smaller(TransferRank(d)', TransferRank(d))
             \/ Smaller(ProcessRank(d)', ProcessRank(d))
      PROVE  Lower(StepsLeft', StepsLeft)
  <2>1. /\ DOMAIN StepsLeft = Workers
        /\ \A w \in Workers : StepsLeft[w] = f(w) /\ StepsLeft'[w] = f(w)'
    BY DEF StepsLeft
  <2>2. \A w \in Workers : NotLarger(StepsLeft'[w], StepsLeft[w])
    BY <1>2, <2>1 DEF Workers
  <2>3. <<d, "transfer_data">> \in Workers /\ <<d, "process_data">> \in Workers
    BY DEF Workers
  <2>4. /\ StepsLeft[<<d, "transfer_data">>] = TransferRank(d)
        /\ StepsLeft'[<<d, "transfer_data">>] = TransferRank(d)'
        /\ StepsLeft[<<d, "process_data">>] = ProcessRank(d)
        /\ StepsLeft'[<<d, "process_data">>] = ProcessRank(d)'
    BY <2>1, <2>3
  <2>5. QED
    BY <1>2, <2>1, <2>2, <2>3, <2>4 DEF Lower
<1> HIDE DEF f
<1>3. CASE Pop(d)
  <2>1. queue \in Seq(Operations) /\ queue # <<>> /\ queue' = Tail(queue)
    BY <1>3 DEF Pop, TypeOK
  <2>2. Len(queue') < Len(queue)
    BY <2>1
  <2>3. \A c \in Devices : /\ Smaller(TransferRank(c)', TransferRank(c))
                           /\ Smaller(ProcessRank(c)', ProcessRank(c))
    BY <2>2 DEF TransferRank, ProcessRank, Smaller
  <2>4. QED
    BY <1>2, <2>3 DEF NotLarger
<1>4. CASE Join(d)
  <2>1. /\ UNCHANGED <<queue, edge, fetched, processed>>
        /\ transfer[d] = "done" /\ transfer'[d] = "none"
        /\ process[d] = "done" /\ process'[d] = "none"
        /\ \A c \in Devices \ {d} : /\ at'[c] = at[c] /\ transfer'[c] = transfer[c]
                                    /\ process'[c] = process[c]
    BY <1>4 DEF Join, TypeOK
  <2>2. \A c \in Devices \ {d} : TransferRank(c)' = TransferRank(c) /\ ProcessRank(c)' = ProcessRank(c)
    BY <2>1 DEF TransferRank, ProcessRank, BringsLeft
  <2>3. Smaller(TransferRank(d)', TransferRank(d)) /\ Smaller(ProcessRank(d)', ProcessRank(d))
    BY <2>1 DEF TransferRank, ProcessRank, TransferStages, ProcessStages, Smaller
  <2>4. QED
    BY <1>2, <2>2, <2>3 DEF NotLarger
<1>5. CASE Take(d)
  <2>1. /\ UNCHANGED <<queue, at, edge, fetched, processed>>
        /\ transfer[d] = "take" /\ transfer'[d] = "name" /\ process'[d] = "run"
    BY <1>5 DEF Take, TypeOK
  <2>2. Smaller(TransferRank(d)', TransferRank(d)) /\ Smaller(ProcessRank(d)', ProcessRank(d))
    BY <2>1 DEF TransferRank, ProcessRank, TransferStages, ProcessStages, Smaller
  <2>3. Works(d)
    BY <1>5 DEF Works
  <2>4. QED
    BY <1>2, <2>2, <2>3, RanksElsewhere DEF NotLarger
<1>6. CASE Transfers(d)
  <2>1. Works(d)
    BY <1>6 DEF Works
  <2>2. QED
    BY <1>2, <1>6, <2>1, TransferGoesDown, RanksElsewhere DEF NotLarger
<1>7. CASE Processes(d)
  <2>1. Works(d)
    BY <1>7 DEF Works
  <2>2. QED
    BY <1>2, <1>7, <2>1, ProcessGoesDown, RanksElsewhere DEF NotLarger
<1>8. QED
  BY <1>1, <1>3, <1>4, <1>5, <1>6, <1>7

\* The threads of morsel_driven have only finitely many steps between them,
\* whatever was taken late (data_parallelism.h:475-640): each step lowers what
\* one of them has left and raises it for none.  Over finitely many devices
\* such families cannot go down for ever (FamiliesEnd in QueryGraphProofs).
THEOREM ThreadsEnd == Spec => [][StepsGoDown]_vars
<1>1. (TypeOK /\ Control => StepsLeft \in [Workers -> Triples])'
  BY StepsAreRanks, PTL
<1>2. ASSUME IInv, IInv', [Next]_vars PROVE [StepsGoDown]_vars
  <2> SUFFICES ASSUME Next PROVE StepsGoDown
    BY <1>2
  <2>1. StepsLeft \in [Workers -> Triples] /\ StepsLeft' \in [Workers -> Triples]
    BY <1>1, <1>2, StepsAreRanks DEF IInv
  <2>2. failed' \in BOOLEAN /\ failed \in BOOLEAN
    BY <1>2 DEF IInv, TypeOK
  <2> PICK d \in Devices : Executes(d) \/ Transfers(d) \/ Processes(d)
    BY DEF Next
  <2>. ~failed
    BY DEF Executes, Transfers, Processes, Pop, Take, Join, Name, SetSize, Inspect, SubBuffer,
           Copy, SkipEdge, TransferEnds, ProcessMorsel, ProcessFails, ProcessEnds
  <2>3. ~failed' => Lower(StepsLeft', StepsLeft)
    BY <1>2, StepGoesDown DEF IInv
  <2>4. QED
    BY <2>1, <2>2, <2>3 DEF StepsGoDown, FamilyDescent
<1>3. QED
  BY <1>2, IInvHolds, PTL DEF Spec

-----------------------------------------------------------------------------
(* Nobody waits for ever: a device at work has a thread that can go on.    *)

\* What is neither queued nor ended is in work; what was filled is there; and
\* transfer_data is amid a morsel as long as it has one to bring.
Amid(d) ==
  /\ transfer[d] = "copy" => fetched[at[d]] \in present[<<at[d], edge[d]>>]
  /\ transfer[d] = "sub" /\ edge[d] = 2 => MoreToFetch(d)
  /\ transfer[d] = "done" => ~MoreToFetch(d)

Underway ==
  /\ \A o \in Operations : IsQueued(o) \/ o \in ended \/ \E d \in Devices : at[d] = o
  /\ \A e \in Edges : right[e] \subseteq present[e]
  /\ \A d \in Devices : at[d] # None => Amid(d)

\* A guard of one of the threads of device d is open: pop finds an operation,
\* the threads start, transfer_data goes on, process_data finds its morsel or
\* is through, or both are joined.
GoesOn(d) ==
  /\ ~failed
  /\ \/ at[d] = None /\ queue # <<>>
     \/ transfer[d] \in {"take", "name", "size", "inspect", "copy"}
     \/ transfer[d] = "sub" /\ (MoreToFetch(d) \/ edge[d] = 1)
     \/ /\ process[d] = "run" /\ IsInitialized(d)
        /\ \/ processed[at[d]] >= limit[at[d]]
           \/ processed[at[d]] >= dataSize[at[d]]
           \/ Available(d, processed[at[d]])
     \/ transfer[d] = "done" /\ process[d] = "done"

LEMMA InitUnderway == Init => Underway
<1> SUFFICES ASSUME Init PROVE Underway
  OBVIOUS
<1>1. /\ queue = [k \in Operations |-> k] /\ at = [d \in Devices |-> None]
      /\ right = [e \in Edges |-> {}]
  BY DEF Init
<1>2. \A o \in Operations : o \in DOMAIN queue /\ queue[o] = o
  BY <1>1
<1>3. \A e \in Edges : right[e] = {}
  BY <1>1
<1>4. \A d \in Devices : at[d] = None
  BY <1>1
<1>5. QED
  BY <1>2, <1>3, <1>4 DEF Underway, IsQueued

\* Pop takes the first operation and leaves the others queued.
LEMMA PopQueue ==
  ASSUME TypeOK, NEW d \in Devices, Pop(d), NEW o \in Operations, IsQueued(o)
  PROVE  at'[d] = o \/ IsQueued(o)'
<1>1. queue \in Seq(Operations) /\ queue # <<>> /\ queue' = Tail(queue) /\ at'[d] = Head(queue)
  BY DEF Pop, TypeOK
<1>2. PICK k \in DOMAIN queue : queue[k] = o
  BY DEF IsQueued
<1>3. PICK n \in Nat : n = Len(queue) /\ DOMAIN queue = 1..n /\ n >= 1
  BY <1>1
<1>4. CASE k = 1
  BY <1>1, <1>2, <1>4
<1>5. CASE k # 1
  <2>1. k - 1 \in 1..(n - 1) /\ (k - 1) + 1 = k
    BY <1>2, <1>3, <1>5
  <2>2. DOMAIN Tail(queue) = 1..(n - 1) /\ \A j \in 1..(n - 1) : Tail(queue)[j] = queue[j + 1]
    BY <1>1, <1>3
  <2>3. k - 1 \in DOMAIN queue' /\ queue'[k - 1] = o
    BY <1>1, <1>2, <2>1, <2>2
  <2>4. QED
    BY <2>3 DEF IsQueued
<1>6. QED
  BY <1>4, <1>5

\* A sub buffer that is there stays there, and one that is filled is there.
LEMMA PresentStays ==
  ASSUME TypeOK, Control, Underway, NEW d \in Devices, Works(d)
  PROVE  \A e \in Edges : present[e] \subseteq present'[e] /\ right'[e] \subseteq present'[e]
<1>1. /\ at[d] # None /\ at[d] \in Operations /\ <<at[d], edge[d]>> \in Edges /\ Amid(d)
  BY WorkIsLocal, AtWork DEF Underway
<1>2. \A e \in Edges : right[e] \subseteq present[e]
  BY DEF Underway
<1>3. CASE SubBuffer(d)
  <2>1. PICK x \in Edges, m \in 0..Rows : x = <<at[d], edge[d]>> /\ m = fetched[at[d]]
    BY <1>1 DEF TypeOK
  <2>2. right' = right /\ present' \in {present, [present EXCEPT ![x] = @ \cup {m}]}
    BY <1>3, <2>1 DEF SubBuffer
  <2>3. present \in [Edges -> SUBSET (0..(Rows - 1))]
    BY DEF TypeOK
  <2>4. \A e \in Edges : present[e] \subseteq present'[e]
    BY <2>2, <2>3
  <2>5. QED
    BY <1>2, <2>2, <2>4
<1>4. CASE Copy(d)
  <2>1. /\ present' = present
        /\ \A e \in Edges : \/ right'[e] = right[e]
                            \/ /\ e = <<at[d], edge[d]>>
                               /\ right'[e] = right[e] \cup {fetched[at[d]]}
    <3>1. PICK x \in Edges, m \in 0..Rows : x = <<at[d], edge[d]>> /\ m = fetched[at[d]]
      BY <1>1 DEF TypeOK
    <3>2. present' = present /\ right' \in {right, [right EXCEPT ![x] = @ \cup {m}], [right EXCEPT ![x] = @]}
      BY <1>4, <3>1 DEF Copy
    <3>3. right \in [Edges -> SUBSET (0..(Rows - 1))]
      BY DEF TypeOK
    <3>4. QED
      BY <3>1, <3>2, <3>3
  <2>2. fetched[at[d]] \in present[<<at[d], edge[d]>>]
    BY <1>1, <1>4 DEF Copy, Amid
  <2>3. QED
    BY <1>2, <2>1, <2>2
<1>5. CASE ~SubBuffer(d) /\ ~Copy(d)
  <2>1. present' = present /\ right' = right
    BY <1>5 DEF Works, Transfers, Processes, Take, Name, SetSize, Inspect, SkipEdge,
                TransferEnds, ProcessMorsel, ProcessFails, ProcessEnds
  <2>2. QED
    BY <1>2, <2>1
<1>6. QED
  BY <1>3, <1>4, <1>5

LEMMA WorkAmid ==
  ASSUME TypeOK, Control, Underway, NEW d \in Devices, Works(d)
  PROVE  Amid(d)'
<1>1. PICK o \in Operations : o = at[d] /\ at' = at /\ <<o, edge[d]>> \in Edges
  BY WorkIsLocal, AtWork DEF IsLocal
<1>2. /\ Amid(d) /\ Threads(d) /\ Len(Inputs(o)) \in {1, 2} /\ edge[d] \in {1, 2}
      /\ edge[d] <= Len(Inputs(o))
  BY <1>1, Reading, InputCount, AtWork, WorkIsLocal DEF Underway, Control, TypeOK
<1>3. CASE Take(d) \/ Name(d) \/ SetSize(d)
  <2>1. transfer'[d] \in {"name", "size", "inspect"}
    BY <1>3 DEF Take, Name, SetSize, TypeOK
  <2>2. QED
    BY <2>1 DEF Amid
<1>4. CASE Inspect(d)
  <2>1. transfer[d] = "inspect" /\ (transfer' = transfer \/ NextEdge(d, "sub"))
    BY <1>4 DEF Inspect
  <2>2. transfer'[d] = "inspect" \/ (transfer'[d] = "sub" /\ edge'[d] = 1)
    BY <1>1, <2>1 DEF NextEdge, TypeOK
  <2>3. QED
    BY <2>2 DEF Amid
<1>5. CASE SubBuffer(d)
  <2>1. /\ transfer[d] = "sub" /\ MoreToFetch(d) /\ UNCHANGED <<at, edge, fetched, limit>>
        /\ \/ transfer' = transfer
           \/ /\ transfer'[d] = "copy"
              /\ present'[<<o, edge[d]>>] = present[<<o, edge[d]>>] \cup {fetched[o]}
    BY <1>1, <1>5 DEF SubBuffer, TypeOK
  <2>2. MoreToFetch(d)'
    BY <2>1 DEF MoreToFetch
  <2>3. CASE transfer' = transfer
    BY <2>1, <2>2, <2>3 DEF Amid
  <2>4. CASE transfer'[d] = "copy" /\ present'[<<o, edge[d]>>] = present[<<o, edge[d]>>] \cup {fetched[o]}
    <3>1. fetched'[at'[d]] \in present'[<<at'[d], edge'[d]>>]
      BY <1>1, <2>1, <2>4
    <3>2. QED
      BY <2>4, <3>1 DEF Amid
  <2>5. QED
    BY <2>1, <2>3, <2>4
<1>6. CASE Copy(d) \/ SkipEdge(d)
  <2>1. MoreToFetch(d)
    BY <1>1, <1>2, <1>6 DEF Copy, SkipEdge, Threads, MoreToFetch
  <2>2. \/ UNCHANGED <<transfer, edge, fetched, limit, present>>
        \/ /\ transfer'[d] = "sub" /\ limit' = limit
           /\ edge'[d] = (IF edge[d] = Len(Inputs(o)) THEN 1 ELSE edge[d] + 1)
           /\ fetched'[o] = (IF edge[d] = Len(Inputs(o)) THEN fetched[o] + 1 ELSE fetched[o])
    <3>1. CASE Copy(d)
      BY <1>1, <3>1 DEF Copy, Fetched, TypeOK
    <3>2. CASE SkipEdge(d)
      BY <1>1, <3>2 DEF SkipEdge, NextEdge, Fetched, TypeOK
    <3>3. QED
      BY <1>6, <3>1, <3>2
  <2>3. CASE UNCHANGED <<transfer, edge, fetched, limit, present>>
    BY <1>1, <1>2, <2>3 DEF Amid, MoreToFetch
  <2>4. CASE transfer'[d] = "sub" /\ limit' = limit
             /\ edge'[d] = (IF edge[d] = Len(Inputs(o)) THEN 1 ELSE edge[d] + 1)
             /\ fetched'[o] = (IF edge[d] = Len(Inputs(o)) THEN fetched[o] + 1 ELSE fetched[o])
    <3>1. edge'[d] = 2 => fetched'[o] = fetched[o]
      BY <2>4
    <3>2. edge'[d] = 2 => MoreToFetch(d)'
      BY <1>1, <2>1, <2>4, <3>1 DEF MoreToFetch
    <3>3. QED
      BY <2>4, <3>2 DEF Amid
  <2>5. QED
    BY <2>2, <2>3, <2>4
<1>7. CASE TransferEnds(d)
  <2>1. /\ ~MoreToFetch(d) /\ transfer'[d] = "done" /\ UNCHANGED <<at, fetched, limit>>
    BY <1>7 DEF TransferEnds, TypeOK
  <2>2. QED
    BY <2>1 DEF Amid, MoreToFetch
<1>8. CASE Processes(d)
  <2>1. UNCHANGED <<transfer, edge, fetched, limit, present>>
    BY <1>8 DEF Processes, ProcessMorsel, ProcessFails, ProcessEnds
  <2>2. QED
    BY <1>1, <1>2, <2>1 DEF Amid, MoreToFetch
<1>9. QED
  BY <1>3, <1>4, <1>5, <1>6, <1>7, <1>8 DEF Works, Transfers

LEMMA AmidElsewhere ==
  ASSUME TypeOK, Control, Underway, NEW d \in Devices, Works(d),
         NEW c \in Devices \ {d}, at[c] # None
  PROVE  Amid(c)'
<1>1. /\ IsLocal(d) /\ Amid(c) /\ at[c] \in Operations \ {at[d]}
      /\ <<at[c], edge[c]>> \in Edges
  BY WorkIsLocal, AtWork DEF Underway
<1>2. /\ at' = at /\ transfer'[c] = transfer[c] /\ edge'[c] = edge[c]
      /\ limit'[at[c]] = limit[at[c]] /\ fetched'[at[c]] = fetched[at[c]]
  BY <1>1 DEF IsLocal
<1>3. present[<<at[c], edge[c]>>] \subseteq present'[<<at[c], edge[c]>>]
  BY <1>1, PresentStays
<1>4. QED
  BY <1>1, <1>2, <1>3 DEF Amid, MoreToFetch

LEMMA KeepUnderway ==
  IInv /\ Underway /\ [Next]_vars => Underway'
<1> SUFFICES ASSUME IInv, Underway, [Next]_vars PROVE Underway'
  OBVIOUS
<1> USE DEF IInv
<1>1. CASE UNCHANGED vars
  BY <1>1 DEF vars, Underway, IsQueued, Amid, MoreToFetch
<1>2. ASSUME NEW d \in Devices, Pop(d) PROVE Underway'
  <2>1. /\ UNCHANGED <<edge, limit, fetched, present, right, ended>>
        /\ at' = [at EXCEPT ![d] = Head(queue)] /\ at[d] = None
        /\ transfer' = [transfer EXCEPT ![d] = "take"]
    BY <1>2 DEF Pop
  <2>2. \A c \in Devices \ {d} : at'[c] = at[c] /\ transfer'[c] = transfer[c]
    BY <2>1 DEF TypeOK
  <2>3. ASSUME NEW o \in Operations
        PROVE  IsQueued(o)' \/ o \in ended' \/ \E c \in Devices : at'[c] = o
    <3>1. CASE IsQueued(o)
      BY <1>2, <3>1, PopQueue
    <3>2. CASE \E c \in Devices : at[c] = o
      <4>1. PICK c \in Devices : at[c] = o
        BY <3>2
      <4>2. c # d
        BY <2>1, <4>1, Reading
      <4>3. QED
        BY <2>2, <4>1, <4>2
    <3>3. QED
      BY <2>1, <3>1, <3>2 DEF Underway
  <2>4. ASSUME NEW c \in Devices, at'[c] # None PROVE Amid(c)'
    <3>1. CASE c = d
      BY <2>1, <3>1 DEF Amid, TypeOK
    <3>2. CASE c # d
      BY <2>1, <2>2, <2>4, <3>2 DEF Underway, Amid, MoreToFetch
    <3>3. QED
      BY <3>1, <3>2
  <2>5. QED
    BY <2>1, <2>3, <2>4 DEF Underway
<1>3. ASSUME NEW d \in Devices, Join(d) PROVE Underway'
  <2>1. /\ UNCHANGED <<queue, edge, limit, fetched, present, right, ended>>
        /\ at' = [at EXCEPT ![d] = None] /\ process[d] = "done" /\ transfer[d] = "done"
        /\ transfer' = [transfer EXCEPT ![d] = "none"]
    BY <1>3 DEF Join
  <2>2. \A c \in Devices \ {d} : at'[c] = at[c] /\ transfer'[c] = transfer[c]
    BY <2>1 DEF TypeOK
  <2>3. at[d] \in ended
    BY <2>1 DEF Control, Threads
  <2>4. \A o : IsQueued(o)' <=> IsQueued(o)
    BY <2>1 DEF IsQueued
  <2>5. \A o \in Operations : IsQueued(o)' \/ o \in ended' \/ \E c \in Devices : at'[c] = o
    BY <2>1, <2>2, <2>3, <2>4 DEF Underway
  <2>6. ASSUME NEW c \in Devices, at'[c] # None PROVE Amid(c)'
    <3>1. c # d
      BY <2>1, <2>6 DEF TypeOK
    <3>2. QED
      BY <2>1, <2>2, <2>6, <3>1 DEF Underway, Amid, MoreToFetch
  <2>7. QED
    BY <2>1, <2>5, <2>6 DEF Underway
<1>4. ASSUME NEW d \in Devices, Works(d) PROVE Underway'
  <2>1. IsLocal(d) /\ queue' = queue /\ at' = at
    BY <1>4, WorkIsLocal DEF IsLocal
  <2>2. \A o \in Operations : IsQueued(o)' <=> IsQueued(o)
    BY <2>1 DEF IsQueued
  <2>3. \A o \in Operations : o = at[d] \/ (o \in ended' <=> o \in ended)
    BY <2>1 DEF IsLocal
  <2>4. \A o \in Operations : IsQueued(o)' \/ o \in ended' \/ \E c \in Devices : at'[c] = o
    BY <2>1, <2>2, <2>3 DEF Underway
  <2>5. \A e \in Edges : right'[e] \subseteq present'[e]
    BY <1>4, PresentStays
  <2>6. \A c \in Devices : at'[c] # None => Amid(c)'
    BY <1>4, <2>1, WorkAmid, AmidElsewhere
  <2>7. QED
    BY <2>4, <2>5, <2>6 DEF Underway
<1>5. QED
  BY <1>1, <1>2, <1>3, <1>4 DEF Next, Executes, Works

\* The next morsel of a timely operation is there when transfer_data is through:
\* what this device made itself was made to its end, the rest has been filled.
LEMMA NextIsAvailable ==
  ASSUME IInv, Underway, NEW d \in Devices, at[d] # None, InTime(at[d]),
         transfer[d] = "done", process[d] = "run", processed[at[d]] < limit[at[d]]
  PROVE  Available(d, processed[at[d]])
<1>1. PICK o \in Operations, m \in 0..Rows : o = at[d] /\ m = processed[at[d]]
  BY AtWork DEF IInv, TypeOK
<1>2. /\ OnTime(d) /\ Amid(d) /\ Threads(d) /\ edge[d] = 1 /\ IsInitialized(d)
  BY DEF IInv, Timely, Underway, Control, Threads, IsInitialized
<1>3. /\ m \in 0..Rows /\ fetched[o] \in 0..Rows /\ limit[o] \in 0..Rows /\ Rows \in Nat
      /\ TrueSize(o) \in 1..Rows
  BY <1>1, PackedRows, TrueSizes DEF IInv, TypeOK
<1>4. /\ limit[o] = TrueSize(o) /\ fetched[o] <= TrueSize(o) /\ ~(fetched[o] < limit[o])
  BY <1>1, <1>2 DEF OnTime, Amid, MoreToFetch
<1>5. m < fetched[o] /\ m \in 0..(TrueSize(o) - 1)
  BY <1>1, <1>3, <1>4
<1>6. ASSUME NEW e \in EdgesInto(o) PROVE IsPresent(d, e, m)
  <2>1. e \in Edges /\ e[1] = o /\ e[2] \in {1, 2}
    BY EdgeShape
  <2>2. CASE From(e) = d
    <3>1. PICK p \in Operations : p = Producer(e) /\ Complete(p) /\ TrueSize(o) = Packed
      <4>1. None \notin Devices
        BY MorselAssumption
      <4>2. QED
        BY <1>1, <2>2, <4>1, TimelyInputs DEF IInv
    <3>2. p \in ended /\ MorselsFit(p)
      BY <1>1, <1>2, <3>1, Reading DEF OnTime, IInv, Sizes
    <3>3. processed[p] \in Nat /\ limit[p] \in Nat /\ processed[p] = limit[p]
          /\ limit[p] >= TrueSize(p) /\ TrueSize(p) \in Nat
      <4>1. processed[p] = limit[p] /\ limit[p] >= TrueSize(p)
        BY <3>2 DEF MorselsFit
      <4>2. processed[p] \in 0..Rows /\ limit[p] \in 0..Rows
        BY DEF IInv, TypeOK
      <4>3. TrueSize(p) \in 1..Rows /\ Rows \in Nat
        BY TrueSizes, PackedRows
      <4>4. QED
        BY ONLY <4>1, <4>2, <4>3
    <3>4. m * Width(p) \in Source(p, m)
      <4>1. Width(p) \in Nat /\ Width(p) > 0 /\ m \in Nat
        BY <1>3, PackedRows DEF Width
      <4>2. m * Width(p) \in Nat
        BY <4>1
      <4>3. QED
        BY <4>1, <4>2 DEF Source
    <3>5. m * Width(p) \in 0..(TrueSize(p) - 1)
      BY <1>5, <3>1, <3>4, SourceOfMorsel
    <3>6. m * Width(p) < processed[p]
      BY <3>3, <3>5
    <3>7. QED
      BY <2>2, <3>1, <3>6 DEF IsPresent
  <2>3. CASE From(e) # d
    <3>1. edgeFetched[e] = fetched[o] /\ right[e] = 0..(edgeFetched[e] - 1)
      <4>1. edgeFetched[e] = Brought(d, e) /\ right[e] = 0..(edgeFetched[e] - 1)
        BY <1>1, <1>2, <2>3 DEF OnTime
      <4>2. Brought(d, e) = fetched[o]
        BY <1>2, <1>3, <2>1 DEF Brought
      <4>3. QED
        BY <4>1, <4>2
    <3>2. m \in right[e]
      BY <1>3, <1>5, <3>1
    <3>3. QED
      BY <2>1, <2>3, <3>2 DEF Underway, IsPresent
  <2>4. QED
    BY <2>2, <2>3
<1>7. QED
  BY <1>1, <1>5, <1>6 DEF Available

LEMMA WorkerGoesOn ==
  ASSUME IInv, Underway, ~failed, NEW d \in Devices, at[d] # None, InTime(at[d])
  PROVE  GoesOn(d)
<1>1. ~failed /\ Amid(d) /\ Threads(d) /\ edge[d] \in {1, 2}
  BY DEF IInv, Timely, Underway, Control, TypeOK
<1>2. transfer[d] \in {"take", "name", "size", "inspect", "sub", "copy", "done"}
  BY <1>1 DEF IInv, TypeOK, Threads
<1>3. CASE transfer[d] # "done"
  BY <1>1, <1>2, <1>3 DEF GoesOn, Amid
<1>4. CASE transfer[d] = "done"
  <2>1. process[d] \in {"run", "done"} /\ IsInitialized(d)
    BY <1>1, <1>4 DEF Threads, IInv, TypeOK, IsInitialized
  <2>2. CASE process[d] = "done"
    BY <1>1, <1>4, <2>2 DEF GoesOn
  <2>3. CASE process[d] = "run" /\ processed[at[d]] >= limit[at[d]]
    BY <1>1, <2>1, <2>3 DEF GoesOn
  <2>4. CASE process[d] = "run" /\ ~(processed[at[d]] >= limit[at[d]])
    <3>1. processed[at[d]] \in Nat /\ limit[at[d]] \in Nat
      BY AtWork, PackedRows DEF IInv, TypeOK
    <3>2. processed[at[d]] < limit[at[d]]
      BY <2>4, <3>1
    <3>3. Available(d, processed[at[d]])
      BY <1>4, <2>4, <3>2, NextIsAvailable
    <3>4. QED
      BY <1>1, <2>1, <2>4, <3>3 DEF GoesOn
  <2>5. QED
    BY <2>1, <2>2, <2>3, <2>4
<1>5. QED
  BY <1>3, <1>4

\* No device with an operation up to which all were taken in time waits for
\* another one: transfer_data has its next edge, or process_data the morsel that
\* it spins for (data_parallelism.h:476-640); and as long as none was taken late
\* and one has not ended there is a device that has one or finds one queued.
\* With ThreadsEnd, what is timely stops only at its end.
THEOREM NobodyWaits ==
  ASSUME Devices # {}
  PROVE  Spec => [](
           /\ \A d \in Devices : at[d] # None /\ InTime(at[d]) /\ ~failed => GoesOn(d)
           /\ late = {} /\ ended # Operations => \E d \in Devices : GoesOn(d))
<1> DEFINE Goes ==
             /\ \A d \in Devices : at[d] # None /\ InTime(at[d]) /\ ~failed => GoesOn(d)
             /\ late = {} /\ ended # Operations => \E d \in Devices : GoesOn(d)
<1>1. Init => Underway
  BY InitUnderway
<1>2. IInv /\ Underway /\ [Next]_vars => Underway'
  BY KeepUnderway
<1>3. IInv /\ Underway => Goes
  <2> SUFFICES ASSUME IInv, Underway
               PROVE  /\ \A d \in Devices : at[d] # None /\ InTime(at[d]) /\ ~failed => GoesOn(d)
                      /\ late = {} /\ ended # Operations => \E d \in Devices : GoesOn(d)
    BY DEF Goes
  <2>1. \A d \in Devices : at[d] # None /\ InTime(at[d]) /\ ~failed => GoesOn(d)
    BY WorkerGoesOn
  <2>2. ASSUME late = {}, ended # Operations PROVE \E d \in Devices : GoesOn(d)
    <3>1. CASE \E d \in Devices : at[d] # None
      BY <2>1, <2>2, <3>1 DEF InTime, IInv, Timely
    <3>2. CASE \A d \in Devices : at[d] = None
      <4>1. PICK o \in Operations : o \notin ended
        BY <2>2 DEF IInv, TypeOK
      <4>2. IsQueued(o)
        BY <3>2, <4>1, Reading DEF Underway
      <4>3. queue # <<>>
        BY <4>2 DEF IsQueued
      <4>4. PICK d \in Devices : at[d] = None
        BY <3>2
      <4>5. QED
        BY <2>2, <4>3, <4>4 DEF GoesOn, IInv, Timely
    <3>3. QED
      BY <3>1, <3>2
  <2>3. QED
    BY <2>1, <2>2
<1>4. Spec => []Goes
  <2> HIDE DEF Goes
  <2>1. QED
    BY <1>1, <1>2, <1>3, IInvHolds, PTL DEF Spec
<1>5. QED
  BY <1>4
=============================================================================
