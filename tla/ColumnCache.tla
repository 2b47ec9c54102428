---------------------------- MODULE ColumnCache ----------------------------
(***************************************************************************)
(* parseColumns: a start of the program maps the binary files of a table,  *)
(* and writes them first, from the .tbl file, when one is not there.  The  *)
(* process may die between any two steps; what it wrote to its mappings    *)
(* stays.  The .tbl file may be made anew while the program is down.       *)
(*                                                                         *)
(* A version of the table is its number, and so is every value in it; a    *)
(* file is the sequence of its values.  Zero bytes are the value 0.        *)
(***************************************************************************)
EXTENDS Integers, Sequences, FiniteSets

CONSTANTS
  Last,          \* the columns are 1..Last
  RowsOf,        \* number of rows of each version of the table
  MaxFailures    \* bound on the starts that fail or die

\* A version is not -1, which stands for no file, nor 0, and has rows: a file of
\* length 0 cannot be allocated.
StoreAssumption ==
  /\ Last \in Nat \ {0} /\ MaxFailures \in Nat
  /\ \A v \in DOMAIN RowsOf : v \in Nat \ {0} /\ RowsOf[v] \in Nat \ {0}

VARIABLES
  cached,        \* the directory is there
  tbl,           \* the version of the .tbl file
  files,         \* the files of the columns, Absent or their contents
  stage,
  col,           \* the column that is written or read
  unwritten,     \* the places memcpy has not come to
  columnSize, diffs,   \* local variables of parseColumns
  died, replaced, failures    \* history

storeVars == <<cached, tbl, files, stage, col, unwritten, columnSize, diffs, died,
          replaced, failures>>

Columns  == 1..Last
Versions == DOMAIN RowsOf
Rows     == RowsOf[tbl]
Absent   == <<-1>>

Whole(v) == [r \in 1..RowsOf[v] |-> v]

StoreInit ==
  /\ cached = FALSE /\ tbl \in Versions
  /\ files = [c \in Columns |-> Absent]
  /\ stage = "down" /\ col = 1 /\ unwritten = {}
  /\ columnSize = 0 /\ diffs = 0
  /\ died = FALSE /\ replaced = FALSE /\ failures = 0

\* An exception that nobody catches, or a throw without one.
Fail ==
  /\ stage' = "down"
  /\ failures' = failures + 1

\* Mutant of Missing: the directory is asked for, not what is in it.
MissingDirectory == ~cached

Missing == \E c \in Columns : files[c] = Absent

\* mkdir returns 0 when it has made the directory: the start then fails.
Start ==
  /\ stage = "down" /\ failures < MaxFailures
  /\ cached' = TRUE
  /\ IF ~cached
     THEN Fail
     ELSE /\ stage' = IF Missing THEN "open" ELSE "load"
          /\ UNCHANGED failures
  /\ col' = 1 /\ columnSize' = 0 /\ diffs' = 0
  /\ UNCHANGED <<tbl, files, unwritten, died, replaced>>

\* open of writeBinary creates the file, or takes the one that is there.
Open ==
  /\ stage = "open"
  /\ files' = [files EXCEPT ![col] = IF @ = Absent THEN <<>> ELSE @]
  /\ stage' = "allocate"
  /\ UNCHANGED <<cached, tbl, col, unwritten, columnSize, diffs, died, replaced, failures>>

\* posix_fallocate makes a file longer, never shorter.
Extend ==
  /\ stage = "allocate"
  /\ files' = [files EXCEPT ![col] =
       @ \o [r \in 1..(IF Rows > Len(@) THEN Rows - Len(@) ELSE 0) |-> 0]]
  /\ unwritten' = 1..Rows
  /\ stage' = "copy"
  /\ UNCHANGED <<cached, tbl, col, columnSize, diffs, died, replaced, failures>>

\* memcpy does not say in which order it writes.
Copy ==
  /\ stage = "copy"
  /\ \E r \in unwritten :
       /\ files' = [files EXCEPT ![col][r] = tbl]
       /\ unwritten' = unwritten \ {r}
  /\ UNCHANGED <<cached, tbl, stage, col, columnSize, diffs, died, replaced, failures>>

\* Mutant of Close: the copy may still go on.
CloseEarly ==
  /\ stage = "copy"
  /\ stage' = IF col = Last THEN "load" ELSE "open"
  /\ col' = IF col = Last THEN 1 ELSE col + 1
  /\ UNCHANGED <<cached, tbl, files, unwritten, columnSize, diffs, died, replaced, failures>>

\* The next column; after the last one the files are read.
Close ==
  /\ stage = "copy" /\ unwritten = {}
  /\ stage' = IF col = Last THEN "load" ELSE "open"
  /\ col' = IF col = Last THEN 1 ELSE col + 1
  /\ UNCHANGED <<cached, tbl, files, unwritten, columnSize, diffs, died, replaced, failures>>

\* Mutant of Differs: a column that is shorter is let pass.
DiffersIfLonger(n) == n > columnSize

Differs(n) == n # columnSize

\* readBinary: a file must be there, and an empty one cannot be mapped.
Load ==
  /\ stage = "load" /\ col <= Last
  /\ IF files[col] \in {Absent, <<>>}
     THEN Fail /\ UNCHANGED <<col, columnSize, diffs>>
     ELSE /\ columnSize' = Len(files[col])
          /\ diffs' = diffs + IF Differs(Len(files[col])) THEN 1 ELSE 0
          /\ col' = col + 1
          /\ UNCHANGED <<stage, failures>>
  /\ UNCHANGED <<cached, tbl, files, unwritten, died, replaced>>

\* The first column differs from no column.
Accept ==
  /\ stage = "load" /\ col > Last
  /\ IF diffs > 1 THEN Fail ELSE stage' = "up" /\ UNCHANGED failures
  /\ UNCHANGED <<cached, tbl, files, col, unwritten, columnSize, diffs, died, replaced>>

\* The queries only read, and the program ends.
End ==
  /\ stage = "up" /\ stage' = "down"
  /\ UNCHANGED <<cached, tbl, files, col, unwritten, columnSize, diffs, died, replaced, failures>>

Die ==
  /\ stage \in {"open", "allocate", "copy", "load"} /\ failures < MaxFailures
  /\ Fail /\ died' = TRUE
  /\ unwritten' = {}
  /\ UNCHANGED <<cached, tbl, files, col, columnSize, diffs, replaced>>

Replace ==
  /\ stage = "down"
  /\ tbl' \in Versions \ {tbl} /\ replaced' = TRUE
  /\ UNCHANGED <<cached, files, stage, col, unwritten, columnSize, diffs, died, failures>>

StoreNext ==
  \/ Start \/ Open \/ Extend \/ Copy \/ Close \/ Load \/ Accept \/ End
  \/ Die \/ Replace

StoreSpec == StoreInit /\ [][StoreNext]_storeVars

-----------------------------------------------------------------------------
StoreTypeOK ==
  /\ cached \in BOOLEAN /\ tbl \in Versions
  /\ \A c \in Columns : files[c] = Absent \/ files[c] \in Seq(Versions \cup {0})
  /\ stage \in {"down", "open", "allocate", "copy", "load", "up"}
  /\ col \in 1..(Last + 1)
  /\ unwritten \subseteq 1..Rows
  /\ columnSize \in Nat /\ diffs \in 0..Last
  /\ failures \in 0..MaxFailures

\* Whatever died before and whichever versions the files are left from, a
\* relation is used only if its columns are of one size, and that is nrTuples
\* (Import.cpp:228-230).
ColumnsAreOfOneSize == stage = "up" => \A c \in Columns : Len(files[c]) = columnSize

\* A start that dies is noticed by a file that is not there, except in the
\* last column: this one may have the right size and zeros for values, and is
\* used all the same.  All others are whole (Import.cpp:193-196, which asks of
\* a file only that it is there).
OnlyTheLastIsPartial ==
  stage = "up" /\ ~replaced =>
    /\ \A c \in Columns \ {Last} : files[c] = Whole(tbl)
    /\ ~died => files[Last] = Whole(tbl)

\* Only the very first start fails by itself, for it makes the directory
\* (Import.cpp:191): without a death in between the second one succeeds, also
\* over the files of an older version.
FailsOnlyOnce == ~died => failures <= 1
=============================================================================
