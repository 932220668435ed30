------------------------------ MODULE LibTable ------------------------------
(***************************************************************************)
(* From Liberty files to the tables a cell is sized in: OpenROAD's         *)
(* equivalent-cell classes, lib_parser for each file of each corner, the   *)
(* sorting of the candidates of a class, createLibCellTable, and the slot  *)
(* of each instance (assignLibCellTables, the Vt of readDesign_opensta).   *)
(*                                                                         *)
(* A cell name is a stem with a Vt suffix in it, <<stem, suffix>>, the     *)
(* suffix "" where the name has none.  A class is the set of its cells:    *)
(* the drive order of a cell in its class is part of CellDb.  Rows and     *)
(* columns count from 0, as in the code; a slot without a cell is Hole.    *)
(***************************************************************************)
EXTENDS CmdFile, FiniteSets, Functions

CONSTANTS
  CellDb,    \* name -> [class, drive, leakage, cap, sequential]
  LibFiles,  \* file -> [ics55, cells: a sequence of names]
  Hole

VARIABLES
  pos,      \* [corner, file]: what lib_parser reads next
  libs,     \* libs: by corner, the c_vtype of every cell read
  cands,    \* func_lib_cell_list: by corner and class, a sequence of names
  tables,   \* main_lib_cell_tables: by corner, a sequence of [class, rows]
  rowOf,    \* c_size of every name, by corner
  idOf      \* check_map: the table number of a class
libVars == <<pos, libs, cands, tables, rowOf, idOf>>

Names == DOMAIN CellDb
Classes == {CellDb[c].class : c \in Names}

\* The files of each corner, numVt, and the suffix of each Vt column: 0 slow,
\* 1 nominal, 2 fast.
FilesOf == IF Get(opt, "mmmcOn") THEN view.libs ELSE <<Get(opt, "libLibs")>>
NumVt == Get(opt, "numVt")
Suffix(k) == Get(opt, <<"suffixHVT", "suffixNVT", "suffixLVT">>[k + 1])
Columns == 0..(NumVt - 1)

-----------------------------------------------------------------------------
(* Names and Vt. *)

\* A suffix that is not set is found in every name.
Has(c, k) == Suffix(k) \in {"", c[2]}

\* determine_vt_type, and the same tests in readDesign_opensta.
VtypeOf(c) ==
  CASE NumVt = 3 -> IF Has(c, 2) THEN 2 ELSE IF Has(c, 0) THEN 0 ELSE 1
    [] NumVt = 2 -> IF Has(c, 0) THEN 0 ELSE 1
    [] OTHER -> 0

\* createLibCellTable asks in another order, and with two Vts takes a name
\* without suffix for a slow one.
ColumnOf(c) ==
  CASE NumVt = 3 -> IF Has(c, 0) THEN 0 ELSE IF Has(c, 1) THEN 1 ELSE IF Has(c, 2) THEN 2 ELSE 1
    [] NumVt = 2 -> IF ~Has(c, 0) /\ Has(c, 1) THEN 1 ELSE 0
    [] OTHER -> 0

RowName_Whole(c) == c
\* The name of a cell's row: its name without the suffix it was found by.
RowName(c) == IF NumVt # 1 /\ Has(c, ColumnOf(c)) /\ Suffix(ColumnOf(c)) # "" THEN <<c[1], "">> ELSE c

\* compareEquivCellsForSizing, for cells of one class.
SortKeys(c) ==
  LET d == CellDb[c]
  IN IF Get(opt, "equivCellSort") = "leakage" THEN <<d.leakage, d.drive, d.cap>> ELSE <<d.drive, d.leakage, d.cap>>
Precedes(c, d) ==
  \E i \in 1..3 : /\ SortKeys(c)[i] < SortKeys(d)[i]
                 /\ \A j \in 1..(i - 1) : SortKeys(c)[j] = SortKeys(d)[j]
Sorted(s) == SortSeq(s, Precedes)

-----------------------------------------------------------------------------
(* lib_parser: one Liberty file of one corner. *)

\* An ics55 library read with num_vt 1 means three Vts, from there on.
Ics55 == [numVt |-> 3, suffixHVT |-> "H7H", suffixNVT |-> "H7R", suffixLVT |-> "H7L"]

\* Without a Liberty file the model ends here: the code goes on with no cell,
\* and with no corner, -mmmc without a view, indexes empty lists.
StartLibs ==
  /\ pc = "parse" /\ \E c \in DOMAIN FilesOf : FilesOf[c] # <<>>
  /\ pos' = [corner |-> 1, file |-> 1]
  /\ libs' = [c \in DOMAIN FilesOf |-> {}]
  /\ cands' = [c \in DOMAIN FilesOf |-> [k \in Classes |-> <<>>]]
  /\ tables' = [c \in DOMAIN FilesOf |-> <<>>] /\ rowOf' = tables' /\ idOf' = <<>>
  /\ pc' = "libs" /\ UNCHANGED <<file, envFile, n, opt, view>>

\* A cell is a candidate once for each file that has it, but is kept as
\* first read.  Only the first corner's candidates are sorted.
ReadLib ==
  /\ pc = "libs" /\ pos.file <= Len(FilesOf[pos.corner])
  /\ LET f == LibFiles[FilesOf[pos.corner][pos.file]]
         usable == SelectSeq(f.cells, LAMBDA c : ~Contains(Get(opt, "dontUseCell"), c))
         more == [k \in Classes |-> cands[pos.corner][k] \o SelectSeq(usable, LAMBDA c : CellDb[c].class = k)]
     IN /\ opt' = IF NumVt = 1 /\ f.ics55 THEN Set(opt, Ics55) ELSE opt
        /\ libs' = [libs EXCEPT ![pos.corner] = @ \cup ToSet(f.cells)]
        /\ cands' = LET all == [cands EXCEPT ![pos.corner] = more]
                    IN [all EXCEPT ![1] = [k \in Classes |-> Sorted(@[k])]]
  /\ pos' = [pos EXCEPT !.file = @ + 1]
  /\ UNCHANGED <<pc, file, envFile, n, view, tables, rowOf, idOf>>

NextCorner ==
  /\ pc = "libs" /\ pos.file > Len(FilesOf[pos.corner])
  /\ IF pos.corner < Len(FilesOf)
     THEN pos' = [corner |-> pos.corner + 1, file |-> 1] /\ UNCHANGED pc
     ELSE pos' = [corner |-> 1, file |-> 1] /\ pc' = "gates"
  /\ UNCHANGED <<file, envFile, n, opt, view, libs, cands, tables, rowOf, idOf>>

-----------------------------------------------------------------------------
(* generateLibCellTable: a table for each class, in the order in which an  *)
(* unordered_map yields the first cell of it, by corner.                   *)

\* The rows' names, in the order in which the candidates bring them up.
RowNames(s) ==
  FoldLeft(LAMBDA rs, c : IF Contains(rs, RowName(c)) THEN rs ELSE Append(rs, RowName(c)), <<>>, s)

\* createLibCellTable: of two candidates for one slot the later one stays.
Rows(s) ==
  LET names == RowNames(s)
  IN [r \in 0..(Len(names) - 1) |->
        [k \in Columns |->
           LET here == {i \in DOMAIN s : RowName(s[i]) = names[r + 1] /\ ColumnOf(s[i]) = k}
           IN IF here = {} THEN Hole ELSE s[CHOOSE i \in here : \A j \in here : j <= i]]]

RowIndex(s, c) == CHOOSE r \in 0..(Len(s) - 1) : RowNames(s)[r + 1] = RowName(c)

MakeTable ==
  /\ pc = "tables"
  /\ LET made == {tables[pos.corner][i].class : i \in DOMAIN tables[pos.corner]}
     IN \E k \in {CellDb[c].class : c \in libs[pos.corner]} \ made :
          LET s == cands[pos.corner][k]
          IN /\ tables' = [tables EXCEPT ![pos.corner] = Append(@, [class |-> k, rows |-> Rows(s)])]
             /\ rowOf' = [rowOf EXCEPT ![pos.corner] = Set(@, [c \in ToSet(s) |-> RowIndex(s, c)])]
             \* check_map starts afresh for each corner, and the last one is returned
             /\ idOf' = Assign(IF made = {} THEN <<>> ELSE idOf, k, Len(tables[pos.corner]) + 1)
  /\ UNCHANGED <<cmdVars, pos, libs, cands>>

NextTables ==
  /\ pc = "tables"
  /\ Len(tables[pos.corner]) = Cardinality({CellDb[c].class : c \in libs[pos.corner]})
  /\ IF pos.corner < Len(FilesOf) THEN pos' = [pos EXCEPT !.corner = @ + 1] /\ UNCHANGED pc
     ELSE UNCHANGED pos /\ pc' = "cells"
  /\ UNCHANGED <<file, envFile, n, opt, view, libs, cands, tables, rowOf, idOf>>

-----------------------------------------------------------------------------
\* getLibCellInfo of a slot.
Lookup(slot) ==
  LET t == tables[1][slot.id].rows
  IN IF slot.row \in DOMAIN t /\ slot.col \in DOMAIN t[slot.row] THEN t[slot.row][slot.col] ELSE Hole

\* assignLibCellTables, for an instance of cell c with the Vt that the design
\* reader saw; a cell in no table keeps row 0.
SlotOf(c, vt) ==
  [id |-> idOf[CellDb[c].class], row |-> IF c \in DOMAIN rowOf[1] THEN rowOf[1][c] ELSE 0, col |-> vt]

LibNext == StartLibs \/ ReadLib \/ NextCorner \/ MakeTable \/ NextTables

-----------------------------------------------------------------------------
(* The suffixes tell the Vts of the cells read apart.                      *)
Distinct ==
  /\ NumVt # 1 => \A j, k \in Columns : Suffix(k) # "" /\ (Suffix(j) = Suffix(k) => j = k)
  /\ \A c, d \in libs[1] : c[1] = d[1] /\ ColumnOf(c) = ColumnOf(d) /\ RowName(c) = RowName(d) => c = d

(* In the tables of the first corner a row has the Vt variants of one      *)
(* stem, each in its column and none in another row, and a row is weaker   *)
(* than the next one: the candidate that opened it precedes the next       *)
(* row's.  A cell of the libraries is in one of the tables, unless it is   *)
(* on the list of cells not to use.                                        *)
RowsOrdered ==
  pc = "cells" /\ Distinct =>
    \A i \in DOMAIN tables[1] :
      LET t == tables[1][i].rows
          In(r) == {t[r][k] : k \in Columns} \ {Hole}
      IN /\ \A r \in DOMAIN t : \A c, d \in In(r) : NumVt # 1 => c[1] = d[1]
         /\ \A r \in DOMAIN t : \A k \in Columns : t[r][k] # Hole => ColumnOf(t[r][k]) = k
         /\ \A q, r \in DOMAIN t : q < r => \E c \in In(q) : \A d \in In(r) : ~Precedes(d, c)
         /\ NumVt # 1 => \A q, r \in DOMAIN t : \A c \in In(q), d \in In(r) :
              c[1] = d[1] /\ Has(c, ColumnOf(c)) /\ Has(d, ColumnOf(d)) => q = r
         /\ UNION {In(r) : r \in DOMAIN t} = {c \in libs[1] : CellDb[c].class = tables[1][i].class
                                                 /\ ~Contains(Get(opt, "dontUseCell"), c)}
=============================================================================
