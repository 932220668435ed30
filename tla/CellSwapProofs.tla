--------------------------- MODULE CellSwapProofs ---------------------------
(***************************************************************************)
(* Proofs about CellSwap for every set of cells, every library table and   *)
(* every option setting.                                                   *)
(***************************************************************************)
EXTENDS CellSwap, WellFoundedInduction, TLAPS

-----------------------------------------------------------------------------
(* Facts about the lookups and the moves.                                  *)

(* A lookup answers a library cell or the null pointer, and it answers a   *)
(* library cell only inside the table.                                     *)
LEMMA SlotType ==
  ASSUME NEW c \in Cells, NEW s, NEW v
  PROVE  /\ Slot(c, s, v) \in LibCells \cup {NoLib}
         /\ Slot(c, s, v) # NoLib => /\ Slot(c, s, v) \in LibCells
                                     /\ s \in 0 .. Rows[c] - 1 /\ s \in Nat
                                     /\ v \in Vts /\ v \in Nat
                                     /\ c \notin Unmapped
  BY TableAssumption DEF Slot, Vts

LEMMA LibOfType ==
  ASSUME NEW c \in Cells, NEW k \in CELL
  PROVE  LibOf(c, k) \in LibCells \cup {NoLib}
  BY SlotType, TableAssumption DEF LibOf

LEMMA PutType ==
  ASSUME NEW k \in CELL, NEW s \in Nat, NEW v \in Nat, NEW lib \in LibCells
  PROVE  /\ Put(k, s, v, lib) \in CELL
         /\ Put(k, s, v, lib) # k
  <1>1. k.chg \in Int /\ k.dt \in BOOLEAN /\ k.chg + 1 # k.chg
    BY DEF CELL
  <1> QED BY <1>1 DEF CELL, Put, Cell

(* A move answers a CELL, and its name is then a library cell's.           *)
LEMMA MovedType ==
  ASSUME NEW c \in Cells, NEW k \in CELL, NEW kind \in MoveKind, NEW step \in Int
  PROVE  Moved(c, k, kind, step) \in CELL
  <1>1. Resized(c, k, step) \in CELL
    <2> DEFINE s == ClampRow(c, k.size + step)
    <2>1. Slot(c, s, k.vt) # NoLib =>
             s \in Nat /\ k.vt \in Nat /\ Slot(c, s, k.vt) \in LibCells
      BY SlotType
    <2> HIDE DEF s
    <2>2. CASE Slot(c, s, k.vt) = NoLib
      BY <2>2, Zenon DEF Resized, s
    <2>3. CASE Slot(c, s, k.vt) # NoLib
      <3>1. Put(k, s, k.vt, Slot(c, s, k.vt)) \in CELL
        BY <2>1, <2>3, PutType
      <3>2. Resized(c, k, step) \in {k, Put(k, s, k.vt, Slot(c, s, k.vt))}
        BY Zenon DEF Resized, s
      <3> QED BY <3>1, <3>2
    <2> QED BY <2>2, <2>3
  <1>2. Retyped(c, k, step) \in CELL
    <2>1. Slot(c, k.size, k.vt + step) # NoLib =>
             k.size \in Nat /\ k.vt + step \in Nat /\ Slot(c, k.size, k.vt + step) \in LibCells
      BY SlotType
    <2>2. CASE Slot(c, k.size, k.vt + step) = NoLib
      BY <2>2 DEF Retyped
    <2>3. CASE Slot(c, k.size, k.vt + step) # NoLib
      <3>1. Put(k, k.size, k.vt + step, Slot(c, k.size, k.vt + step)) \in CELL
        BY <2>1, <2>3, PutType
      <3>2. Retyped(c, k, step)
              \in {k, Put(k, k.size, k.vt + step, Slot(c, k.size, k.vt + step))}
        BY Zenon DEF Retyped
      <3> QED BY <3>1, <3>2
    <2> QED BY <2>2, <2>3
  <1> QED BY <1>1, <1>2 DEF Moved

(* The row -minimum chooses exists: a nonempty set of columns has a least  *)
(* one.                                                                    *)
LEMMA LeastColumn ==
  ASSUME NEW S, S \subseteq Vts, S # {}
  PROVE  (CHOOSE v \in S : \A w \in S : v <= w) \in S
  <1> DEFINE R == OpToRel(<, Nat)
  <1>1. PICK v \in S : \A w \in S : ~(<<w, v>> \in R)
    <2>1. S \subseteq Nat
      BY TableAssumption DEF Vts
    <2> QED BY <2>1, NatLessThanWellFounded, WFMin
  <1>2. \A w \in S : v <= w
    <2> TAKE w \in S
    <2>1. w \in Nat /\ v \in Nat
      BY TableAssumption DEF Vts
    <2>2. w < v => <<w, v>> \in R
      BY <2>1, Zenon DEF OpToRel
    <2>3. ~(w < v)
      BY <1>1, <2>2, Zenon
    <2> QED BY <2>1, <2>3, SMT
  <1> QED BY <1>2

(* Synchronising a snapshot answers a snapshot and a master per instance.  *)
LEMMA SyncedType ==
  ASSUME NEW cs \in Snapshot, NEW d \in [Cells -> Masters \cap LibCells]
  PROVE  /\ Synced(cs, d) \in Snapshot
         /\ SyncedDb(cs, d) \in [Cells -> Masters \cap LibCells]
  <1>1. ASSUME NEW c \in Cells PROVE SyncedCell(c, cs[c], d[c]) \in CELL
    <2>1. cs[c] \in CELL /\ d[c] \in LibCells
      BY DEF Snapshot
    <2> QED BY <2>1 DEF SyncedCell, Cell, CELL
  <1>2. ASSUME NEW c \in Cells
        PROVE  SyncedMaster(c, cs[c], d[c]) \in Masters \cap LibCells
    <2>1. cs[c] \in CELL
      BY DEF Snapshot
    <2> QED BY <2>1 DEF SyncedMaster, CELL
  <1> QED BY <1>1, <1>2 DEF Synced, SyncedDb, Snapshot

LEMMA SizeOutType ==
  ASSUME NEW cs \in Snapshot
  PROVE  SizeOut(cs) \in [Cells -> LibCells \cup {NoLib}]
  BY LibOfType DEF SizeOut, Snapshot

LEMMA CapsFromType ==
  ASSUME NEW cs \in Snapshot, caps \in [Cells -> LibCells]
  PROVE  CapsFrom(cs) \in [Cells -> LibCells]
  BY LibOfType DEF CapsFrom, Snapshot

LEMMA CapsAfterType ==
  ASSUME NEW c \in Cells, NEW old, NEW k \in CELL, caps \in [Cells -> LibCells]
  PROVE  CapsAfter(c, old, k) \in LibCells
  BY DEF CapsAfter, CELL

-----------------------------------------------------------------------------
(* Type correctness.                                                       *)

LEMMA InitTypeOK == Init => TypeOK
  <1> SUFFICES ASSUME Init PROVE TypeOK
    OBVIOUS
  <1>1. cells \in Snapshot
    BY StartAssumption DEF Init, Snapshot, CELL, Cell
  <1>2. caps \in [Cells -> LibCells] /\ db \in [Cells -> Masters \cap LibCells]
    BY StartAssumption DEF Init
  <1>3. 0 \in 0 .. Rounds
    BY BoundAssumption
  <1> QED BY <1>1, <1>2, <1>3 DEF Init, TypeOK

LEMMA NextTypeOK == TypeOK /\ [Next]_vars => TypeOK'
  <1> SUFFICES ASSUME TypeOK, [Next]_vars PROVE TypeOK'
    OBVIOUS
  <1>1. CASE ResetMinimum
    <2>1. ASSUME NEW c \in Cells PROVE Smallest(c, cells[c]) \in CELL
      <3> DEFINE found == {v \in Vts : Slot(c, 0, v) # NoLib}
                 first == CHOOSE v \in found : \A w \in found : v <= w
      <3>0. cells[c] \in CELL
        BY DEF TypeOK, Snapshot
      <3>1. CASE found = {} \/ cells[c].dt
        BY <3>0, <3>1, Zenon DEF Smallest
      <3>2. CASE found # {} /\ ~cells[c].dt
        <4>1. first \in found
          BY <3>2, LeastColumn
        <4>2. first \in Nat /\ Slot(c, 0, first) \in LibCells
          BY <4>1, SlotType
        <4>3. Smallest(c, cells[c]) = Cell(0, first, Slot(c, 0, first), 1, cells[c].dt)
          BY <3>2, Zenon DEF Smallest
        <4> HIDE DEF found, first
        <4> QED BY <3>0, <4>2, <4>3 DEF Cell, CELL
      <3> QED BY <3>1, <3>2
    <2>2. cells' \in Snapshot /\ caps' \in [Cells -> LibCells]
      <3>1. CASE opts.minimum
        BY <1>1, <2>1, <3>1 DEF ResetMinimum, Snapshot, CELL
      <3>2. CASE ~opts.minimum
        BY <1>1, <3>2 DEF ResetMinimum, TypeOK
      <3> QED BY <3>1, <3>2
    <2> QED BY <1>1, <2>2 DEF ResetMinimum, TypeOK
  <1>2. ASSUME NEW c \in Cells, NEW type \in Footprint(c), SizeInit(c, type)
        PROVE  TypeOK'
    <2>1. type \in LibCells
      BY <1>2, SlotType DEF Footprint
    <2>2. cells[c] \in CELL
      BY DEF TypeOK, Snapshot
    <2>3. Cell(cells[c].size, cells[c].vt, type, cells[c].chg + 1, cells[c].dt) \in CELL
      BY <2>1, <2>2 DEF Cell, CELL
    <2>4. cells' \in Snapshot
      BY <1>2, <2>3 DEF SizeInit, TypeOK, Snapshot
    <2> QED BY <1>2, <2>4 DEF SizeInit, TypeOK
  <1>3. CASE Launch
    <2> DEFINE sync  == opts.minimum \/ opts.gtrIn
               after == IF sync THEN Synced(cells, db) ELSE cells
    <2>1. after \in Snapshot /\ SyncedDb(cells, db) \in [Cells -> Masters \cap LibCells]
      BY SyncedType DEF TypeOK
    <2>2. cells' = [c \in Cells |-> [after[c] EXCEPT !.chg = 0]]
      BY <1>3 DEF Launch
    <2> HIDE DEF after
    <2>3. cells' \in Snapshot
      BY <2>1, <2>2 DEF Snapshot, CELL
    <2> QED BY <1>3, <2>1, <2>3 DEF Launch, TypeOK
  <1>4. CASE StartSearch
    <2>1. Synced(best, db) \in Snapshot
          /\ SyncedDb(best, db) \in [Cells -> Masters \cap LibCells]
      BY SyncedType DEF TypeOK
    <2>2. SizeOut(Synced(best, db)) \in [Cells -> LibCells \cup {NoLib}]
      BY <2>1, SizeOutType
    <2>3. CapsFrom(best) \in [Cells -> LibCells]
      BY CapsFromType DEF TypeOK
    <2>4. round' \in 0 .. Rounds
      BY <1>4, BoundAssumption DEF StartSearch, TypeOK
    <2> QED BY <1>4, <2>1, <2>2, <2>3, <2>4 DEF StartSearch, TypeOK
  <1>5. CASE Correlate
    BY <1>5, SyncedType DEF Correlate, TypeOK, Searching
  <1>6. ASSUME NEW c \in Cells, NEW kind \in MoveKind, NEW step \in Steps,
               Repair(c, kind, step)
        PROVE  TypeOK'
    <2>1. cells[c] \in CELL /\ step \in Int
      BY BoundAssumption DEF TypeOK, Snapshot, Steps
    <2>2. Moved(c, cells[c], kind, step) \in CELL
      BY <2>1, MovedType
    <2>3. CapsAfter(c, cells[c], Moved(c, cells[c], kind, step)) \in LibCells
      BY <2>2, CapsAfterType DEF TypeOK
    <2> QED BY <1>6, <2>2, <2>3 DEF Repair, TypeOK, Snapshot
  <1>7. ASSUME NEW c \in Cells, NEW kind \in MoveKind, NEW step \in Steps,
               TryMove(c, kind, step)
        PROVE  TypeOK'
    <2>1. cells[c] \in CELL /\ step \in Int
      BY BoundAssumption DEF TypeOK, Snapshot, Steps
    <2>2. Moved(c, cells[c], kind, step) \in CELL
      BY <2>1, MovedType
    <2>3. CapsAfter(c, cells[c], Moved(c, cells[c], kind, step)) \in LibCells
      BY <2>2, CapsAfterType DEF TypeOK
    <2>4. caps[c] \in LibCells
      BY DEF TypeOK
    <2>5. cells' \in Snapshot /\ caps' \in [Cells -> LibCells]
      BY <1>7, <2>2, <2>3 DEF TryMove, TypeOK, Snapshot
    <2> QED BY <1>7, <2>1, <2>4, <2>5 DEF TryMove, TypeOK
  <1>8. CASE AcceptTrial
    BY <1>8 DEF AcceptTrial, TypeOK
  <1>9. CASE RestoreTrial
    <2> DEFINE c == trial.cell
               k == Moved(c, cells[c], trial.kind, -trial.step)
    <2>1. c \in Cells /\ cells[c] \in CELL /\ trial.kind \in MoveKind
      BY <1>9 DEF RestoreTrial, TypeOK, Snapshot
    <2>2. -trial.step \in Int
      BY <1>9, BoundAssumption DEF RestoreTrial, TypeOK, Steps
    <2>3. k \in CELL
      BY <2>1, <2>2, MovedType
    <2>4. CapsAfter(c, cells[c], k) \in LibCells
      BY <2>1, <2>3, CapsAfterType DEF TypeOK
    <2>5. [k EXCEPT !.chg = @ - 2] \in CELL
      BY <2>3 DEF CELL
    <2> HIDE DEF k
    <2>6. cells' \in Snapshot /\ caps' \in [Cells -> LibCells]
      BY <1>9, <2>1, <2>4, <2>5 DEF RestoreTrial, TypeOK, Snapshot, k
    <2> QED BY <1>9, <2>6 DEF RestoreTrial, TypeOK
  <1>10. ASSUME NEW P \in SUBSET Cells, InitWNSPath(P) PROVE TypeOK'
    <2> DEFINE reset == [c \in Cells |->
                           IF c \in P THEN [Initialised(c, cells[c]) EXCEPT
                                              !.dt = @ \/ opts.critNoTouch]
                           ELSE cells[c]]
    <2>1. reset \in Snapshot
      <3>1. ASSUME NEW c \in Cells PROVE Initialised(c, cells[c]) \in CELL
        <4>1. cells[c] \in CELL
          BY DEF TypeOK, Snapshot
        <4> QED BY <4>1, StartAssumption DEF Initialised, Cell, CELL
      <3>2. opts.critNoTouch \in BOOLEAN
        BY ConfigAssumption DEF TypeOK, Options
      <3>3. ASSUME NEW c \in Cells
            PROVE  [Initialised(c, cells[c]) EXCEPT !.dt = @ \/ opts.critNoTouch] \in CELL
        BY <3>1, <3>2 DEF CELL
      <3> QED BY <3>3 DEF TypeOK, Snapshot
    <2>2. Synced(reset, db) \in Snapshot
          /\ SyncedDb(reset, db) \in [Cells -> Masters \cap LibCells]
      BY <2>1, SyncedType DEF TypeOK
    <2>3. cells' \in {reset, Synced(reset, db)} /\ db' \in {db, SyncedDb(reset, db)}
      BY <1>10, Zenon DEF InitWNSPath
    <2> HIDE DEF reset
    <2>4. cells' \in Snapshot /\ db' \in [Cells -> Masters \cap LibCells]
      BY <2>1, <2>2, <2>3 DEF TypeOK
    <2> QED BY <1>10, <2>4 DEF InitWNSPath, TypeOK
  <1>11. CASE SaveBest
    BY <1>11, SizeOutType DEF SaveBest, TypeOK
  <1>12. CASE EndSearch
    <2>1. SizeOut(cells) \in [Cells -> LibCells \cup {NoLib}]
      BY SizeOutType DEF TypeOK
    <2>2. best' \in Snapshot /\ sizeFile' \in [Cells -> LibCells \cup {NoLib}]
      BY <1>12, <2>1 DEF EndSearch, TypeOK
    <2> QED BY <1>12, <2>2 DEF EndSearch, TypeOK
  <1>13. CASE WriteSizes
    BY <1>13, SizeOutType DEF WriteSizes, TypeOK
  <1>14. ASSUME NEW spef \in BOOLEAN, FinalReport(spef) PROVE TypeOK'
    <2> DEFINE swapped == [c \in Cells |-> Reported(c, db[c])]
    <2>1. best' \in Snapshot
      <3>1. ASSUME NEW c \in Cells PROVE Marked(c) \in CELL
        <4>1. best[c] \in CELL
          BY DEF TypeOK, Snapshot
        <4> QED BY <4>1 DEF Marked, CELL
      <3> QED BY <1>14, <3>1 DEF FinalReport, Snapshot
    <2>2. swapped \in [Cells -> Masters \cap LibCells]
      BY DEF Reported, TypeOK, Snapshot, CELL
    <2> HIDE DEF swapped
    <2>3. CASE spef
      BY <1>14, <2>1, <2>2, <2>3 DEF FinalReport, TypeOK, swapped
    <2>4. CASE ~spef
      <3>1. Synced(best', swapped) \in Snapshot
            /\ SyncedDb(best', swapped) \in [Cells -> Masters \cap LibCells]
        BY <2>1, <2>2, SyncedType
      <3>2. cells' = Synced(best', swapped) /\ db' = SyncedDb(best', swapped)
            /\ caps' = CapsFrom(cells')
        BY <1>14, <2>4, Zenon DEF FinalReport, swapped
      <3>3. caps' \in [Cells -> LibCells]
        BY <3>1, <3>2, CapsFromType DEF TypeOK
      <3> QED BY <1>14, <2>1, <3>1, <3>2, <3>3 DEF FinalReport, TypeOK
    <2> QED BY <2>3, <2>4
  <1>15. CASE UNCHANGED vars
    BY <1>15 DEF vars, TypeOK
  <1> QED
    BY <1>1, <1>2, <1>3, <1>4, <1>5, <1>6, <1>7, <1>8, <1>9, <1>10, <1>11,
       <1>12, <1>13, <1>14, <1>15 DEF Next

(* In every behaviour every variable keeps its type: in particular a name  *)
(* in the database always has a master and a row or column is never        *)
(* negative, although isChanged is decremented and cell_resize subtracts.  *)
THEOREM TypeCorrect == Spec => []TypeOK
  <1>1. Init => TypeOK
    BY InitTypeOK
  <1>2. TypeOK /\ [Next]_vars => TypeOK'
    BY NextTypeOK
  <1> QED BY <1>1, <1>2, PTL DEF Spec

-----------------------------------------------------------------------------
(* A move and its inverse.                                                 *)

(* What a successful move writes, and where it can end.                    *)
LEMMA ResizedWrites ==
  ASSUME opts \in Options, NEW c \in Cells, NEW k \in CELL, NEW step \in Int,
         Resized(c, k, step) # k
  PROVE  LET s == ClampRow(c, k.size + step)
         IN  /\ ~opts.vtOnly /\ LibOf(c, k) # NoLib
             /\ step > 0 => k.size # Rows[c] - 1
             /\ step < 0 => k.size # 0
             /\ Slot(c, s, k.vt) # NoLib
             /\ Resized(c, k, step) = Put(k, s, k.vt, Slot(c, s, k.vt))
  <1>1. opts.vtOnly \in BOOLEAN
    BY DEF Options
  <1> QED BY <1>1 DEF Resized

LEMMA RetypedWrites ==
  ASSUME opts \in Options, NEW c \in Cells, NEW k \in CELL, NEW dir \in Int,
         Retyped(c, k, dir) # k
  PROVE  /\ ~opts.sizeOnly /\ LibOf(c, k) # NoLib
         /\ Slot(c, k.size, k.vt + dir) # NoLib
         /\ Retyped(c, k, dir) = Put(k, k.size, k.vt + dir, Slot(c, k.size, k.vt + dir))
  <1>1. opts.sizeOnly \in BOOLEAN
    BY DEF Options
  <1> QED BY <1>1 DEF Retyped

(* A cell the tables know sits inside its table.                           *)
LEMMA KnownInTable ==
  ASSUME NEW c \in Cells, NEW k \in CELL, LibOf(c, k) # NoLib
  PROVE  /\ c \notin Unclocked /\ LibOf(c, k) = Slot(c, k.size, k.vt)
         /\ LibOf(c, k) \in LibCells
         /\ k.size \in 0 .. Rows[c] - 1 /\ k.vt \in Vts /\ Rows[c] \in Nat
  BY SlotType, TableAssumption DEF LibOf

(* When a trial may be made: isSizable/isSwappable held, or the step is    *)
(* one.  Only then is the row reached without clamping.                    *)
Reaches(c, k, kind, step) ==
  \/ step \in {-1, 1}
  \/ IF kind = "size" THEN k.size + step \in 0 .. Rows[c] - 1 ELSE k.vt + step \in Vts

(* The inverse of a successful trial move always succeeds and gives the    *)
(* row and column back; isChanged grew by two; the name is the slot's.     *)
LEMMA MoveInverse ==
  ASSUME opts \in Options, NEW c \in Cells, NEW k \in CELL, NEW kind \in MoveKind,
         NEW step \in Int, Reaches(c, k, kind, step),
         Moved(c, k, kind, step) # k
  PROVE  Moved(c, Moved(c, k, kind, step), kind, -step)
           = Cell(k.size, k.vt, LibOf(c, k), k.chg + 2, k.dt)
  <1> DEFINE m == Moved(c, k, kind, step)
  <1>0. m \in CELL /\ k.chg \in Int /\ k.size \in Nat /\ k.vt \in Nat
    BY MovedType DEF CELL
  <1>1. CASE kind = "size"
    <2> DEFINE s == ClampRow(c, k.size + step)
    <2>1. m = Resized(c, k, step)
      BY <1>1 DEF Moved
    <2>2. /\ ~opts.vtOnly /\ LibOf(c, k) # NoLib
          /\ step > 0 => k.size # Rows[c] - 1
          /\ step < 0 => k.size # 0
          /\ Slot(c, s, k.vt) # NoLib
          /\ m = Put(k, s, k.vt, Slot(c, s, k.vt))
      BY <2>1, ResizedWrites
    <2>3. /\ c \notin Unclocked /\ LibOf(c, k) = Slot(c, k.size, k.vt)
          /\ k.size \in 0 .. Rows[c] - 1 /\ Rows[c] \in Nat
      BY <2>2, KnownInTable
    <2>4. s = k.size + step /\ s \in 0 .. Rows[c] - 1
      BY <1>0, <1>1, <2>2, <2>3 DEF Reaches, ClampRow
    <2>5. m.size = s /\ m.vt = k.vt /\ m.chg = k.chg + 1 /\ m.dt = k.dt
      BY <2>2 DEF Put, Cell
    <2>6. LibOf(c, m) # NoLib
      BY <2>2, <2>3, <2>5 DEF LibOf
    <2>7. ClampRow(c, m.size + (-step)) = k.size
      BY <1>0, <2>3, <2>4, <2>5 DEF ClampRow
    <2> HIDE DEF m, s
    <2>8. Resized(c, m, -step) = Put(m, k.size, m.vt, Slot(c, k.size, m.vt))
      <3>1. ~(-step > 0 /\ m.size = Rows[c] - 1) /\ ~(-step < 0 /\ m.size = 0)
            /\ k.size # m.size
        <4>1. step # 0
          <5>1. m # k
            BY DEF m
          <5>2. CASE step = 0
            BY <2>1, <2>3, <2>4, <5>1, <5>2, <1>0 DEF Resized, s
          <5> QED BY <5>2
        <4> QED BY <1>0, <2>3, <2>4, <2>5, <4>1
      <3>2. Slot(c, k.size, m.vt) # NoLib
        BY <2>2, <2>3, <2>5
      <3>3. opts.vtOnly \in BOOLEAN
        BY DEF Options
      <3> QED BY <2>2, <2>6, <2>7, <3>1, <3>2, <3>3 DEF Resized
    <2>9. Moved(c, m, kind, -step) = Put(m, k.size, m.vt, Slot(c, k.size, m.vt))
      BY <1>1, <2>8 DEF Moved
    <2> QED BY <1>0, <2>3, <2>5, <2>9 DEF Put, m
  <1>2. CASE kind = "vt"
    <2>1. m = Retyped(c, k, step)
      BY <1>2 DEF Moved
    <2>2. /\ ~opts.sizeOnly /\ LibOf(c, k) # NoLib
          /\ Slot(c, k.size, k.vt + step) # NoLib
          /\ m = Put(k, k.size, k.vt + step, Slot(c, k.size, k.vt + step))
      BY <2>1, RetypedWrites
    <2>3. c \notin Unclocked /\ LibOf(c, k) = Slot(c, k.size, k.vt)
      BY <2>2, KnownInTable
    <2>4. m.size = k.size /\ m.vt = k.vt + step /\ m.chg = k.chg + 1 /\ m.dt = k.dt
      BY <2>2 DEF Put, Cell
    <2>5. LibOf(c, m) # NoLib
      BY <2>2, <2>3, <2>4 DEF LibOf
    <2>6. m.vt + (-step) = k.vt
      BY <1>0, <2>4
    <2> HIDE DEF m
    <2>7. Retyped(c, m, -step) = Put(m, k.size, k.vt, LibOf(c, k))
      <3>1. opts.sizeOnly \in BOOLEAN
        BY DEF Options
      <3> QED BY <2>2, <2>3, <2>4, <2>5, <2>6, <3>1 DEF Retyped
    <2> QED BY <1>0, <1>2, <2>4, <2>7 DEF Moved, Put, m
  <1> QED BY <1>1, <1>2 DEF MoveKind

(* What every successful move leaves: the mark is one higher and the name  *)
(* is that of the new slot.                                                *)
LEMMA MovedFacts ==
  ASSUME opts \in Options, NEW c \in Cells, NEW k \in CELL, NEW kind \in MoveKind,
         NEW step \in Int, Moved(c, k, kind, step) # k
  PROVE  LET m == Moved(c, k, kind, step)
         IN  m.chg = k.chg + 1 /\ m.dt = k.dt /\ LibOf(c, m) = m.type /\ LibOf(c, k) # NoLib
  <1>1. CASE kind = "size"
    <2> DEFINE s == ClampRow(c, k.size + step)
    <2>1. Resized(c, k, step) # k /\ Moved(c, k, kind, step) = Resized(c, k, step)
      BY <1>1 DEF Moved
    <2>2. LibOf(c, k) # NoLib /\ Resized(c, k, step) = Put(k, s, k.vt, Slot(c, s, k.vt))
      BY <2>1, ResizedWrites
    <2>3. c \notin Unclocked
      BY <2>2, KnownInTable
    <2> HIDE DEF s
    <2> QED BY <2>1, <2>2, <2>3 DEF Put, Cell, LibOf
  <1>2. CASE kind = "vt"
    <2>1. Retyped(c, k, step) # k /\ Moved(c, k, kind, step) = Retyped(c, k, step)
      BY <1>2 DEF Moved
    <2>2. /\ LibOf(c, k) # NoLib
          /\ Retyped(c, k, step) = Put(k, k.size, k.vt + step, Slot(c, k.size, k.vt + step))
      BY <2>1, RetypedWrites
    <2>3. c \notin Unclocked
      BY <2>2, KnownInTable
    <2> QED BY <2>1, <2>2, <2>3 DEF Put, Cell, LibOf
  <1> QED BY <1>1, <1>2 DEF MoveKind

-----------------------------------------------------------------------------
(* The inductive invariant behind SyncInv and RestoreExact.                *)

(* The name is the slot's, unless the database has no master for the slot  *)
(* (then a synchronisation may have replaced it); marks count upwards.     *)
Sound(c, k) ==
  /\ LibOf(c, k) # NoLib => (k.type = LibOf(c, k) \/ LibOf(c, k) \notin Masters)
  /\ k.chg >= 0

(* A cell UpdatePTSizes would skip only for want of a mark is in step with *)
(* its instance's master d.                                                *)
Agreed(c, k, d) ==
  (LibOf(c, k) # NoLib /\ ~k.dt /\ k.chg = 0 /\ k.type \in Masters) => d = k.type

(* An open trial holds the cell it replaced, a cell that could be moved    *)
(* without clamping, and the current cell is exactly that cell moved.      *)
TrialInv ==
  trial # NoTrial =>
    LET c == trial.cell
        o == trial.org
    IN  /\ phase = "search"
        /\ LibOf(c, o) # NoLib
        /\ Reaches(c, o, trial.kind, trial.step)
        /\ cells[c] = Moved(c, o, trial.kind, trial.step)
        /\ trial.moved <=> cells[c] # o

MarkInv ==
  ~opts.gtrIn =>
    /\ \A c \in Cells : Sound(c, cells[c]) /\ Sound(c, best[c]) /\ Sound(c, bestLocal[c])
    /\ phase \in {"load", "created"} =>
         /\ round = 0
         /\ \A c \in Cells : LibOf(c, cells[c]) # NoLib /\ ~cells[c].dt =>
              /\ cells[c].chg = 1
              /\ (phase = "load" \/ ~opts.minimum) => db[c] = cells[c].type
    /\ phase = "ready" /\ round = 0 => \A c \in Cells : Agreed(c, best[c], db[c])
    /\ phase = "search" => round # 0
    /\ phase = "search" /\ round = 1 => \A c \in Cells : Agreed(c, cells[c], db[c])
    /\ trial # NoTrial =>
         /\ Sound(trial.cell, trial.org)
         /\ round = 1 => Agreed(trial.cell, trial.org, db[trial.cell])

IInv == TypeOK /\ TrialInv /\ MarkInv

(* Synchronising keeps a sound cell sound and makes it agree.              *)
LEMMA SyncedSound ==
  ASSUME NEW c \in Cells, NEW k \in CELL, NEW d \in Masters \cap LibCells, Sound(c, k)
  PROVE  /\ Sound(c, SyncedCell(c, k, d))
         /\ Agreed(c, k, d) => Agreed(c, SyncedCell(c, k, d), SyncedMaster(c, k, d))
  <1> DEFINE n == SyncedCell(c, k, d)
  <1>1. CASE Dirty(c, k)
    <2>1. n = Cell(k.size, k.vt, IF k.type \in Masters THEN k.type ELSE d, 0, k.dt)
      BY <1>1, Zenon DEF SyncedCell
    <2>2. n.size = k.size /\ n.vt = k.vt /\ n.chg = 0
          /\ n.type = IF k.type \in Masters THEN k.type ELSE d
      BY <2>1 DEF Cell
    <2>3. LibOf(c, n) = LibOf(c, k)
      BY <2>2 DEF LibOf
    <2>4. SyncedMaster(c, k, d) = n.type
      BY <1>1, <2>2 DEF SyncedMaster
    <2> HIDE DEF n
    <2> QED BY <2>2, <2>3, <2>4 DEF Sound, Agreed, n
  <1>2. CASE ~Dirty(c, k)
    BY <1>2 DEF SyncedCell, SyncedMaster
  <1> QED BY <1>1, <1>2

LEMMA InitIInv == Init => IInv
  <1> SUFFICES ASSUME Init PROVE IInv
    OBVIOUS
  <1>1. TypeOK
    BY InitTypeOK
  <1>2. ASSUME NEW c \in Cells
        PROVE  /\ Sound(c, cells[c])
               /\ LibOf(c, cells[c]) # NoLib => cells[c].chg = 1 /\ db[c] = cells[c].type
    <2>1. /\ cells[c].size = Start[c].size /\ cells[c].vt = Start[c].vt
          /\ cells[c].type = Start[c].type
          /\ cells[c].chg = IF c \in Unmapped THEN 0 ELSE 1
      BY DEF Init, Cell
    <2>2. db[c] = Start[c].type
      BY DEF Init
    <2>3. LibOf(c, cells[c]) \in {NoLib, Start[c].type}
      BY <2>1, StartAssumption DEF LibOf
    <2>4. LibOf(c, cells[c]) # NoLib => c \notin Unmapped
      BY DEF LibOf, Slot
    <2> QED BY <2>1, <2>2, <2>3, <2>4 DEF Sound
  <1>3. TrialInv
    BY DEF Init, TrialInv
  <1>4. MarkInv
    BY <1>2 DEF Init, MarkInv
  <1> QED BY <1>1, <1>3, <1>4 DEF IInv

(* Outside the search no trial is open, and only TryMove opens one.        *)
LEMMA NoTrialOpen ==
  ASSUME TrialInv, trial' = trial, phase # "search" \/ trial = NoTrial
  PROVE  trial = NoTrial /\ TrialInv'
  BY DEF TrialInv

LEMMA NextIInv == IInv /\ [Next]_vars => IInv'
  <1> SUFFICES ASSUME IInv, [Next]_vars PROVE IInv'
    OBVIOUS
  <1> USE DEF IInv
  <1>0. TypeOK' /\ opts' = opts /\ opts \in Options
    <2>1. TypeOK'
      BY NextTypeOK
    <2>2. opts' = opts
      BY DEF Next, vars, ResetMinimum, SizeInit, Launch, StartSearch, Correlate, Repair,
             TryMove, AcceptTrial, RestoreTrial, InitWNSPath, SaveBest, EndSearch,
             WriteSizes, FinalReport
    <2> QED BY <2>1, <2>2, ConfigAssumption DEF TypeOK
  <1>a. ASSUME NEW c \in Cells
        PROVE  cells[c] \in CELL /\ best[c] \in CELL /\ db[c] \in Masters \cap LibCells
    BY DEF TypeOK, Snapshot
  <1>1. CASE ResetMinimum
    <2>1. trial = NoTrial /\ TrialInv'
      BY <1>1, NoTrialOpen DEF ResetMinimum
    <2>2. ASSUME ~opts.gtrIn PROVE MarkInv'
      <3>1. ASSUME NEW c \in Cells
            PROVE  /\ Sound(c, cells'[c])
                   /\ LibOf(c, cells'[c]) # NoLib /\ ~cells'[c].dt =>
                        /\ cells'[c].chg = 1
                        /\ ~opts.minimum => db[c] = cells'[c].type
        <4>1. CASE ~opts.minimum
          BY <1>1, <2>2, <4>1 DEF ResetMinimum, MarkInv
        <4>2. CASE opts.minimum
          <5> DEFINE found == {v \in Vts : Slot(c, 0, v) # NoLib}
                     first == CHOOSE v \in found : \A w \in found : v <= w
          <5>1. cells'[c] = Smallest(c, cells[c])
            BY <1>1, <4>2 DEF ResetMinimum
          <5>2. CASE found = {} \/ cells[c].dt
            <6>1. cells'[c] = cells[c]
              BY <5>1, <5>2, Zenon DEF Smallest
            <6> QED BY <1>1, <2>2, <4>2, <6>1 DEF ResetMinimum, MarkInv
          <5>3. CASE found # {} /\ ~cells[c].dt
            <6>1. cells'[c] = Cell(0, first, Slot(c, 0, first), 1, cells[c].dt)
              BY <5>1, <5>3, Zenon DEF Smallest
            <6> HIDE DEF first
            <6> QED BY <4>2, <6>1 DEF Cell, Sound, LibOf
          <5> QED BY <5>2, <5>3
        <4> QED BY <4>1, <4>2, <1>0 DEF Options
      <3> QED BY <1>0, <1>1, <2>1, <2>2, <3>1 DEF ResetMinimum, MarkInv
    <2> QED BY <1>0, <2>1, <2>2 DEF MarkInv
  <1>2. ASSUME NEW c \in Cells, NEW type \in Footprint(c), SizeInit(c, type)
        PROVE  IInv'
    <2>1. TrialInv'
      BY <1>2, NoTrialOpen DEF SizeInit
    <2> QED BY <1>0, <1>2, <2>1 DEF SizeInit, MarkInv
  <1>3. CASE Launch
    <2>1. trial = NoTrial /\ TrialInv'
      BY <1>3, NoTrialOpen DEF Launch
    <2>2. ASSUME ~opts.gtrIn PROVE MarkInv'
      <3>1. ASSUME NEW c \in Cells
            PROVE  Sound(c, cells'[c]) /\ Agreed(c, cells'[c], db'[c])
        <4> DEFINE k == cells[c]
                   n == IF opts.minimum THEN SyncedCell(c, k, db[c]) ELSE k
        <4>1. Sound(c, k) /\ k \in CELL
          BY <1>a, <2>2 DEF MarkInv
        <4>2. cells'[c] = [n EXCEPT !.chg = 0]
              /\ db'[c] = IF opts.minimum THEN SyncedMaster(c, k, db[c]) ELSE db[c]
          BY <1>3, <2>2 DEF Launch, Synced, SyncedDb
        <4>3. n \in CELL
          BY <1>a, <4>1 DEF SyncedCell, Cell, CELL
        <4>4. Sound(c, n)
          BY <1>a, <4>1, SyncedSound
        <4> HIDE DEF n
        <4>5. cells'[c].size = n.size /\ cells'[c].vt = n.vt /\ cells'[c].type = n.type
              /\ cells'[c].dt = n.dt /\ cells'[c].chg = 0
          BY <4>2, <4>3 DEF CELL
        <4>6. LibOf(c, cells'[c]) = LibOf(c, n)
          BY <4>5 DEF LibOf
        <4>7. Sound(c, cells'[c])
          BY <4>4, <4>5, <4>6 DEF Sound
        <4>8. Agreed(c, cells'[c], db'[c])
          <5>1. CASE opts.minimum
            <6>1. Dirty(c, k) => n = Cell(k.size, k.vt,
                                      IF k.type \in Masters THEN k.type ELSE db[c], 0, k.dt)
              BY <5>1, Zenon DEF SyncedCell, n
            <6>2. Dirty(c, k) => db'[c] = n.type
              BY <4>2, <5>1, <6>1 DEF SyncedMaster, Cell
            <6>3. ~Dirty(c, k) => n = k /\ (LibOf(c, k) = NoLib \/ k.dt)
              BY <1>3, <2>2, <5>1 DEF SyncedCell, Dirty, MarkInv, Launch, n
            <6> QED BY <4>5, <4>6, <6>2, <6>3 DEF Agreed
          <5>2. CASE ~opts.minimum
            <6>1. n = k /\ db'[c] = db[c]
              BY <4>2, <5>2 DEF n
            <6> QED BY <1>3, <2>2, <4>5, <4>6, <5>2, <6>1 DEF Agreed, MarkInv, Launch
          <5> QED BY <5>1, <5>2
        <4> QED BY <4>7, <4>8
      <3> QED BY <1>0, <1>3, <2>1, <2>2, <3>1 DEF Launch, MarkInv
    <2> QED BY <1>0, <2>1, <2>2 DEF MarkInv
  <1>4. CASE StartSearch
    <2>1. trial = NoTrial /\ TrialInv'
      BY <1>4, NoTrialOpen DEF StartSearch
    <2>2. ASSUME ~opts.gtrIn PROVE MarkInv'
      <3>1. ASSUME NEW c \in Cells
            PROVE  /\ Sound(c, cells'[c])
                   /\ Agreed(c, best[c], db[c]) => Agreed(c, cells'[c], db'[c])
        <4>1. cells'[c] = SyncedCell(c, best[c], db[c])
              /\ db'[c] = SyncedMaster(c, best[c], db[c])
          BY <1>4 DEF StartSearch, Synced, SyncedDb
        <4> QED BY <1>a, <2>2, <4>1, SyncedSound DEF MarkInv
      <3>2. round' = 1 => round = 0
        BY <1>4, BoundAssumption DEF StartSearch, TypeOK
      <3>3. round' # 0
        BY <1>4, BoundAssumption DEF StartSearch, TypeOK
      <3> QED BY <1>0, <1>4, <2>1, <2>2, <3>1, <3>2, <3>3 DEF StartSearch, MarkInv
    <2> QED BY <1>0, <2>1, <2>2 DEF MarkInv
  <1>5. CASE Correlate
    <2>1. trial = NoTrial /\ TrialInv'
      BY <1>5, NoTrialOpen DEF Correlate, Searching
    <2>2. ASSUME ~opts.gtrIn PROVE MarkInv'
      <3>1. ASSUME NEW c \in Cells
            PROVE  /\ Sound(c, cells'[c])
                   /\ Agreed(c, cells[c], db[c]) => Agreed(c, cells'[c], db'[c])
        <4>1. cells'[c] = SyncedCell(c, cells[c], db[c])
              /\ db'[c] = SyncedMaster(c, cells[c], db[c])
          BY <1>5 DEF Correlate, Synced, SyncedDb
        <4> QED BY <1>a, <2>2, <4>1, SyncedSound DEF MarkInv
      <3> QED BY <1>0, <1>5, <2>1, <2>2, <3>1 DEF Correlate, Searching, MarkInv
    <2> QED BY <1>0, <2>1, <2>2 DEF MarkInv
  <1>6. ASSUME NEW c \in Cells, NEW kind \in MoveKind, NEW step \in Steps,
               Repair(c, kind, step)
        PROVE  IInv'
    <2> DEFINE m == Moved(c, cells[c], kind, step)
    <2>1. trial = NoTrial /\ TrialInv'
      BY <1>6, NoTrialOpen DEF Repair, Searching
    <2>2. ASSUME ~opts.gtrIn PROVE MarkInv'
      <3>1. Sound(c, m) /\ (Agreed(c, cells[c], db[c]) => Agreed(c, m, db[c]))
        <4>1. step \in Int
          BY BoundAssumption DEF Steps
        <4>2. Sound(c, cells[c]) /\ cells[c].chg \in Int
          BY <1>a, <2>2 DEF MarkInv, CELL
        <4>3. m # cells[c] => m.chg = cells[c].chg + 1 /\ LibOf(c, m) = m.type
          BY <1>0, <1>a, <4>1, MovedFacts
        <4> HIDE DEF m
        <4> QED BY <4>2, <4>3 DEF Sound, Agreed
      <3>2. cells' = [cells EXCEPT ![c] = m]
        BY <1>6 DEF Repair
      <3> HIDE DEF m
      <3>3. ASSUME NEW x \in Cells
            PROVE  /\ Sound(x, cells'[x])
                   /\ Agreed(x, cells[x], db[x]) => Agreed(x, cells'[x], db[x])
        <4>1. cells'[x] = IF x = c THEN m ELSE cells[x]
          BY <3>2 DEF TypeOK, Snapshot
        <4> QED BY <2>2, <3>1, <4>1 DEF MarkInv
      <3> QED BY <1>0, <1>6, <2>1, <2>2, <3>3 DEF Repair, Searching, MarkInv
    <2> QED BY <1>0, <2>1, <2>2 DEF MarkInv
  <1>7. ASSUME NEW c \in Cells, NEW kind \in MoveKind, NEW step \in Steps,
               TryMove(c, kind, step)
        PROVE  IInv'
    <2> DEFINE m == Moved(c, cells[c], kind, step)
    <2>1. step \in Int /\ cells[c] \in CELL
      BY <1>a, BoundAssumption DEF Steps
    <2>2. /\ cells' = [cells EXCEPT ![c] = m]
          /\ trial' = [cell |-> c, kind |-> kind, step |-> step,
                       moved |-> m # cells[c], org |-> cells[c], cap |-> caps[c]]
          /\ phase = "search" /\ phase' = "search" /\ LibOf(c, cells[c]) # NoLib
          /\ Reaches(c, cells[c], kind, step)
      BY <1>7 DEF TryMove, Searching, Movable, InTable, Reaches
    <2>m. cells'[c] = m
      BY <2>2 DEF TypeOK, Snapshot
    <2>3. TrialInv'
      <3> SUFFICES LET t == trial'
                   IN  /\ phase' = "search" /\ LibOf(t.cell, t.org) # NoLib
                       /\ Reaches(t.cell, t.org, t.kind, t.step)
                       /\ cells'[t.cell] = Moved(t.cell, t.org, t.kind, t.step)
                       /\ t.moved <=> cells'[t.cell] # t.org
        BY <1>0 DEF TrialInv, Moved, Resized, Retyped
      <3> QED BY <2>2, <2>m
    <2>4. ASSUME ~opts.gtrIn PROVE MarkInv'
      <3>1. Sound(c, m) /\ (Agreed(c, cells[c], db[c]) => Agreed(c, m, db[c]))
        <4>2. Sound(c, cells[c]) /\ cells[c].chg \in Int
          BY <1>a, <2>4 DEF MarkInv, CELL
        <4>3. m # cells[c] => m.chg = cells[c].chg + 1 /\ LibOf(c, m) = m.type
          BY <1>0, <2>1, MovedFacts
        <4> HIDE DEF m
        <4> QED BY <4>2, <4>3 DEF Sound, Agreed
      <3> HIDE DEF m
      <3>3. ASSUME NEW x \in Cells
            PROVE  /\ Sound(x, cells'[x])
                   /\ Agreed(x, cells[x], db[x]) => Agreed(x, cells'[x], db[x])
        <4>1. cells'[x] = IF x = c THEN m ELSE cells[x]
          BY <2>2 DEF TypeOK, Snapshot
        <4> QED BY <2>4, <3>1, <4>1 DEF MarkInv
      <3>4. trial'.cell = c /\ trial'.org = cells[c]
        BY <2>2
      <3> QED BY <1>0, <1>7, <2>2, <2>4, <3>3, <3>4 DEF TryMove, MarkInv
    <2> QED BY <1>0, <2>3, <2>4 DEF MarkInv
  <1>8. CASE AcceptTrial
    BY <1>0, <1>8 DEF AcceptTrial, TrialInv, MarkInv
  <1>9. CASE RestoreTrial
    <2> DEFINE c == trial.cell
               o == trial.org
               k == Moved(c, cells[c], trial.kind, -trial.step)
    <2>1. /\ c \in Cells /\ o \in CELL /\ trial.kind \in MoveKind /\ trial.step \in Int
          /\ trial.moved \in BOOLEAN
      BY <1>9, BoundAssumption DEF RestoreTrial, TypeOK, Steps
    <2>2. k = Cell(o.size, o.vt, LibOf(c, o), o.chg + 2, o.dt)
      BY <1>0, <1>9, <2>1, MoveInverse DEF RestoreTrial, TrialInv
    <2>3. cells' = [cells EXCEPT ![c] = [k EXCEPT !.chg = @ - 2]] /\ trial' = NoTrial
      BY <1>9 DEF RestoreTrial
    <2> DEFINE n == Cell(o.size, o.vt, LibOf(c, o), o.chg, o.dt)
    <2>4. [k EXCEPT !.chg = @ - 2] = n
      BY <2>1, <2>2 DEF Cell, CELL
    <2>5. ASSUME ~opts.gtrIn PROVE MarkInv'
      <3>1. Sound(c, o) /\ (round = 1 => Agreed(c, o, db[c]))
        BY <1>9, <2>5 DEF MarkInv, RestoreTrial
      <3>2. LibOf(c, n) = LibOf(c, o) /\ n.chg = o.chg /\ n.type = LibOf(c, o) /\ n.dt = o.dt
        BY DEF LibOf, Cell
      <3> HIDE DEF n, c, o, k
      <3>3. Sound(c, n) /\ (round = 1 => Agreed(c, n, db[c]))
        BY <3>1, <3>2 DEF Sound, Agreed
      <3>4. ASSUME NEW x \in Cells
            PROVE  /\ Sound(x, cells'[x])
                   /\ (round = 1 /\ Agreed(x, cells[x], db[x])) => Agreed(x, cells'[x], db[x])
        <4>1. cells'[x] = IF x = c THEN n ELSE cells[x]
          BY <2>1, <2>3, <2>4 DEF TypeOK, Snapshot
        <4> QED BY <2>5, <3>3, <4>1 DEF MarkInv
      <3>5. /\ phase = "search" /\ phase' = "search" /\ round' = round /\ db' = db
            /\ best' = best /\ bestLocal' = bestLocal /\ trial' = NoTrial
        BY <1>9, <2>3 DEF RestoreTrial, TrialInv
      <3> QED BY <1>0, <2>5, <3>4, <3>5 DEF MarkInv
    <2> QED BY <1>0, <2>3, <2>5 DEF MarkInv, TrialInv
  <1>10. ASSUME NEW P \in SUBSET Cells, InitWNSPath(P) PROVE IInv'
    <2> DEFINE reset == [c \in Cells |->
                           IF c \in P THEN [Initialised(c, cells[c]) EXCEPT
                                              !.dt = @ \/ opts.critNoTouch]
                           ELSE cells[c]]
               some == \E c \in P : cells[c].type # Start[c].type
    <2>1. trial = NoTrial /\ TrialInv'
      BY <1>10, NoTrialOpen DEF InitWNSPath, Searching
    <2>2. /\ cells' = IF some THEN Synced(reset, db) ELSE reset
          /\ db' = IF some THEN SyncedDb(reset, db) ELSE db
      BY <1>10, Zenon DEF InitWNSPath
    <2>3. ASSUME ~opts.gtrIn PROVE MarkInv'
      <3>1. ASSUME NEW c \in Cells
            PROVE  /\ Sound(c, reset[c]) /\ reset[c] \in CELL
                   /\ Agreed(c, cells[c], db[c]) => Agreed(c, reset[c], db[c])
        <4>1. CASE c \notin P
          BY <1>a, <2>3, <4>1 DEF MarkInv
        <4>2. CASE c \in P
          <5> DEFINE i == Initialised(c, cells[c])
          <5>1. /\ i \in CELL /\ Sound(c, i)
                /\ Agreed(c, cells[c], db[c]) => Agreed(c, i, db[c])
            <6>1. CASE cells[c].type = Start[c].type
              BY <1>a, <2>3, <6>1 DEF Initialised, MarkInv
            <6>2. CASE cells[c].type # Start[c].type
              <7>1. i = Cell(Start[c].size, Start[c].vt, Start[c].type,
                             cells[c].chg + 1, cells[c].dt)
                BY <6>2 DEF Initialised
              <7>2. LibOf(c, i) \in {NoLib, Start[c].type}
                BY <7>1, StartAssumption DEF LibOf, Cell
              <7>3. i \in CELL
                BY <1>a, <7>1, StartAssumption DEF Cell, CELL
              <7>4. i.type = Start[c].type /\ i.chg = cells[c].chg + 1
                BY <7>1 DEF Cell
              <7>5. cells[c].chg \in Int /\ cells[c].chg >= 0
                BY <1>a, <2>3 DEF MarkInv, Sound, CELL
              <7> HIDE DEF i
              <7> QED BY <7>2, <7>3, <7>4, <7>5 DEF Sound, Agreed
            <6> QED BY <6>1, <6>2
          <5>2. reset[c] = [i EXCEPT !.dt = @ \/ opts.critNoTouch]
            BY <4>2
          <5> HIDE DEF i, reset
          <5>3. /\ reset[c].size = i.size /\ reset[c].vt = i.vt /\ reset[c].type = i.type
                /\ reset[c].chg = i.chg /\ (~reset[c].dt => ~i.dt)
                /\ reset[c] \in CELL
            BY <1>0, <5>1, <5>2 DEF CELL, Options
          <5>4. LibOf(c, reset[c]) = LibOf(c, i)
            BY <5>3 DEF LibOf
          <5> QED BY <5>1, <5>3, <5>4 DEF Sound, Agreed
        <4> QED BY <4>1, <4>2
      <3>2. ASSUME NEW c \in Cells
            PROVE  /\ Sound(c, cells'[c])
                   /\ Agreed(c, cells[c], db[c]) => Agreed(c, cells'[c], db'[c])
        <4> HIDE DEF reset, some
        <4>1. CASE some
          <5>1. cells'[c] = SyncedCell(c, reset[c], db[c])
                /\ db'[c] = SyncedMaster(c, reset[c], db[c])
            BY <2>2, <4>1 DEF Synced, SyncedDb
          <5>2. Sound(c, reset[c]) /\ reset[c] \in CELL /\ db[c] \in Masters \cap LibCells
            BY <1>a, <3>1
          <5>3. /\ Sound(c, SyncedCell(c, reset[c], db[c]))
                /\ Agreed(c, reset[c], db[c]) =>
                     Agreed(c, SyncedCell(c, reset[c], db[c]), SyncedMaster(c, reset[c], db[c]))
            BY <5>2, SyncedSound
          <5> QED BY <3>1, <5>1, <5>3
        <4>2. CASE ~some
          BY <2>2, <3>1, <4>2
        <4> QED BY <4>1, <4>2
      <3> HIDE DEF reset, some
      <3> QED BY <1>0, <1>10, <2>1, <2>3, <3>2 DEF InitWNSPath, Searching, MarkInv
    <2> QED BY <1>0, <2>1, <2>3 DEF MarkInv
  <1>11. CASE SaveBest
    <2>1. trial = NoTrial /\ TrialInv'
      BY <1>11, NoTrialOpen DEF SaveBest, Searching
    <2> QED BY <1>0, <1>11, <2>1 DEF SaveBest, Searching, MarkInv
  <1>12. CASE EndSearch
    <2>1. trial = NoTrial /\ TrialInv'
      BY <1>12, NoTrialOpen DEF EndSearch, Searching
    <2>2. best' = best \/ best' = bestLocal
      BY <1>12 DEF EndSearch
    <2> QED BY <1>0, <1>12, <2>1, <2>2 DEF EndSearch, Searching, MarkInv
  <1>13. CASE WriteSizes
    <2>1. trial = NoTrial /\ TrialInv'
      BY <1>13, NoTrialOpen DEF WriteSizes
    <2> QED BY <1>0, <1>13, <2>1 DEF WriteSizes, MarkInv
  <1>14. ASSUME NEW spef \in BOOLEAN, FinalReport(spef) PROVE IInv'
    <2> DEFINE swapped == [c \in Cells |-> Reported(c, db[c])]
    <2>1. trial = NoTrial /\ TrialInv'
      BY <1>14, NoTrialOpen DEF FinalReport
    <2>2. ASSUME ~opts.gtrIn PROVE MarkInv'
      <3>1. ASSUME NEW c \in Cells PROVE Sound(c, best'[c]) /\ best'[c] \in CELL
        <4>1. best'[c] = Marked(c)
          BY <1>14 DEF FinalReport
        <4>2. Marked(c) = best[c] \/ Marked(c) = [best[c] EXCEPT !.chg = 1]
          BY Zenon DEF Marked
        <4>3. Sound(c, [best[c] EXCEPT !.chg = 1]) /\ [best[c] EXCEPT !.chg = 1] \in CELL
          BY <1>a, <2>2 DEF MarkInv, Sound, CELL, LibOf
        <4> QED BY <1>a, <2>2, <4>1, <4>2, <4>3 DEF MarkInv
      <3>2. ASSUME NEW c \in Cells PROVE swapped[c] \in Masters \cap LibCells
        BY <1>a DEF Reported, CELL
      <3>3. cells' = cells \/ cells' = Synced(best', swapped)
        BY <1>14, Zenon DEF FinalReport
      <3> HIDE DEF swapped
      <3>4. ASSUME NEW c \in Cells PROVE Sound(c, cells'[c])
        <4>1. Sound(c, SyncedCell(c, best'[c], swapped[c]))
          BY <3>1, <3>2, SyncedSound
        <4> QED BY <2>2, <3>3, <4>1 DEF Synced, MarkInv
      <3> QED BY <1>0, <1>14, <2>1, <2>2, <3>1, <3>4 DEF FinalReport, MarkInv
    <2> QED BY <1>0, <2>1, <2>2 DEF MarkInv
  <1>15. CASE UNCHANGED vars
    BY <1>0, <1>15 DEF vars, TrialInv, MarkInv, Moved, Resized, Retyped
  <1> QED
    BY <1>1, <1>2, <1>3, <1>4, <1>5, <1>6, <1>7, <1>8, <1>9, <1>10, <1>11,
       <1>12, <1>13, <1>14, <1>15 DEF Next

LEMMA AlwaysIInv == Spec => []IInv
  BY InitIInv, NextIInv, PTL DEF Spec

-----------------------------------------------------------------------------
(* No edit is lost between the optimizer and the database: in the first    *)
(* search an unmarked cell is always the instance's master, for every      *)
(* library, every interleaving of trials, repairs and synchronisations.    *)
THEOREM NoLostEdit == Spec => []SyncInv
  <1>1. IInv => SyncInv
    BY DEF IInv, MarkInv, SyncInv, Agreed
  <1> QED BY <1>1, AlwaysIInv, PTL

(* Undoing a trial is exact: the inverse move never clamps, never fails    *)
(* and isChanged -= 2 cancels the two moves.                               *)
THEOREM TrialsRestore == Spec => RestoreExact
  <1> DEFINE Exact == (trial # NoTrial /\ trial.moved /\ trial' = NoTrial /\ cells' # cells) =>
                        LET c == trial.cell
                            o == trial.org
                        IN  /\ cells'[c].size = o.size /\ cells'[c].vt = o.vt
                            /\ cells'[c].chg = o.chg
                            /\ o.type = LibOf(c, o) => cells'[c] = o
                            /\ trial.cap = LibOf(c, o) => caps'[c] = trial.cap
  <1>1. IInv /\ [Next]_vars => [Exact]_vars
    <2> SUFFICES ASSUME IInv, [Next]_vars, trial # NoTrial, trial.moved,
                        trial' = NoTrial, cells' # cells
                 PROVE  Exact
      OBVIOUS
    <2> USE DEF IInv
    <2>1. phase = "search"
      BY DEF TrialInv
    <2>2. RestoreTrial
      BY <2>1 DEF Next, vars, ResetMinimum, SizeInit, Launch, StartSearch, Searching,
           Correlate, Repair, TryMove, AcceptTrial, InitWNSPath, SaveBest, EndSearch,
           WriteSizes, FinalReport
    <2> DEFINE c == trial.cell
               o == trial.org
               k == Moved(c, cells[c], trial.kind, -trial.step)
    <2>3. /\ c \in Cells /\ o \in CELL /\ trial.kind \in MoveKind /\ trial.step \in Int
          /\ opts \in Options /\ cells[c] \in CELL
      BY BoundAssumption, ConfigAssumption DEF TypeOK, Steps, Snapshot
    <2>4. cells[c] = Moved(c, o, trial.kind, trial.step) /\ cells[c] # o
      BY <2>2 DEF TrialInv
    <2>5. k = Cell(o.size, o.vt, LibOf(c, o), o.chg + 2, o.dt)
      BY <2>3, <2>4, MoveInverse DEF TrialInv
    <2>6. cells'[c] = Cell(o.size, o.vt, LibOf(c, o), o.chg, o.dt)
      <3>1. cells'[c] = [k EXCEPT !.chg = @ - 2]
        BY <2>2, <2>3 DEF RestoreTrial, TypeOK, Snapshot
      <3> HIDE DEF k
      <3> QED BY <2>3, <2>5, <3>1 DEF Cell, CELL
    <2>7. caps'[c] = LibOf(c, o)
      <3>1. caps'[c] = CapsAfter(c, cells[c], k)
        BY <2>2, <2>3 DEF RestoreTrial, TypeOK
      <3>2. k.chg = o.chg + 2 /\ k.type = LibOf(c, o)
        BY <2>5 DEF Cell
      <3>3. cells[c].chg = o.chg + 1 /\ o.chg \in Int
        BY <2>3, <2>4, MovedFacts DEF CELL
      <3>4. k # cells[c]
        BY <3>2, <3>3
      <3> HIDE DEF k
      <3> QED BY <3>1, <3>2, <3>4 DEF CapsAfter
    <2>8. o.type = LibOf(c, o) => cells'[c] = o
      BY <2>3, <2>6 DEF Cell, CELL
    <2> QED BY <2>6, <2>7, <2>8 DEF Cell
  <1> QED BY <1>1, AlwaysIInv, PTL DEF Spec, RestoreExact

-----------------------------------------------------------------------------
(* What leaves the optimizer: the masters of dont-touch instances, the pin *)
(* capacitances its timing uses, and the size file.                        *)

(* Cells read as dont-touch stay in row and column in every copy, stay     *)
(* frozen, and are never tried.                                            *)
Frozen(c, k) == k.dt /\ k.size = Start[c].size /\ k.vt = Start[c].vt

FrozenInv ==
  /\ \A c \in DontTouch : /\ Frozen(c, cells[c]) /\ Frozen(c, best[c])
                          /\ Frozen(c, bestLocal[c])
                          /\ db[c] = Start[c].type
  /\ trial # NoTrial => trial.cell \notin DontTouch

LEMMA SyncedFrozen ==
  ASSUME NEW c \in DontTouch, NEW k \in CELL, NEW d, Frozen(c, k)
  PROVE  Frozen(c, SyncedCell(c, k, d)) /\ SyncedMaster(c, k, d) = d
  <1>1. ~Dirty(c, k)
    BY Zenon DEF Frozen, Dirty
  <1> QED BY <1>1, Zenon DEF SyncedCell, SyncedMaster

LEMMA InitFrozen == Init => FrozenInv
  <1> SUFFICES ASSUME Init PROVE FrozenInv
    OBVIOUS
  <1>1. ASSUME NEW c \in DontTouch PROVE Frozen(c, cells[c]) /\ db[c] = Start[c].type
    <2>1. c \in Cells
      BY StartAssumption
    <2>2. /\ cells[c] = Cell(Start[c].size, Start[c].vt, Start[c].type,
                            IF c \in Unmapped THEN 0 ELSE 1, c \in DontTouch)
          /\ db[c] = Start[c].type
      BY <2>1 DEF Init
    <2>3. (c \in DontTouch) = TRUE
      OBVIOUS
    <2>4. cells[c] = Cell(Start[c].size, Start[c].vt, Start[c].type,
                          IF c \in Unmapped THEN 0 ELSE 1, TRUE)
      BY <2>2, <2>3
    <2> QED BY <2>2, <2>4 DEF Frozen, Cell
  <1> QED BY <1>1 DEF Init, FrozenInv

LEMMA NextFrozen == IInv /\ FrozenInv /\ [Next]_vars => FrozenInv'
  <1> SUFFICES ASSUME IInv, FrozenInv, [Next]_vars PROVE FrozenInv'
    OBVIOUS
  <1>0. /\ DontTouch \subseteq Cells
        /\ cells \in [Cells -> CELL] /\ best \in [Cells -> CELL]
        /\ bestLocal \in [Cells -> CELL]
    BY StartAssumption DEF IInv, TypeOK, Snapshot
  <1>1. CASE ResetMinimum
    <2>1. ASSUME NEW c \in DontTouch PROVE Smallest(c, cells[c]) = cells[c]
      BY DEF FrozenInv, Frozen, Smallest
    <2>2. ASSUME NEW c \in DontTouch PROVE cells'[c] = cells[c]
      BY <1>0, <1>1, <2>1 DEF ResetMinimum
    <2> QED BY <1>1, <2>2 DEF ResetMinimum, FrozenInv, Frozen
  <1>2. ASSUME NEW c \in Cells, NEW type \in Footprint(c), SizeInit(c, type) PROVE FrozenInv'
    <2>1. ASSUME NEW x \in DontTouch PROVE Frozen(x, cells'[x])
      BY <1>0, <1>2 DEF SizeInit, FrozenInv, Frozen, Cell
    <2> QED BY <1>2, <2>1 DEF SizeInit, FrozenInv, Frozen
  <1>3. CASE Launch
    <2> DEFINE sync  == opts.minimum \/ opts.gtrIn
               after == IF sync THEN Synced(cells, db) ELSE cells
    <2>1. ASSUME NEW c \in DontTouch
          PROVE  Frozen(c, after[c]) /\ after[c] \in CELL /\ db'[c] = db[c]
      <3>1. /\ Frozen(c, SyncedCell(c, cells[c], db[c]))
            /\ SyncedMaster(c, cells[c], db[c]) = db[c]
        BY <1>0, SyncedFrozen DEF FrozenInv
      <3>2. Synced(cells, db) \in Snapshot
        BY SyncedType DEF IInv, TypeOK
      <3>3. Synced(cells, db)[c] = SyncedCell(c, cells[c], db[c])
        BY <1>0 DEF Synced
      <3>4. SyncedDb(cells, db)[c] = db[c]
        BY <1>0, <3>1 DEF SyncedDb
      <3>5. CASE sync
        BY <1>0, <1>3, <3>1, <3>2, <3>3, <3>4, <3>5 DEF Launch, Snapshot
      <3>6. CASE ~sync
        BY <1>0, <1>3, <3>6 DEF Launch, FrozenInv
      <3> QED BY <3>5, <3>6
    <2>2. ASSUME NEW c \in DontTouch PROVE cells'[c] = [after[c] EXCEPT !.chg = 0]
      BY <1>0, <1>3 DEF Launch
    <2>3. best' = cells' /\ bestLocal' = cells' /\ trial' = trial
      BY <1>3 DEF Launch
    <2> HIDE DEF after
    <2>4. ASSUME NEW c \in DontTouch PROVE Frozen(c, cells'[c])
      BY <2>1, <2>2 DEF Frozen, CELL
    <2> QED BY <2>1, <2>3, <2>4 DEF FrozenInv
  <1>4. CASE StartSearch
    <2>1. ASSUME NEW c \in DontTouch
          PROVE  Frozen(c, cells'[c]) /\ db'[c] = db[c]
      <3>1. /\ Frozen(c, SyncedCell(c, best[c], db[c]))
            /\ SyncedMaster(c, best[c], db[c]) = db[c]
        BY <1>0, SyncedFrozen DEF FrozenInv
      <3> QED BY <1>0, <1>4, <3>1 DEF StartSearch, Synced, SyncedDb
    <2> QED BY <1>4, <2>1 DEF StartSearch, FrozenInv
  <1>5. CASE Correlate
    <2>1. ASSUME NEW c \in DontTouch
          PROVE  Frozen(c, cells'[c]) /\ db'[c] = db[c]
      <3>1. /\ Frozen(c, SyncedCell(c, cells[c], db[c]))
            /\ SyncedMaster(c, cells[c], db[c]) = db[c]
        BY <1>0, SyncedFrozen DEF FrozenInv
      <3> QED BY <1>0, <1>5, <3>1 DEF Correlate, Synced, SyncedDb
    <2> QED BY <1>5, <2>1 DEF Correlate, FrozenInv
  <1>6. ASSUME NEW c \in Cells, NEW kind \in MoveKind, NEW step \in Steps,
               Repair(c, kind, step)
        PROVE  FrozenInv'
    <2>1. c \notin DontTouch
      BY <1>6 DEF Repair, Movable, FrozenInv, Frozen
    <2>2. \A x \in DontTouch : cells'[x] = cells[x]
      BY <1>0, <1>6, <2>1 DEF Repair
    <2> QED BY <1>6, <2>2 DEF Repair, FrozenInv
  <1>7. ASSUME NEW c \in Cells, NEW kind \in MoveKind, NEW step \in Steps,
               TryMove(c, kind, step)
        PROVE  FrozenInv'
    <2>1. c \notin DontTouch
      BY <1>7 DEF TryMove, Movable, FrozenInv, Frozen
    <2>2. \A x \in DontTouch : cells'[x] = cells[x]
      BY <1>0, <1>7, <2>1 DEF TryMove
    <2>3. trial'.cell = c
      BY <1>7 DEF TryMove
    <2> QED BY <1>7, <2>1, <2>2, <2>3 DEF TryMove, FrozenInv
  <1>8. CASE AcceptTrial
    BY <1>8 DEF AcceptTrial, FrozenInv
  <1>9. CASE RestoreTrial
    <2>1. \A x \in DontTouch : cells'[x] = cells[x]
      BY <1>0, <1>9 DEF RestoreTrial, FrozenInv
    <2> QED BY <1>9, <2>1 DEF RestoreTrial, FrozenInv
  <1>10. ASSUME NEW P \in SUBSET Cells, InitWNSPath(P) PROVE FrozenInv'
    <2> DEFINE reset == [c \in Cells |->
                           IF c \in P THEN [Initialised(c, cells[c]) EXCEPT
                                              !.dt = @ \/ opts.critNoTouch]
                           ELSE cells[c]]
               some  == \E c \in P : cells[c].type # Start[c].type
    <2>1. /\ cells' = IF some THEN Synced(reset, db) ELSE reset
          /\ db' = IF some THEN SyncedDb(reset, db) ELSE db
          /\ UNCHANGED <<best, bestLocal, trial>>
      BY <1>10 DEF InitWNSPath
    <2>2. ASSUME NEW c \in DontTouch PROVE Frozen(c, reset[c]) /\ reset[c] \in CELL
      <3>1. /\ Frozen(c, Initialised(c, cells[c]))
            /\ Initialised(c, cells[c]) \in CELL
        BY <1>0, StartAssumption DEF FrozenInv, Frozen, Initialised, Cell, CELL
      <3> HIDE DEF Initialised
      <3>2. /\ Frozen(c, [Initialised(c, cells[c]) EXCEPT !.dt = @ \/ opts.critNoTouch])
            /\ [Initialised(c, cells[c]) EXCEPT !.dt = @ \/ opts.critNoTouch] \in CELL
        BY <3>1 DEF Frozen, CELL
      <3> QED BY <1>0, <3>2 DEF FrozenInv
    <2> HIDE DEF some
    <2>3. ASSUME NEW c \in DontTouch
          PROVE  Frozen(c, cells'[c]) /\ db'[c] = db[c]
      <3> HIDE DEF reset
      <3>1. /\ Frozen(c, SyncedCell(c, reset[c], db[c]))
            /\ SyncedMaster(c, reset[c], db[c]) = db[c]
        BY <2>2, SyncedFrozen
      <3>2. Synced(reset, db)[c] = SyncedCell(c, reset[c], db[c])
        BY <1>0 DEF Synced
      <3>3. SyncedDb(reset, db)[c] = db[c]
        BY <1>0, <3>1 DEF SyncedDb
      <3>4. CASE some
        BY <2>1, <3>1, <3>2, <3>3, <3>4
      <3>5. CASE ~some
        BY <2>1, <2>2, <3>5
      <3> QED BY <3>4, <3>5
    <2> QED BY <2>1, <2>3 DEF FrozenInv
  <1>11. CASE SaveBest \/ EndSearch \/ WriteSizes
    BY <1>11 DEF SaveBest, EndSearch, WriteSizes, FrozenInv
  <1>12. ASSUME NEW spef \in BOOLEAN, FinalReport(spef) PROVE FrozenInv'
    <2> DEFINE swapped == [c \in Cells |-> Reported(c, db[c])]
    <2>1. ASSUME NEW c \in DontTouch
          PROVE  /\ Frozen(c, best'[c]) /\ best'[c] \in CELL
                 /\ swapped[c] = db[c]
      BY <1>0, <1>12 DEF FinalReport, Marked, Reported, FrozenInv, Frozen
    <2>2. ASSUME NEW c \in DontTouch
          PROVE  Frozen(c, cells'[c]) /\ db'[c] = db[c]
      <3>1. /\ Frozen(c, SyncedCell(c, best'[c], swapped[c]))
            /\ SyncedMaster(c, best'[c], swapped[c]) = db[c]
        BY <2>1, SyncedFrozen
      <3>2. CASE spef
        BY <1>12, <2>1, <3>2 DEF FinalReport, FrozenInv
      <3>3. CASE ~spef
        BY <1>0, <1>12, <3>1, <3>3 DEF FinalReport, Synced, SyncedDb
      <3> QED BY <3>2, <3>3
    <2>3. bestLocal' = bestLocal /\ trial' = trial
      BY <1>12 DEF FinalReport
    <2> QED BY <2>1, <2>2, <2>3 DEF FrozenInv
  <1>13. CASE UNCHANGED vars
    BY <1>13 DEF vars, FrozenInv
  <1> QED
    BY <1>1, <1>2, <1>3, <1>4, <1>5, <1>6, <1>7, <1>8, <1>9, <1>10, <1>11,
       <1>12, <1>13 DEF Next

(* The database never changes the master of an instance that was read as   *)
(* dont-touch: no option, repair, trial, snapshot or report gets past the  *)
(* tests of isDontTouch.                                                   *)
THEOREM FrozenStays == Spec => []DontTouchKept
  <1>1. FrozenInv => DontTouchKept
    BY DEF FrozenInv, DontTouchKept
  <1> QED BY <1>1, InitFrozen, NextFrozen, AlwaysIInv, PTL DEF Spec

-----------------------------------------------------------------------------
(* The capacitances of a cell's input pins are those of its slot while a   *)
(* search runs, without InitWNSPath.                                       *)
Loaded(c, k, cap) == LibOf(c, k) # NoLib => cap = LibOf(c, k)

CapsInv ==
  (phase = "search" /\ ~opts.initPath) => \A c \in Cells : Loaded(c, cells[c], caps[c])

(* A move, successful or not, keeps a loaded cell loaded, and so does what *)
(* leaves row and column alone.                                            *)
LEMMA MovedLoaded ==
  ASSUME opts \in Options, NEW c \in Cells, NEW k \in CELL, k = cells[c],
         NEW kind \in MoveKind, NEW step \in Int, Loaded(c, k, caps[c])
  PROVE  Loaded(c, Moved(c, k, kind, step), CapsAfter(c, k, Moved(c, k, kind, step)))
  <1> DEFINE m == Moved(c, k, kind, step)
  <1>1. CASE m = k
    BY <1>1 DEF Loaded, CapsAfter
  <1>2. CASE m # k
    <2>1. LibOf(c, m) = m.type
      BY <1>2, MovedFacts
    <2>2. CapsAfter(c, k, m) = m.type
      BY <1>2, Zenon DEF CapsAfter
    <2> QED BY <2>1, <2>2, Zenon DEF Loaded
  <1> QED BY <1>1, <1>2

LEMMA SameSlotLoaded ==
  ASSUME NEW c \in Cells, NEW k, NEW n, NEW cap, Loaded(c, k, cap),
         n.size = k.size, n.vt = k.vt
  PROVE  Loaded(c, n, cap)
  BY DEF Loaded, LibOf

LEMMA SyncedSlot ==
  ASSUME NEW c \in Cells, NEW k, NEW d
  PROVE  SyncedCell(c, k, d).size = k.size /\ SyncedCell(c, k, d).vt = k.vt
  <1>1. CASE Dirty(c, k)
    BY <1>1, Zenon DEF SyncedCell, Cell
  <1>2. CASE ~Dirty(c, k)
    BY <1>2, Zenon DEF SyncedCell
  <1> QED BY <1>1, <1>2

LEMMA NextCaps == IInv /\ CapsInv /\ [Next]_vars => CapsInv'
  <1> SUFFICES ASSUME IInv, CapsInv, [Next]_vars, phase' = "search", ~opts'.initPath
               PROVE  \A c \in Cells : Loaded(c, cells'[c], caps'[c])
    BY DEF CapsInv, Loaded, LibOf, Slot
  <1>0. /\ cells \in [Cells -> CELL] /\ best \in [Cells -> CELL]
        /\ caps \in [Cells -> LibCells] /\ opts \in Options
    BY ConfigAssumption DEF IInv, TypeOK, Snapshot
  <1>a. ASSUME opts' = opts, phase = "search" PROVE \A c \in Cells : Loaded(c, cells[c], caps[c])
    BY <1>a DEF CapsInv
  <1>1. CASE StartSearch
    <2> TAKE c \in Cells
    <2>1. caps'[c] = IF LibOf(c, best[c]) = NoLib THEN caps[c] ELSE LibOf(c, best[c])
      BY <1>1 DEF StartSearch, CapsFrom
    <2>2. cells'[c] = SyncedCell(c, best[c], db[c])
      BY <1>1 DEF StartSearch, Synced
    <2>3. Loaded(c, best[c], caps'[c])
      BY <2>1, Zenon DEF Loaded
    <2> QED BY <2>2, <2>3, SyncedSlot, SameSlotLoaded
  <1>2. CASE Correlate
    <2> TAKE c \in Cells
    <2>1. cells'[c] = SyncedCell(c, cells[c], db[c]) /\ caps' = caps
      BY <1>2 DEF Correlate, Synced
    <2>2. Loaded(c, cells[c], caps[c])
      BY <1>a, <1>2 DEF Correlate, Searching
    <2> QED BY <2>1, <2>2, SyncedSlot, SameSlotLoaded
  <1>3. ASSUME NEW c \in Cells, NEW kind \in MoveKind, NEW step \in Steps,
               Repair(c, kind, step) \/ TryMove(c, kind, step)
        PROVE  \A x \in Cells : Loaded(x, cells'[x], caps'[x])
    <2> DEFINE m == Moved(c, cells[c], kind, step)
    <2>1. /\ cells' = [cells EXCEPT ![c] = m]
          /\ caps' = [caps EXCEPT ![c] = CapsAfter(c, cells[c], m)]
          /\ phase = "search" /\ opts' = opts
      BY <1>3 DEF Repair, TryMove, Searching
    <2>2. Loaded(c, m, CapsAfter(c, cells[c], m))
      <3>1. cells[c] \in CELL /\ step \in Int /\ Loaded(c, cells[c], caps[c])
        BY <1>0, <1>a, <2>1, BoundAssumption DEF Steps
      <3> QED BY <1>0, <3>1, MovedLoaded
    <2> HIDE DEF m
    <2> TAKE x \in Cells
    <2>3. CASE x = c
      BY <1>0, <2>1, <2>2, <2>3
    <2>4. CASE x # c
      <3>1. cells'[x] = cells[x] /\ caps'[x] = caps[x]
        BY <1>0, <2>1, <2>4
      <3> QED BY <1>a, <2>1, <3>1
    <2> QED BY <2>3, <2>4
  <1>4. CASE RestoreTrial
    <2> DEFINE c == trial.cell
               m == Moved(c, cells[c], trial.kind, -trial.step)
    <2>1. /\ cells' = [cells EXCEPT ![c] = [m EXCEPT !.chg = @ - 2]]
          /\ caps' = [caps EXCEPT ![c] = CapsAfter(c, cells[c], m)]
          /\ opts' = opts /\ trial # NoTrial
      BY <1>4 DEF RestoreTrial
    <2>2. /\ c \in Cells /\ trial.kind \in MoveKind /\ -trial.step \in Int
          /\ phase = "search"
      BY <2>1, BoundAssumption DEF IInv, TypeOK, TrialInv, Steps
    <2>3. m \in CELL /\ Loaded(c, m, CapsAfter(c, cells[c], m))
      BY <1>0, <1>a, <2>1, <2>2, MovedLoaded, MovedType
    <2> HIDE DEF m, c
    <2>4. Loaded(c, [m EXCEPT !.chg = @ - 2], CapsAfter(c, cells[c], m))
      BY <2>2, <2>3, SameSlotLoaded DEF CELL
    <2> TAKE x \in Cells
    <2>5. CASE x = c
      BY <1>0, <2>1, <2>4, <2>5
    <2>6. CASE x # c
      <3>1. cells'[x] = cells[x] /\ caps'[x] = caps[x]
        BY <1>0, <2>1, <2>6
      <3> QED BY <1>a, <2>1, <2>2, <3>1
    <2> QED BY <2>5, <2>6
  <1>5. CASE AcceptTrial \/ SaveBest
    <2>1. phase = "search" /\ opts' = opts /\ cells' = cells /\ caps' = caps
      BY <1>5 DEF AcceptTrial, SaveBest, Searching
    <2> QED BY <1>a, <2>1
  <1>6. CASE UNCHANGED vars
    <2>1. phase = "search" /\ opts' = opts /\ cells' = cells /\ caps' = caps
      BY <1>6 DEF vars
    <2> QED BY <1>a, <2>1
  <1>7. ASSUME NEW P \in SUBSET Cells PROVE ~InitWNSPath(P)
    BY DEF InitWNSPath
  <1>8. ~ResetMinimum /\ ~Launch /\ ~EndSearch /\ ~WriteSizes
    BY DEF ResetMinimum, Launch, EndSearch, WriteSizes
  <1>9. \A spef \in BOOLEAN : ~FinalReport(spef)
    BY DEF FinalReport
  <1>10. \A c \in Cells : \A type \in Footprint(c) : ~SizeInit(c, type)
    BY DEF SizeInit
  <1> QED
    BY <1>1, <1>2, <1>3, <1>4, <1>5, <1>6, <1>7, <1>8, <1>9, <1>10 DEF Next

(* Name, row and column, and pin capacitances describe one library cell in *)
(* every search, for any number of searches and any libraries: no move,    *)
(* restore, snapshot or synchronisation lets the timer see another load.   *)
THEOREM OneLibraryCell == Spec => []CoherentInv
  <1>1. IInv /\ CapsInv => CoherentInv
    BY DEF IInv, MarkInv, Sound, CapsInv, Loaded, CoherentInv, CoherentCell
  <1>2. Init => CapsInv
    BY DEF Init, CapsInv
  <1> QED BY <1>1, <1>2, NextCaps, AlwaysIInv, PTL DEF Spec

-----------------------------------------------------------------------------
(* The size file.  Before the report it is that of the best solution.      *)
WrittenInv ==
  /\ phase = "written" => sizeFile = SizeOut(best)
  /\ ExportAgrees

(* What the report does to one instance, with or without a SPEF file.      *)
LEMMA ReportedCell ==
  ASSUME NEW c \in Cells, NEW d, LibOf(c, best[c]) \in Masters, LibOf(c, best[c]) # NoLib,
         best[c].type = LibOf(c, best[c]), best[c] \in CELL,
         ~best[c].dt \/ d = LibOf(c, best[c])
  PROVE  /\ Reported(c, d) = LibOf(c, best[c])
         /\ SyncedMaster(c, Marked(c), Reported(c, d)) = LibOf(c, best[c])
         /\ Marked(c).dt = best[c].dt
  <1>1. Reported(c, d) = LibOf(c, best[c])
    <2>1. CASE best[c].dt
      BY <2>1, Zenon DEF Reported
    <2>2. CASE ~best[c].dt
      BY <2>2, Zenon DEF Reported
    <2> QED BY <2>1, <2>2
  <1>2. Marked(c).type = best[c].type /\ Marked(c).dt = best[c].dt
    <2>1. Marked(c) = best[c] \/ Marked(c) = [best[c] EXCEPT !.chg = 1]
      BY Zenon DEF Marked
    <2> QED BY <2>1 DEF CELL
  <1>3. SyncedMaster(c, Marked(c), Reported(c, d)) \in {Marked(c).type, Reported(c, d)}
    BY Zenon DEF SyncedMaster
  <1> QED BY <1>1, <1>2, <1>3

LEMMA NextWritten == IInv /\ FrozenInv /\ WrittenInv /\ [Next]_vars => WrittenInv'
  <1> SUFFICES ASSUME IInv, FrozenInv, WrittenInv, [Next]_vars PROVE WrittenInv'
    OBVIOUS
  <1>0. best \in [Cells -> CELL]
    BY DEF IInv, TypeOK, Snapshot
  <1>1. CASE WriteSizes
    <2>1. sizeFile' = SizeOut(best) /\ best' = best /\ phase' = "written"
      BY <1>1 DEF WriteSizes
    <2> QED BY <2>1 DEF WrittenInv, ExportAgrees, SizeOut, LibOf, Slot
  <1>2. ASSUME NEW spef \in BOOLEAN, FinalReport(spef) PROVE WrittenInv'
    <2>1. /\ sizeFile = SizeOut(best) /\ sizeFile' = sizeFile
          /\ opts' = opts /\ phase' = "final"
      BY <1>2 DEF FinalReport, WrittenInv
    <2> DEFINE swapped == [x \in Cells |-> Reported(x, db[x])]
    <2>2. SUFFICES ASSUME ~opts.gtrIn, NEW c \in Cells,
                          sizeFile[c] \in Masters, sizeFile[c] # NoLib,
                          best'[c].dt => c \in DontTouch
                   PROVE  sizeFile[c] = db'[c]
      BY <2>1 DEF WrittenInv, ExportAgrees
    <2>3. sizeFile[c] = LibOf(c, best[c])
      BY <2>1 DEF SizeOut
    <2>4. best[c].type = LibOf(c, best[c]) /\ best[c] \in CELL
      BY <1>0, <2>2, <2>3 DEF IInv, MarkInv, Sound
    <2>5. best' = [x \in Cells |-> Marked(x)] /\ best'[c] = Marked(c)
      BY <1>2 DEF FinalReport
    <2>6. Marked(c).dt = best[c].dt
      <3>1. Marked(c) = best[c] \/ Marked(c) = [best[c] EXCEPT !.chg = 1]
        BY Zenon DEF Marked
      <3> QED BY <2>4, <3>1 DEF CELL
    <2>7. ~best[c].dt \/ db[c] = LibOf(c, best[c])
      <3>1. SUFFICES ASSUME best[c].dt PROVE db[c] = LibOf(c, best[c])
        OBVIOUS
      <3>2. c \in DontTouch
        BY <2>2, <2>5, <2>6, <3>1
      <3>3. db[c] = Start[c].type /\ best[c].size = Start[c].size /\ best[c].vt = Start[c].vt
        BY <3>2 DEF FrozenInv, Frozen
      <3>4. Slot(c, Start[c].size, Start[c].vt) \in {NoLib, Start[c].type}
        BY StartAssumption
      <3> QED BY <2>2, <2>3, <3>3, <3>4 DEF LibOf
    <2>8. /\ Reported(c, db[c]) = LibOf(c, best[c])
          /\ SyncedMaster(c, Marked(c), Reported(c, db[c])) = LibOf(c, best[c])
      BY <2>2, <2>3, <2>4, <2>7, ReportedCell
    <2>9. CASE spef
      <3>1. db' = swapped
        BY <1>2, <2>9 DEF FinalReport
      <3> QED BY <2>3, <2>8, <3>1
    <2>10. CASE ~spef
      <3>1. db' = SyncedDb(best', swapped)
        BY <1>2, <2>10 DEF FinalReport
      <3>2. db'[c] = SyncedMaster(c, Marked(c), Reported(c, db[c]))
        BY <2>5, <3>1 DEF SyncedDb
      <3> QED BY <2>3, <2>8, <3>2
    <2> QED BY <2>9, <2>10
  <1>3. CASE RestoreTrial \/ AcceptTrial
    <2>1. phase = "search" /\ phase' = phase
      BY <1>3 DEF IInv, TrialInv, RestoreTrial, AcceptTrial
    <2> QED BY <2>1 DEF WrittenInv, ExportAgrees
  <1>4. CASE ResetMinimum \/ Launch \/ StartSearch \/ Correlate \/ SaveBest \/ EndSearch
    <2>1. phase' \notin {"written", "final"}
      BY <1>4 DEF ResetMinimum, Launch, StartSearch, Correlate, SaveBest, EndSearch, Searching
    <2> QED BY <2>1 DEF WrittenInv, ExportAgrees
  <1>5. ASSUME NEW c \in Cells, NEW type \in Footprint(c), SizeInit(c, type) PROVE WrittenInv'
    BY <1>5 DEF SizeInit, WrittenInv, ExportAgrees
  <1>6. ASSUME NEW c \in Cells, NEW kind \in MoveKind, NEW step \in Steps,
               Repair(c, kind, step) \/ TryMove(c, kind, step)
        PROVE  WrittenInv'
    <2>1. phase' = "search"
      BY <1>6 DEF Repair, TryMove, Searching
    <2> QED BY <2>1 DEF WrittenInv, ExportAgrees
  <1>7. ASSUME NEW P \in SUBSET Cells, InitWNSPath(P) PROVE WrittenInv'
    <2>1. phase' = "search"
      BY <1>7 DEF InitWNSPath, Searching
    <2> QED BY <2>1 DEF WrittenInv, ExportAgrees
  <1>8. CASE UNCHANGED vars
    BY <1>8 DEF vars, WrittenInv, ExportAgrees, SizeOut, LibOf, Slot
  <1> QED
    BY <1>1, <1>2, <1>3, <1>4, <1>5, <1>6, <1>7, <1>8 DEF Next

(* When the program has reported, the size file and the database name the  *)
(* same masters, for any number of searches: what the searches left in     *)
(* the copies, and which marks the launcher cleared, does not matter.      *)
THEOREM ExportIsRight == Spec => []ExportAgrees
  <1>1. WrittenInv => ExportAgrees
    BY DEF WrittenInv
  <1>2. Init => WrittenInv
    BY DEF Init, WrittenInv, ExportAgrees
  <1> QED BY <1>1, <1>2, InitFrozen, NextFrozen, NextWritten, AlwaysIInv, PTL DEF Spec
=============================================================================
