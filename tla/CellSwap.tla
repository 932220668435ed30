------------------------------ MODULE CellSwap ------------------------------
(***************************************************************************)
(* The life of a cell's master in the sizer: the CELL record the optimizer *)
(* edits (size row, Vt column, master name, isChanged, isDontTouch), the   *)
(* input-pin capacitances that follow it, the OpenDB instance that must be *)
(* told of it, the best-so-far snapshots and the .size file.               *)
(*                                                                         *)
(* The optimizer edits its own copy and only marks it (isChanged); the     *)
(* database learns of the edits at the next UpdatePTSizes.  Trial moves    *)
(* are undone by the inverse move and by taking two off isChanged.         *)
(*                                                                         *)
(* Scores, timing and violations are abstracted to the choices they drive: *)
(* which cell is tried, whether a trial is kept, when the best is saved.   *)
(***************************************************************************)
EXTENDS Integers

CONSTANTS
  Cells,       \* instances
  LibCells,    \* library cell names
  NoLib,       \* the null LibCellInfo pointer
  NumVt,       \* number of Vt columns (numVt)
  Rows,        \* Rows[c]: number of size rows in the table of c's footprint
  Table,       \* Table[c][size][vt]: the slot, a library cell or NoLib
  Start,       \* Start[c]: size, vt and type read with the design
  Unmapped,    \* cells of no footprint (main_lib_cell_id = -1)
  Unclocked,   \* flip-flops with no clock pin: getLibCellInfo answers NULL
  DontTouch,   \* cells frozen when the design is read
  Masters,     \* library cells the database has a master for
  MaxStep,     \* largest size step of a trial (MULTI_STEP, FwdFixSlewViolationPost)
  MaxChg,      \* bound on isChanged between two synchronisations
  Configs,     \* the option settings considered
  Rounds,      \* GWTW_MAX, the number of searches
  NoTrial

Vts      == 0 .. NumVt - 1
MoveKind == {"size", "vt"}
Steps    == (-MaxStep .. MaxStep) \ {0}
CELL     == [size: Nat, vt: Nat, type: LibCells, chg: Int, dt: BOOLEAN]
Snapshot == [Cells -> CELL]
Options  == [vtOnly: BOOLEAN, sizeOnly: BOOLEAN, minimum: BOOLEAN,
             gtrIn: BOOLEAN, initPath: BOOLEAN, critNoTouch: BOOLEAN]

ASSUME TableAssumption ==
  /\ NumVt \in Nat \ {0}
  /\ Rows \in [Cells -> Nat]
  /\ NoLib \notin LibCells
  /\ \A c \in Cells \ Unmapped :
       Table[c] \in [0 .. Rows[c] - 1 -> [Vts -> LibCells \cup {NoLib}]]
ASSUME BoundAssumption == MaxStep \in Nat /\ MaxChg \in Nat /\ Rounds \in Nat
ASSUME ConfigAssumption == Configs \subseteq Options

(* getLibCellInfo(main_lib_cell_id, size, vt): the slot, or NULL.          *)
Slot(c, s, v) ==
  IF c \notin Unmapped /\ s \in 0 .. Rows[c] - 1 /\ v \in Vts
  THEN Table[c][s][v] ELSE NoLib

(* getLibCellInfo(cell): as above, but NULL for a flip-flop with no clock. *)
LibOf(c, k) == IF c \in Unclocked THEN NoLib ELSE Slot(c, k.size, k.vt)

(* What the design reader leaves: the slot of a cell the sizer can look up *)
(* holds the cell's own master, and the database has that master.          *)
ASSUME StartAssumption ==
  /\ Start \in [Cells -> [size: Nat, vt: Nat, type: LibCells]]
  /\ \A c \in Cells : /\ Start[c].type \in Masters
                      /\ Slot(c, Start[c].size, Start[c].vt) \in {NoLib, Start[c].type}
  /\ Unmapped \subseteq DontTouch
  /\ DontTouch \subseteq Cells

VARIABLES
  opts,       \* the options of the command file
  phase,      \* where main() is
  round,      \* searches started (GWTWIter)
  cells,      \* g_cells until the search, then the search's own copy
  caps,       \* the library cell whose input capacitances the pins hold
  db,         \* the master of each OpenDB instance
  best,       \* best_cells_poweropt
  bestLocal,  \* best_cells_local
  saved,      \* best_score_local < best_score
  sizeFile,   \* the <design>.size file: a master, or NoLib for no line
  trial       \* the trial move under evaluation, with the cell it replaced

vars == <<opts, phase, round, cells, caps, db, best, bestLocal, saved, sizeFile, trial>>

-----------------------------------------------------------------------------
(* Moves: pure functions from a CELL to the CELL after the call.           *)

Cell(s, v, t, n, d) == [size |-> s, vt |-> v, type |-> t, chg |-> n, dt |-> d]

(* The assignments every successful move makes.                            *)
Put(k, s, v, lib) == Cell(s, v, lib, k.chg + 1, k.dt)

(* cell_resize clamps with a comparison of an int with a size_t: a negative *)
(* row counts as a huge one, so both ends clamp to the last row.           *)
ClampRow(c, s) == IF s \in 0 .. Rows[c] - 1 THEN s ELSE Rows[c] - 1

(* cell_resize(cell, step)                                                 *)
Resized(c, k, step) ==
  LET s     == ClampRow(c, k.size + step)
      lib   == Slot(c, s, k.vt)
      fails == \/ opts.vtOnly
               \/ LibOf(c, k) = NoLib
               \/ step > 0 /\ k.size = Rows[c] - 1
               \/ step < 0 /\ k.size = 0
               \/ s = k.size
               \/ lib = NoLib
  IN  IF fails THEN k ELSE Put(k, s, k.vt, lib)

(* cell_retype(cell, dir): no clamping, a column outside the table fails.  *)
Retyped(c, k, dir) ==
  LET lib   == Slot(c, k.size, k.vt + dir)
      fails == opts.sizeOnly \/ LibOf(c, k) = NoLib \/ lib = NoLib
  IN  IF fails THEN k ELSE Put(k, k.size, k.vt + dir, lib)

Moved(c, k, kind, step) ==
  IF kind = "size" THEN Resized(c, k, step) ELSE Retyped(c, k, step)

(* Mutant: a moved cell's pins keep their capacitances.                    *)
CapsAfter_Kept(c, old, k) == caps[c]

(* The capacitances of c's input pins after k replaced the old record.     *)
CapsAfter(c, old, k) == IF k = old THEN caps[c] ELSE k.type

-----------------------------------------------------------------------------
(* UpdatePTSizes: push every marked cell to the database.  A name with no  *)
(* master is replaced by the instance's current one; size and vt stay.     *)

(* Mutant: dont-touch cells are pushed too.                                *)
Dirty_Frozen(c, k) == LibOf(c, k) # NoLib /\ k.chg # 0

Dirty(c, k) == LibOf(c, k) # NoLib /\ ~k.dt /\ k.chg # 0

SyncedCell(c, k, d) ==
  IF Dirty(c, k)
  THEN Cell(k.size, k.vt, IF k.type \in Masters THEN k.type ELSE d, 0, k.dt)
  ELSE k

SyncedMaster(c, k, d) == IF Dirty(c, k) /\ k.type \in Masters THEN k.type ELSE d

Synced(cs, d)   == [c \in Cells |-> SyncedCell(c, cs[c], d[c])]
SyncedDb(cs, d) == [c \in Cells |-> SyncedMaster(c, cs[c], d[c])]

(* SizeOut: one line for each cell the tables know, with the slot's name.  *)
SizeOut(cs) == [c \in Cells |-> LibOf(c, cs[c])]

(* UpdateCapsFromCells                                                     *)
CapsFrom(cs) ==
  [c \in Cells |-> IF LibOf(c, cs[c]) = NoLib THEN caps[c] ELSE LibOf(c, cs[c])]

-----------------------------------------------------------------------------
Init ==
  /\ opts \in Configs
  /\ phase = "load"
  /\ round = 0
  /\ cells = [c \in Cells |-> Cell(Start[c].size, Start[c].vt, Start[c].type,
                                  IF c \in Unmapped THEN 0 ELSE 1, c \in DontTouch)]
  /\ caps = [c \in Cells |-> Start[c].type]
  /\ db = caps
  /\ best = cells
  /\ bestLocal = cells
  /\ saved = FALSE
  /\ sizeFile = [c \in Cells |-> NoLib]
  /\ trial = NoTrial

(* -minimum, at the end of reading the design: every cell that may be      *)
(* touched goes to row 0, in the first column that has a library cell.     *)
Smallest(c, k) ==
  LET found == {v \in Vts : Slot(c, 0, v) # NoLib}
      first == CHOOSE v \in found : \A w \in found : v <= w
  IN  IF k.dt \/ found = {} THEN k
      ELSE Cell(0, first, Slot(c, 0, first), 1, k.dt)

ResetMinimum ==
  /\ phase = "load"
  /\ phase' = "created"
  /\ IF opts.minimum
     THEN /\ cells' = [c \in Cells |-> Smallest(c, cells[c])]
          /\ caps'  = [c \in Cells |-> Smallest(c, cells[c]).type]
     ELSE UNCHANGED <<cells, caps>>
  /\ UNCHANGED <<opts, round, db, best, bestLocal, saved, sizeFile, trial>>

(* -gtr_input: one line of the size file, naming a library cell of the     *)
(* cell's footprint.  The type is replaced first; the lookup that follows  *)
(* still uses the old row and column, so they stay.                        *)
Footprint(c) == {Slot(c, s, v) : s \in 0 .. Rows[c] - 1, v \in Vts} \ {NoLib}

SizeInit(c, type) ==
  /\ phase = "created" /\ opts.gtrIn
  /\ cells[c].chg < MaxChg
  /\ cells' = [cells EXCEPT ![c] = Cell(@.size, @.vt, type, @.chg + 1, @.dt)]
  /\ UNCHANGED <<opts, phase, round, caps, db, best, bestLocal, saved, sizeFile, trial>>

(* The launcher: synchronise if the options changed cells, clear every     *)
(* mark, take the result as the best so far.                               *)
Launch ==
  /\ phase = "created"
  /\ phase' = "ready"
  /\ LET sync  == opts.minimum \/ opts.gtrIn
         after == IF sync THEN Synced(cells, db) ELSE cells
     IN  /\ cells' = [c \in Cells |-> [after[c] EXCEPT !.chg = 0]]
         /\ db' = IF sync THEN SyncedDb(cells, db) ELSE db
  /\ best' = cells'
  /\ bestLocal' = cells'
  /\ UNCHANGED <<opts, round, caps, saved, sizeFile, trial>>

(* Post_PowerOpt up to its loop: restart from the best, reload the         *)
(* capacitances, correlate (which synchronises), write the size file.      *)
StartSearch ==
  /\ phase = "ready" /\ round < Rounds
  /\ phase' = "search"
  /\ round' = round + 1
  /\ cells' = Synced(best, db)
  /\ db' = SyncedDb(best, db)
  /\ caps' = CapsFrom(best)
  /\ bestLocal' = best
  /\ saved' = FALSE
  /\ sizeFile' = SizeOut(cells')
  /\ UNCHANGED <<opts, best, trial>>

Searching  == phase = "search" /\ trial = NoTrial
Movable(c) == ~cells[c].dt /\ LibOf(c, cells[c]) # NoLib /\ cells[c].chg < MaxChg

(* Mutant: correlating before the trial under evaluation is decided.       *)
Correlate_DuringTrial ==
  /\ phase = "search"
  /\ cells' = Synced(cells, db)
  /\ db' = SyncedDb(cells, db)
  /\ UNCHANGED <<opts, phase, round, caps, best, bestLocal, saved, sizeFile, trial>>

(* CorrelatePT starts with UpdatePTSizes.                                  *)
Correlate ==
  /\ Searching
  /\ cells' = Synced(cells, db)
  /\ db' = SyncedDb(cells, db)
  /\ UNCHANGED <<opts, phase, round, caps, best, bestLocal, saved, sizeFile, trial>>

(* A move made for good without a trial: FwdFixCapViolation,               *)
(* BwdFixCapViolation, and the choice FwdFixSlewViolation applies after    *)
(* its two estimates.                                                      *)
Repair(c, kind, step) ==
  /\ Searching /\ Movable(c)
  /\ step \in {-1, 1}
  /\ LET k == Moved(c, cells[c], kind, step)
     IN  /\ cells' = [cells EXCEPT ![c] = k]
         /\ caps' = [caps EXCEPT ![c] = CapsAfter(c, cells[c], k)]
  /\ UNCHANGED <<opts, phase, round, db, best, bestLocal, saved, sizeFile, trial>>

(* Mutant: targets are not tested.                                         *)
InTable_Untested(c, kind, step) == TRUE

(* isSizable / isSwappable, tested when the target list is built.          *)
InTable(c, kind, step) ==
  IF kind = "size" THEN cells[c].size + step \in 0 .. Rows[c] - 1
                   ELSE cells[c].vt + step \in Vts

(* A trial: move the cell, retime its cone, look at the result.            *)
TryMove(c, kind, step) ==
  /\ Searching /\ Movable(c)
  /\ step \in {-1, 1} \/ InTable(c, kind, step)
  /\ LET k == Moved(c, cells[c], kind, step)
     IN  /\ cells' = [cells EXCEPT ![c] = k]
         /\ caps' = [caps EXCEPT ![c] = CapsAfter(c, cells[c], k)]
         /\ trial' = [cell |-> c, kind |-> kind, step |-> step,
                      moved |-> k # cells[c], org |-> cells[c], cap |-> caps[c]]
  /\ UNCHANGED <<opts, phase, round, db, best, bestLocal, saved, sizeFile>>

(* Attack counts a failed move as accepted too.                            *)
AcceptTrial ==
  /\ trial # NoTrial
  /\ trial' = NoTrial
  /\ UNCHANGED <<opts, phase, round, cells, caps, db, best, bestLocal, saved, sizeFile>>

(* restore && change: the inverse move, then isChanged -= 2.               *)
RestoreTrial ==
  /\ trial # NoTrial /\ trial.moved
  /\ trial' = NoTrial
  /\ LET c == trial.cell
         k == Moved(c, cells[c], trial.kind, -trial.step)
     IN  /\ cells' = [cells EXCEPT ![c] = [k EXCEPT !.chg = @ - 2]]
         /\ caps' = [caps EXCEPT ![c] = CapsAfter(c, cells[c], k)]
  /\ UNCHANGED <<opts, phase, round, db, best, bestLocal, saved, sizeFile>>

(* InitWNSPath over the cells P of the worst paths: each goes back to the  *)
(* master it was read with (InitSize leaves the pin capacitances), and is  *)
(* frozen with -crit_cell_no_touch; if any changed, correlate.             *)
Initialised(c, k) ==
  IF k.type = Start[c].type THEN k
  ELSE Cell(Start[c].size, Start[c].vt, Start[c].type, k.chg + 1, k.dt)

InitWNSPath(P) ==
  /\ Searching /\ opts.initPath
  /\ \A c \in P : cells[c].chg < MaxChg
  /\ LET reset == [c \in Cells |->
                     IF c \in P THEN [Initialised(c, cells[c]) EXCEPT
                                        !.dt = @ \/ opts.critNoTouch]
                     ELSE cells[c]]
         some  == \E c \in P : cells[c].type # Start[c].type
     IN  /\ cells' = IF some THEN Synced(reset, db) ELSE reset
         /\ db' = IF some THEN SyncedDb(reset, db) ELSE db
  /\ UNCHANGED <<opts, phase, round, caps, best, bestLocal, saved, sizeFile, trial>>

(* score < best_score_local: write the size file, copy the cells.          *)
SaveBest ==
  /\ Searching
  /\ bestLocal' = cells
  /\ saved' = TRUE
  /\ sizeFile' = SizeOut(cells)
  /\ UNCHANGED <<opts, phase, round, cells, caps, db, best, trial>>

(* The end of Post_PowerOpt: an improved local best becomes the best; the  *)
(* size file written here is that of the cells the search ended with.      *)
EndSearch ==
  /\ Searching
  /\ phase' = "ready"
  /\ IF saved THEN best' = bestLocal /\ sizeFile' = SizeOut(cells)
              ELSE UNCHANGED <<best, sizeFile>>
  /\ UNCHANGED <<opts, round, cells, caps, db, bestLocal, saved, trial>>

(* Mutant: the size file of the cells the last search ended with.          *)
WriteSizes_Last ==
  /\ phase = "ready" /\ round = Rounds
  /\ phase' = "written"
  /\ sizeFile' = SizeOut(cells)
  /\ UNCHANGED <<opts, round, cells, caps, db, best, bestLocal, saved, trial>>

(* The launcher's last act: the size file of the best solution.            *)
WriteSizes ==
  /\ phase = "ready" /\ round = Rounds
  /\ phase' = "written"
  /\ sizeFile' = SizeOut(best)
  /\ UNCHANGED <<opts, round, cells, caps, db, best, bestLocal, saved, trial>>

(* FinalReport: swap every instance whose master is not the best one, mark *)
(* all of them; without a SPEF file, reload the cells and synchronise.     *)
Reported(c, d) ==
  IF LibOf(c, best[c]) # NoLib /\ ~best[c].dt /\ best[c].type \in Masters
  THEN best[c].type ELSE d
Marked(c) ==
  IF LibOf(c, best[c]) # NoLib /\ ~best[c].dt THEN [best[c] EXCEPT !.chg = 1] ELSE best[c]

FinalReport(spef) ==
  /\ phase = "written"
  /\ phase' = "final"
  /\ best' = [c \in Cells |-> Marked(c)]
  /\ LET swapped == [c \in Cells |-> Reported(c, db[c])]
     IN  IF spef THEN db' = swapped /\ UNCHANGED <<cells, caps>>
         ELSE /\ cells' = Synced(best', swapped)
              /\ db' = SyncedDb(best', swapped)
              /\ caps' = CapsFrom(cells')
  /\ UNCHANGED <<opts, round, bestLocal, saved, sizeFile, trial>>

Next ==
  \/ ResetMinimum
  \/ \E c \in Cells : \E type \in Footprint(c) : SizeInit(c, type)
  \/ Launch
  \/ StartSearch
  \/ Correlate
  \/ \E c \in Cells, kind \in MoveKind, step \in Steps :
       Repair(c, kind, step) \/ TryMove(c, kind, step)
  \/ AcceptTrial
  \/ RestoreTrial
  \/ \E P \in SUBSET Cells : InitWNSPath(P)
  \/ SaveBest
  \/ EndSearch
  \/ WriteSizes
  \/ \E spef \in BOOLEAN : FinalReport(spef)

Spec == Init /\ [][Next]_vars

-----------------------------------------------------------------------------
(* The types of the variables: CELL, dbInst, the pins and the .size file.  *)
TypeOK ==
  /\ opts \in Configs
  /\ phase \in {"load", "created", "ready", "search", "written", "final"}
  /\ round \in 0 .. Rounds
  /\ cells \in Snapshot /\ best \in Snapshot /\ bestLocal \in Snapshot
  /\ caps \in [Cells -> LibCells]
  /\ db \in [Cells -> Masters \cap LibCells]
  /\ saved \in BOOLEAN
  /\ sizeFile \in [Cells -> LibCells \cup {NoLib}]
  /\ \/ trial = NoTrial
     \/ trial \in [cell: Cells, kind: MoveKind, step: Steps, moved: BOOLEAN,
                   org: CELL, cap: LibCells]

(* isChanged is the only thing UpdatePTSizes looks at, so a cell that is   *)
(* not marked must already be in the database: in the first search, an     *)
(* unmarked cell the tables know, free to change, with a name the database *)
(* can resolve, is the instance's master.  Trials and their isChanged -= 2 *)
(* are what endangers it.  (-gtr_input is excluded: SizeInit leaves row    *)
(* and column behind, see the README.)                                     *)
SyncInv ==
  (phase = "search" /\ round = 1 /\ ~opts.gtrIn) =>
    \A c \in Cells :
      (/\ LibOf(c, cells[c]) # NoLib /\ ~cells[c].dt
       /\ cells[c].chg = 0 /\ cells[c].type \in Masters)
        => db[c] = cells[c].type

(* Name, row/column and pin capacitances describe one library cell, for    *)
(* every cell the tables know while a search runs, unless the database     *)
(* lacks the slot's master or InitSize has moved the row without the pins. *)
CoherentCell(c) ==
  LET lib == LibOf(c, cells[c])
  IN  (lib # NoLib /\ lib \in Masters) =>
        /\ cells[c].type = lib
        /\ ~opts.initPath => caps[c] = lib
CoherentInv ==
  (phase = "search" /\ ~opts.gtrIn) => \A c \in Cells : CoherentCell(c)

(* Rejecting a trial (Attack, AttackNew, FwdFixSlewViolation, ...Post)     *)
(* gives back the very cell that was tried: row, column, name, mark and    *)
(* capacitances, if they described one library cell before.                *)
RestoreExact ==
  [][(trial # NoTrial /\ trial.moved /\ trial' = NoTrial /\ cells' # cells) =>
       LET c == trial.cell
           o == trial.org
       IN  /\ cells'[c].size = o.size /\ cells'[c].vt = o.vt /\ cells'[c].chg = o.chg
           /\ o.type = LibOf(c, o) => cells'[c] = o
           /\ trial.cap = LibOf(c, o) => caps'[c] = trial.cap]_vars

(* The database never changes the master of a cell that was read as        *)
(* dont-touch, whatever -minimum, -gtr_input and the search do to its      *)
(* record (sizer.cpp UpdatePTSizes, FinalReport).                          *)
DontTouchKept == \A c \in DontTouch : db[c] = Start[c].type

(* When the program has reported, the .size file names the masters the     *)
(* database holds, for every number of searches, with or without a SPEF    *)
(* file; -gtr_input, cells frozen by InitWNSPath and names without a       *)
(* master are the exceptions (see the README).                             *)
ExportAgrees ==
  (phase = "final" /\ ~opts.gtrIn) =>
    \A c \in Cells :
      (/\ sizeFile[c] \in Masters /\ sizeFile[c] # NoLib
       /\ best[c].dt => c \in DontTouch)
        => sizeFile[c] = db[c]

=============================================================================
