------------------------------- MODULE FixCap -------------------------------
(***************************************************************************)
(* The repair of capacitance violations: FwdFixCapViolation shrinks the    *)
(* loads of an overloaded driver on the way from the inputs to the         *)
(* outputs, BwdFixCapViolation then grows the drivers on the way back.     *)
(* Post_PowerOpt always calls them in this order, for view 0.              *)
(*                                                                         *)
(* FIXDRV_VT_SWAP is false and nothing sets it, so no move changes the Vt  *)
(* column: a cell is its row.  Capacitances are small integers; cap_margin *)
(* is part of MaxCap, the load of a primary output part of NetCap; a limit *)
(* that CalcCapViolation has not looked up yet is a large MaxCap.  Slack   *)
(* is what the timer says, anything: each look at a net sees some set of   *)
(* calm (not failing) cells.                                               *)
(***************************************************************************)
EXTENDS Integers, Sequences, Functions

CONSTANTS
  Cells,
  Flops, Frozen, ClockCells, \* isff, isDontTouch, isClockCell
  Topo, RTopo,   \* topolist, rtopolist: sequences of cells
  Outs,          \* the output pins of a cell, in order; each drives one net
  Loads,         \* the input pins on an output pin's net, in order
  Owner,         \* the cell of a pin
  ClockNets,     \* output pins whose net is_clock
  Slots,         \* rows of a cell's table with a master in its column
  LastRow,       \* the last row of a cell's table
  PinCap,        \* capacitance of an input pin, by row of its cell
  MaxCap,        \* maxCapacitance of an output pin, by row of its cell
  NetCap,        \* capacitance of an output pin's wire
  VtOnly         \* the values of -vt_only

OutPins == DOMAIN Loads
InPins == DOMAIN PinCap
Blank == {c \in Cells : Slots[c] = {}}   \* getLibCellInfo gives NULL
Rows(c) == IF c \in Blank THEN {0} ELSE Slots[c]

\* Cells whose capacitances the backward pass answers for.
Growable == Cells \ (Flops \cup Frozen \cup ClockCells \cup Blank)

\* c has an input pin on a net that d drives.
Drives(d, c) ==
  \E n \in 1..Len(Outs[d]) : \E m \in 1..Len(Loads[Outs[d][n]]) :
     Owner[Loads[Outs[d][n]][m]] = c

ASSUME FixCapAssumption ==
  /\ Topo \in Seq(Cells) /\ RTopo \in Seq(Cells)
  /\ Outs \in [Cells -> Seq(OutPins)] /\ Loads \in [OutPins -> Seq(InPins)]
  /\ \A p \in OutPins \cup InPins : Owner[p] \in Cells
  /\ \A o \in OutPins : \E n \in 1..Len(Outs[Owner[o]]) : Outs[Owner[o]][n] = o
  /\ \A c \in Cells : \A n \in 1..Len(Outs[c]) : Owner[Outs[c][n]] = c
  /\ LastRow \in [Cells -> Nat]
  /\ \A c \in Cells : Slots[c] \subseteq 0..LastRow[c]
  /\ \A p \in InPins : \A r \in Rows(Owner[p]) : PinCap[p][r] \in Nat
  /\ \A o \in OutPins : \A r \in Rows(Owner[o]) : MaxCap[o][r] \in Nat
  /\ NetCap \in [OutPins -> Nat]
  /\ VtOnly \subseteq BOOLEAN

(* What SortTopo gives for a netlist without combinational loops: in       *)
(* rtopolist a load comes before its drivers.                              *)
ASSUME OrderAssumption ==
  \A m, n \in 1..Len(RTopo) :
    RTopo[m] \in Growable /\ RTopo[n] \in Growable /\ Drives(RTopo[n], RTopo[m]) => m < n

VARIABLES
  row,      \* c_size of every cell
  tot,      \* totcap of every output pin, as last computed
  vtOnly,   \* VT_ONLY
  pc,       \* which loop runs
  i, k,     \* its counters: cell in the walk, output pin of the cell
  targets,  \* what is left of the target set of this turn
  goal,     \* delta_target
  clean     \* remains = 0, at the end cap_violation = 0
vars == <<row, tot, vtOnly, pc, i, k, targets, goal, clean>>

-----------------------------------------------------------------------------
(* Lookups. *)

\* The row that cell_resize leads to, and that sizing_progression looks at:
\* the current one with -vt_only, at an end of the table, or at a hole.
NextRow(c, step) ==
  IF ~vtOnly /\ row[c] + step \in Slots[c] THEN row[c] + step ELSE row[c]

IsMax(c) == row[c] = LastRow[c]

\* The capacitance an output pin drives, with cells in the given rows.
LoadOf(rows, o) ==
  NetCap[o] + SumFunction([n \in 1..Len(Loads[o]) |->
                             PinCap[Loads[o][n]][rows[Owner[Loads[o][n]]]]])
Load(o) == LoadOf(row, o)
Limit(o) == MaxCap[o][row[Owner[o]]]
Over(o) == Load(o) > Limit(o)

Retimed_Only(c, rows, o) == [tot EXCEPT ![o] = LoadOf(rows, o)]

\* OneTimer of a cell measures the nets at its inputs again, clocks aside,
\* and the loop the one it repairs.
Retimed(c, rows, o) ==
  [q \in OutPins |->
     IF q = o \/ (q \notin ClockNets /\ \E n \in 1..Len(Loads[q]) : Owner[Loads[q][n]] = c)
     THEN LoadOf(rows, q) ELSE tot[q]]

-----------------------------------------------------------------------------
(* The forward pass. *)

\* What the n-th load of o would save in its next smaller row.
Saving(o, n) ==
  LET p == Loads[o][n] c == Owner[p]
  IN PinCap[p][NextRow(c, -1)] - PinCap[p][row[c]]

TargetsOf_AnySaving(o, calm) ==
  {[cell |-> Owner[Loads[o][n]], saving |-> Saving(o, n)] : n \in
     {n \in 1..Len(Loads[o]) : Owner[Loads[o][n]] \in calm /\ Saving(o, n) <= 0}}

\* The target set: calm loads that may shrink and save something.  It is
\* ordered by the saving alone: of equal savings only the first is kept.
TargetsOf(o, calm) ==
  LET cand == {n \in 1..Len(Loads[o]) :
                 /\ Owner[Loads[o][n]] \in calm \ (Flops \cup Frozen \cup Blank)
                 /\ Saving(o, n) < 0}
      kept == {n \in cand : \A m \in cand : m < n => Saving(o, m) # Saving(o, n)}
  IN {[cell |-> Owner[Loads[o][n]], saving |-> Saving(o, n)] : n \in kept}

\* The pin the loops are at.
Cur(walk) == Outs[walk[i]][k]
AtPin(walk, skipped) ==
  i <= Len(walk) /\ walk[i] \notin skipped /\ k <= Len(Outs[walk[i]])

\* The outer loop's step, past a skipped cell or the last pin.
NextCell(walk, skipped) ==
  /\ i <= Len(walk) /\ ~AtPin(walk, skipped)
  /\ i' = i + 1 /\ k' = 1
  /\ UNCHANGED <<row, tot, vtOnly, pc, targets, goal, clean>>

NextPin == k' = k + 1 /\ UNCHANGED <<row, vtOnly, i, targets, goal>>

FwdSkip == pc = "fwd" /\ NextCell(Topo, Blank)

FwdFits ==
  /\ pc = "fwd" /\ AtPin(Topo, Blank)
  /\ Cur(Topo) \in ClockNets \/ ~(tot[Cur(Topo)] > Limit(Cur(Topo)))
  /\ NextPin /\ UNCHANGED <<tot, pc, clean>>

\* A turn of the while loop that finds targets ...
FwdLook ==
  /\ pc = "fwd" /\ AtPin(Topo, Blank)
  /\ LET o == Cur(Topo)
     IN /\ o \notin ClockNets /\ tot[o] > Limit(o)
        /\ \E calm \in SUBSET {Owner[Loads[o][n]] : n \in 1..Len(Loads[o])} :
             targets' = TargetsOf(o, calm)
        /\ targets' # {}
        /\ goal' = tot[o] - Limit(o)
  /\ pc' = "shrink"
  /\ UNCHANGED <<row, tot, vtOnly, i, k, clean>>

\* ... applies them in order, until the sum of their savings is enough ...
Shrink ==
  /\ pc = "shrink"
  /\ \E t \in targets :
       /\ \A u \in targets : t.saving <= u.saving
       /\ row' = [row EXCEPT ![t.cell] = NextRow(t.cell, -1)]
       /\ tot' = Retimed(t.cell, row', Cur(Topo))
       /\ goal' = goal + t.saving
       /\ IF goal' < 0 \/ targets = {t}
          THEN pc' = "fwd" /\ targets' = {}
          ELSE pc' = pc /\ targets' = targets \ {t}
  /\ UNCHANGED <<vtOnly, i, k, clean>>

\* ... and one that finds none, which is the last.
FwdGiveUp ==
  /\ pc = "fwd" /\ AtPin(Topo, Blank)
  /\ LET o == Cur(Topo)
     IN /\ o \notin ClockNets /\ tot[o] > Limit(o)
        /\ \E calm \in SUBSET {Owner[Loads[o][n]] : n \in 1..Len(Loads[o])} :
             TargetsOf(o, calm) = {}
        /\ tot' = [tot EXCEPT ![o] = Load(o)]
        /\ clean' = (clean /\ ~Over(o))
  /\ NextPin /\ UNCHANGED pc

FwdEnd ==
  /\ pc = "fwd" /\ i > Len(Topo)
  /\ pc' = "bwd" /\ i' = 1 /\ k' = 1 /\ clean' = TRUE
  /\ UNCHANGED <<row, tot, vtOnly, targets, goal>>

-----------------------------------------------------------------------------
(* The backward pass. *)

BwdSkip == pc = "bwd" /\ NextCell(RTopo, Cells \ Growable)

BwdClock ==
  /\ pc = "bwd" /\ AtPin(RTopo, Cells \ Growable) /\ Cur(RTopo) \in ClockNets
  /\ NextPin /\ UNCHANGED <<tot, pc, clean>>

BwdMeasure_Cached ==
  /\ pc = "bwd" /\ AtPin(RTopo, Cells \ Growable) /\ Cur(RTopo) \notin ClockNets
  /\ pc' = "grow"
  /\ UNCHANGED <<row, tot, vtOnly, i, k, targets, goal, clean>>

BwdMeasure ==
  /\ pc = "bwd" /\ AtPin(RTopo, Cells \ Growable) /\ Cur(RTopo) \notin ClockNets
  /\ tot' = [tot EXCEPT ![Cur(RTopo)] = Load(Cur(RTopo))]
  /\ pc' = "grow"
  /\ UNCHANGED <<row, vtOnly, i, k, targets, goal, clean>>

\* The move is not asked whether it succeeded.
Grow ==
  /\ pc = "grow" /\ tot[Cur(RTopo)] > Limit(Cur(RTopo)) /\ ~IsMax(RTopo[i])
  /\ row' = [row EXCEPT ![RTopo[i]] = NextRow(RTopo[i], 1)]
  /\ UNCHANGED <<tot, vtOnly, pc, i, k, targets, goal, clean>>

BwdFull ==
  /\ pc = "grow" /\ tot[Cur(RTopo)] > Limit(Cur(RTopo)) /\ IsMax(RTopo[i])
  /\ pc' = "bwd" /\ clean' = FALSE
  /\ NextPin /\ UNCHANGED tot

BwdFits ==
  /\ pc = "grow" /\ ~(tot[Cur(RTopo)] > Limit(Cur(RTopo)))
  /\ pc' = "bwd"
  /\ NextPin /\ UNCHANGED <<tot, clean>>

BwdEnd ==
  /\ pc = "bwd" /\ i > Len(RTopo)
  /\ pc' = "done"
  /\ UNCHANGED <<row, tot, vtOnly, i, k, targets, goal, clean>>

-----------------------------------------------------------------------------
(* The repair runs right after CalcCapViolation measured every pin.        *)
Init ==
  /\ row \in {r \in [Cells -> UNION {Rows(c) : c \in Cells}] : \A c \in Cells : r[c] \in Rows(c)}
  /\ tot = [o \in OutPins |-> LoadOf(row, o)]
  /\ vtOnly \in VtOnly
  /\ pc = "fwd" /\ i = 1 /\ k = 1
  /\ targets = {} /\ goal = 0 /\ clean = TRUE

Next ==
  \/ FwdSkip \/ FwdFits \/ FwdLook \/ Shrink \/ FwdGiveUp \/ FwdEnd
  \/ BwdSkip \/ BwdClock \/ BwdMeasure \/ Grow \/ BwdFull \/ BwdFits \/ BwdEnd

Spec == Init /\ [][Next]_vars
FairSpec == Spec /\ WF_vars(Next)

-----------------------------------------------------------------------------
(* Types; in particular no move leaves a cell in an empty slot.            *)
TypeOK ==
  /\ DOMAIN row = Cells /\ \A c \in Cells : row[c] \in Rows(c)
  /\ tot \in [OutPins -> Nat] /\ vtOnly \in BOOLEAN
  /\ pc \in {"fwd", "shrink", "bwd", "grow", "done"}
  /\ i \in Nat \ {0} /\ k \in Nat \ {0}
  /\ \A t \in targets : t.cell \in Cells /\ t.saving \in Int
  /\ goal \in Int /\ clean \in BOOLEAN

(* While the forward pass runs, every total it will test is the load the   *)
(* cells make now: OneTimer keeps the totals of the nets it does not work  *)
(* on current as well.  The backward pass does not call it and measures    *)
(* each pin when it comes to it.                                           *)
FwdSeesLoads ==
  pc \in {"fwd", "shrink"} => \A o \in OutPins \ ClockNets : tot[o] = Load(o)

(* Pins the backward pass answers for.                                     *)
Answered == {o \in OutPins \ ClockNets :
              \E n \in 1..Len(RTopo) : RTopo[n] \in Growable /\ Owner[o] = RTopo[n]}

(* One backward pass is enough: in the end each pin it answers for drives  *)
(* no more than its limit or belongs to a cell of the last row, although   *)
(* growing a cell loads its drivers; and the total of violations it        *)
(* reports is zero just when there are none.                               *)
BwdSettles ==
  pc = "done" =>
    /\ \A o \in Answered : Over(o) => IsMax(Owner[o])
    /\ clean <=> \A o \in Answered : ~Over(o)

(* The backward pass grows a cell for ever: with -vt_only, or below a hole *)
(* of its table, cell_resize does nothing, and the loop does not look.     *)
Hangs ==
  /\ pc = "grow" /\ tot[Cur(RTopo)] > Limit(Cur(RTopo))
  /\ ~IsMax(RTopo[i]) /\ NextRow(RTopo[i], 1) = row[RTopo[i]]

(* The repair ends, or hangs in that one loop.                             *)
RepairEnds == <>(pc = "done" \/ Hangs)

(* The backward pass fixes the violation by growing cells, as the comment  *)
(* above BwdFixCapViolation says, so it comes to its end.                  *)
BwdEnds == (pc = "bwd") ~> (pc = "done")
=============================================================================
