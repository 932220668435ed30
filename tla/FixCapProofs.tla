---------------------------- MODULE FixCapProofs ----------------------------
(***************************************************************************)
(* What FixCap promises, for every netlist, table and order that satisfy   *)
(* its assumptions.  Of the sum of loads the first two theorems use that   *)
(* it depends on the rows of the cells on the net only, the last one that  *)
(* it is a natural number.                                                 *)
(***************************************************************************)
EXTENDS FixCap, FiniteSetTheorems, TLAPS

(* A larger row drives whatever a smaller one does: what is too much for   *)
(* the larger one is too much for the smaller one.                         *)
LargerDrivesMore ==
  \A o \in OutPins : \A r, s \in Rows(Owner[o]) : \A rows :
    /\ DOMAIN rows = Cells /\ \A c \in Cells : rows[c] \in Rows(c)
    /\ r <= s /\ LoadOf(rows, o) > MaxCap[o][s]
    => LoadOf(rows, o) > MaxCap[o][r]

-----------------------------------------------------------------------------
(* Rows. *)
RowOK == DOMAIN row = Cells /\ \A c \in Cells : row[c] \in Rows(c)

LEMMA RowsAreNat == ASSUME NEW c \in Cells PROVE Rows(c) \subseteq Nat
  BY FixCapAssumption DEF Rows

LEMMA NextRowOK ==
  ASSUME RowOK, NEW c \in Cells, NEW step \in Int
  PROVE  NextRow(c, step) \in Rows(c)
  BY DEF RowOK, NextRow, Rows, Blank

LEMMA NextRowUp ==
  ASSUME RowOK, NEW c \in Cells
  PROVE  row[c] <= NextRow(c, 1)
  <1>1. row[c] \in Nat
    BY RowsAreNat DEF RowOK
  <1> QED BY <1>1 DEF NextRow

(* A load depends on the rows of the cells on the net and on nothing else. *)
LEMMA SameLoad ==
  ASSUME NEW o \in OutPins, NEW old, NEW new,
         \A n \in 1..Len(Loads[o]) : old[Owner[Loads[o][n]]] = new[Owner[Loads[o][n]]]
  PROVE  LoadOf(old, o) = LoadOf(new, o)
  <1>1. [n \in 1..Len(Loads[o]) |-> PinCap[Loads[o][n]][old[Owner[Loads[o][n]]]]]
          = [n \in 1..Len(Loads[o]) |-> PinCap[Loads[o][n]][new[Owner[Loads[o][n]]]]]
    OBVIOUS
  <1> QED BY <1>1 DEF LoadOf

(* Moving one cell leaves the loads of the nets it is not on.              *)
LEMMA OtherLoads ==
  ASSUME NEW o \in OutPins, RowOK, NEW c \in Cells, NEW r,
         \A n \in 1..Len(Loads[o]) : Owner[Loads[o][n]] # c
  PROVE  LoadOf([row EXCEPT ![c] = r], o) = LoadOf(row, o)
  <1> DEFINE new == [row EXCEPT ![c] = r]
  <1>1. \A n \in 1..Len(Loads[o]) : Owner[Loads[o][n]] \in Cells
    BY FixCapAssumption
  <1>2. \A n \in 1..Len(Loads[o]) : row[Owner[Loads[o][n]]] = new[Owner[Loads[o][n]]]
    BY <1>1 DEF RowOK
  <1> HIDE DEF new
  <1>3. LoadOf(row, o) = LoadOf(new, o)
    BY <1>2, SameLoad
  <1> QED BY <1>3 DEF new

-----------------------------------------------------------------------------
(* The forward pass. *)
FwdInv ==
  /\ RowOK
  /\ DOMAIN tot = OutPins
  /\ \A t \in targets : t.cell \in Cells
  /\ i \in Nat \ {0} /\ k \in Nat \ {0}
  /\ FwdSeesLoads

LEMMA TargetsAreCells ==
  ASSUME NEW o \in OutPins, NEW calm, NEW t \in TargetsOf(o, calm)
  PROVE  t.cell \in Cells
  <1>1. \A n \in 1..Len(Loads[o]) : Owner[Loads[o][n]] \in Cells
    BY FixCapAssumption
  <1> QED BY <1>1 DEF TargetsOf

LEMMA CurIsPin ==
  ASSUME NEW walk \in Seq(Cells), NEW skipped, AtPin(walk, skipped),
         i \in Nat \ {0}, k \in Nat \ {0}
  PROVE  /\ walk[i] \in Cells /\ walk[i] \notin skipped
         /\ Cur(walk) \in OutPins /\ Owner[Cur(walk)] = walk[i]
  <1>1. i \in 1..Len(walk) /\ k \in 1..Len(Outs[walk[i]]) /\ walk[i] \in Cells
    <2>1. i \in 1..Len(walk) /\ walk[i] \in Cells
      BY DEF AtPin
    <2>2. Outs[walk[i]] \in Seq(OutPins)
      BY <2>1, FixCapAssumption
    <2> QED BY <2>1, <2>2 DEF AtPin
  <1>2. Outs[walk[i]] \in Seq(OutPins)
    BY <1>1, FixCapAssumption
  <1> QED BY <1>1, <1>2, FixCapAssumption DEF AtPin, Cur

LEMMA InitFwd == Init => FwdInv
  <1> SUFFICES ASSUME Init PROVE FwdInv
    OBVIOUS
  <1>1. RowOK
    BY DEF Init, RowOK
  <1> QED BY <1>1 DEF Init, FwdInv, FwdSeesLoads, Load

(* A cell shrinks and is retimed: totals follow loads.                     *)
LEMMA ShrinkFollows == FwdInv /\ Shrink => FwdInv'
  <1> SUFFICES ASSUME FwdInv, Shrink PROVE FwdInv'
    OBVIOUS
  <1>1. PICK t \in targets :
          /\ row' = [row EXCEPT ![t.cell] = NextRow(t.cell, -1)]
          /\ tot' = Retimed(t.cell, row', Cur(Topo))
          /\ targets' \in {{}, targets \ {t}}
    BY DEF Shrink
  <1>2. t.cell \in Cells
    BY <1>1 DEF FwdInv
  <1>3. RowOK'
    <2>1. NextRow(t.cell, -1) \in Rows(t.cell)
      BY <1>2, NextRowOK DEF FwdInv
    <2> QED BY <1>1, <1>2, <2>1 DEF FwdInv, RowOK
  <1>4. DOMAIN tot' = OutPins
    BY <1>1 DEF Retimed
  <1>5. ASSUME NEW o \in OutPins \ ClockNets PROVE tot'[o] = LoadOf(row', o)
    <2>1. CASE o = Cur(Topo) \/ \E n \in 1..Len(Loads[o]) : Owner[Loads[o][n]] = t.cell
      BY <1>1, <2>1 DEF Retimed
    <2>2. CASE o # Cur(Topo) /\ \A n \in 1..Len(Loads[o]) : Owner[Loads[o][n]] # t.cell
      <3>1. tot'[o] = tot[o]
        BY <1>1, <2>2 DEF Retimed
      <3>2. tot[o] = LoadOf(row, o)
        BY DEF FwdInv, FwdSeesLoads, Shrink, Load
      <3>3. LoadOf([row EXCEPT ![t.cell] = NextRow(t.cell, -1)], o) = LoadOf(row, o)
        BY <1>2, <2>2, OtherLoads DEF FwdInv
      <3> QED BY <1>1, <3>1, <3>2, <3>3
    <2> QED BY <2>1, <2>2
  <1>6. i' = i /\ k' = k
    BY DEF Shrink
  <1>7. \A u \in targets' : u.cell \in Cells
    BY <1>1 DEF FwdInv
  <1> QED BY <1>3, <1>4, <1>5, <1>6, <1>7 DEF FwdInv, FwdSeesLoads, Load

LEMMA LookFollows == FwdInv /\ FwdLook => FwdInv'
  <1> SUFFICES ASSUME FwdInv, FwdLook PROVE FwdInv'
    OBVIOUS
  <1>1. \A t \in targets' : t.cell \in Cells
    <2>1. Cur(Topo) \in OutPins
      BY CurIsPin, FixCapAssumption DEF FwdLook, FwdInv
    <2>2. PICK calm : targets' = TargetsOf(Cur(Topo), calm)
      BY DEF FwdLook
    <2> QED BY <2>1, <2>2, TargetsAreCells
  <1>2. UNCHANGED <<row, tot, i, k>> /\ pc = "fwd"
    BY DEF FwdLook
  <1> QED BY <1>1, <1>2 DEF FwdInv, FwdSeesLoads, Load, RowOK

LEMMA GiveUpFollows == FwdInv /\ FwdGiveUp => FwdInv'
  <1> SUFFICES ASSUME FwdInv, FwdGiveUp PROVE FwdInv'
    OBVIOUS
  <1>1. /\ UNCHANGED <<row, i, targets>> /\ k' = k + 1 /\ pc = "fwd"
        /\ tot' = [tot EXCEPT ![Cur(Topo)] = LoadOf(row, Cur(Topo))]
    BY DEF FwdGiveUp, NextPin, Load
  <1> QED BY <1>1 DEF FwdInv, FwdSeesLoads, Load, RowOK

(* A cell grows; the backward pass promises nothing about totals.          *)
LEMMA GrowFollows == FwdInv /\ Grow => FwdInv'
  <1> SUFFICES ASSUME FwdInv, Grow PROVE FwdInv'
    OBVIOUS
  <1>1. /\ UNCHANGED <<tot, pc, i, k, targets>> /\ pc = "grow"
        /\ row' = [row EXCEPT ![RTopo[i]] = NextRow(RTopo[i], 1)]
    BY DEF Grow
  <1>2. RowOK'
    <2>1. CASE RTopo[i] \in Cells
      <3>1. NextRow(RTopo[i], 1) \in Rows(RTopo[i])
        BY <2>1, NextRowOK DEF FwdInv
      <3> QED BY <1>1, <2>1, <3>1 DEF FwdInv, RowOK
    <2>2. CASE RTopo[i] \notin Cells
      BY <1>1, <2>2 DEF FwdInv, RowOK
    <2> QED BY <2>1, <2>2
  <1> QED BY <1>1, <1>2 DEF FwdInv, FwdSeesLoads

LEMMA NextFwd == FwdInv /\ [Next]_vars => FwdInv'
  <1> SUFFICES ASSUME FwdInv, [Next]_vars PROVE FwdInv'
    OBVIOUS
  <1> USE DEF FwdInv, FwdSeesLoads, Load, RowOK
  <1>1. CASE FwdSkip \/ BwdSkip
    BY <1>1 DEF FwdSkip, BwdSkip, NextCell
  <1>2. CASE FwdFits \/ BwdClock \/ BwdFull \/ BwdFits
    BY <1>2 DEF FwdFits, BwdClock, BwdFull, BwdFits, NextPin
  <1>3. CASE FwdLook
    BY <1>3, LookFollows
  <1>4. CASE Shrink
    BY <1>4, ShrinkFollows
  <1>5. CASE FwdGiveUp
    BY <1>5, GiveUpFollows
  <1>6. CASE FwdEnd \/ BwdEnd
    BY <1>6 DEF FwdEnd, BwdEnd
  <1>7. CASE BwdMeasure
    BY <1>7 DEF BwdMeasure
  <1>8. CASE Grow
    BY <1>8, GrowFollows
  <1>9. CASE UNCHANGED vars
    BY <1>9 DEF vars
  <1> QED BY <1>1, <1>2, <1>3, <1>4, <1>5, <1>6, <1>7, <1>8, <1>9 DEF Next

(* The forward pass always tests the loads of the moment.                  *)
THEOREM TotalsAreCurrent == Spec => []FwdSeesLoads
  <1>1. FwdInv => FwdSeesLoads
    BY DEF FwdInv
  <1> QED BY <1>1, InitFwd, NextFwd, PTL DEF Spec

-----------------------------------------------------------------------------
(* The backward pass.  What it has passed is settled: a pin before the     *)
(* counters fits, or its cell is in the last row; and clean tells which.   *)
Passed(n, m) ==
  /\ n \in 1..Len(RTopo) /\ RTopo[n] \in Growable
  /\ m \in 1..Len(Outs[RTopo[n]]) /\ Outs[RTopo[n]][m] \notin ClockNets
  /\ n < i \/ (n = i /\ m < k)

Fits(n, m) == ~Over(Outs[RTopo[n]][m])

BwdInv ==
  /\ pc \in {"bwd", "grow", "done"} =>
       /\ \A n, m \in Nat : Passed(n, m) => Fits(n, m) \/ IsMax(RTopo[n])
       /\ clean \in BOOLEAN
       /\ clean <=> \A n, m \in Nat : Passed(n, m) => Fits(n, m)
  /\ pc = "grow" =>
       /\ AtPin(RTopo, Cells \ Growable) /\ Cur(RTopo) \notin ClockNets
       /\ tot[Cur(RTopo)] = Load(Cur(RTopo))
  /\ pc = "done" => i > Len(RTopo)

LEMMA InitBwd == Init => BwdInv
  BY DEF Init, BwdInv

(* A pin passed is a pin of its cell.                                      *)
LEMMA PassedPin ==
  ASSUME NEW n, NEW m, Passed(n, m)
  PROVE  /\ RTopo[n] \in Cells /\ Outs[RTopo[n]][m] \in OutPins
         /\ Owner[Outs[RTopo[n]][m]] = RTopo[n]
  <1>1. RTopo[n] \in Cells
    BY DEF Passed, Growable
  <1>2. Outs[RTopo[n]] \in Seq(OutPins)
    BY <1>1, FixCapAssumption
  <1> QED BY <1>1, <1>2, FixCapAssumption DEF Passed

(* Growing the cell at hand disturbs nothing that was passed: no passed    *)
(* pin drives it, and its own limits only rise.                            *)
LEMMA GrowKeeps ==
  ASSUME LargerDrivesMore, FwdInv, BwdInv, Grow, NEW n, NEW m, Passed(n, m)
  PROVE  /\ Fits(n, m) => Fits(n, m)'
         /\ IsMax(RTopo[n]) => IsMax(RTopo[n])' /\ (Fits(n, m)' => Fits(n, m))
  <1> DEFINE c == RTopo[i]
             o == Outs[RTopo[n]][m]
  <1>1. /\ c \in Growable /\ c \in Cells /\ ~IsMax(c) /\ i \in 1..Len(RTopo)
        /\ row' = [row EXCEPT ![c] = NextRow(c, 1)]
    <2>1. AtPin(RTopo, Cells \ Growable) /\ i \in Nat \ {0} /\ k \in Nat \ {0}
      BY DEF Grow, BwdInv, FwdInv
    <2>2. c \in Cells /\ c \notin Cells \ Growable
      BY <2>1, CurIsPin, FixCapAssumption
    <2> QED BY <2>1, <2>2 DEF Grow, AtPin
  <1>2. /\ o \in OutPins /\ Owner[o] = RTopo[n] /\ RTopo[n] \in Growable /\ RTopo[n] \in Cells
        /\ n \in 1..Len(RTopo) /\ n <= i /\ m \in 1..Len(Outs[RTopo[n]])
    BY PassedPin, <1>1 DEF Passed
  <1>3. ~Drives(RTopo[n], c)
    BY <1>1, <1>2, OrderAssumption
  <1>4. \A j \in 1..Len(Loads[o]) : Owner[Loads[o][j]] # c
    BY <1>2, <1>3 DEF Drives
  <1>5. LoadOf(row', o) = LoadOf(row, o)
    BY <1>1, <1>2, <1>4, OtherLoads DEF FwdInv
  <1>6. CASE RTopo[n] # c
    <2>1. row'[RTopo[n]] = row[RTopo[n]]
      BY <1>1, <1>2, <1>6 DEF FwdInv, RowOK
    <2> QED BY <1>2, <1>5, <2>1 DEF Fits, Over, Load, Limit, IsMax
  <1>7. CASE RTopo[n] = c
    <2>1. /\ row'[c] = NextRow(c, 1)
          /\ row[c] \in Rows(c) /\ NextRow(c, 1) \in Rows(c) /\ row[c] <= NextRow(c, 1)
      BY <1>1, NextRowOK, NextRowUp DEF FwdInv, RowOK
    <2>2. Fits(n, m) => ~(LoadOf(row, o) > MaxCap[o][NextRow(c, 1)])
      <3>1. DOMAIN row = Cells /\ \A d \in Cells : row[d] \in Rows(d)
        BY DEF FwdInv, RowOK
      <3>2. LoadOf(row, o) > MaxCap[o][NextRow(c, 1)] => LoadOf(row, o) > MaxCap[o][row[c]]
        BY <1>2, <1>7, <2>1, <3>1 DEF LargerDrivesMore
      <3> QED BY <1>2, <1>7, <3>2 DEF Fits, Over, Load, Limit
    <2> QED BY <1>1, <1>2, <1>5, <1>7, <2>1, <2>2 DEF Fits, Over, Load, Limit
  <1> QED BY <1>6, <1>7

LEMMA GrowSettles == LargerDrivesMore /\ FwdInv /\ BwdInv /\ Grow => BwdInv'
  <1> SUFFICES ASSUME LargerDrivesMore, FwdInv, BwdInv, Grow PROVE BwdInv'
    OBVIOUS
  <1>1. UNCHANGED <<tot, pc, i, k, clean>> /\ pc = "grow"
    BY DEF Grow
  <1>2. \A n, m : Passed(n, m)' <=> Passed(n, m)
    BY <1>1 DEF Passed
  <1>3. \A n, m \in Nat : Passed(n, m) =>
          /\ Fits(n, m) => Fits(n, m)'
          /\ IsMax(RTopo[n]) => IsMax(RTopo[n])' /\ (Fits(n, m)' => Fits(n, m))
    BY GrowKeeps
  <1>4. \A n, m \in Nat : Passed(n, m) => Fits(n, m) \/ IsMax(RTopo[n])
    BY <1>1 DEF BwdInv
  <1>5. \A n, m \in Nat : Passed(n, m) =>
          (Fits(n, m)' <=> Fits(n, m)) /\ (Fits(n, m)' \/ IsMax(RTopo[n])')
    BY <1>3, <1>4
  <1>6. LoadOf(row', Cur(RTopo)) = LoadOf(row, Cur(RTopo))
    <2> DEFINE c == RTopo[i]
    <2>1. AtPin(RTopo, Cells \ Growable) /\ i \in Nat \ {0} /\ k \in Nat \ {0}
      BY <1>1 DEF BwdInv, FwdInv
    <2>2. /\ c \in Cells /\ c \notin Cells \ Growable
          /\ Cur(RTopo) \in OutPins /\ Owner[Cur(RTopo)] = c
      BY <2>1, CurIsPin, FixCapAssumption
    <2>3. i \in 1..Len(RTopo) /\ k \in 1..Len(Outs[c])
      BY <2>1, <2>2, FixCapAssumption DEF AtPin
    <2>4. ~Drives(c, c)
      BY <2>2, <2>3, OrderAssumption
    <2>5. \A j \in 1..Len(Loads[Cur(RTopo)]) : Owner[Loads[Cur(RTopo)][j]] # c
      BY <2>3, <2>4 DEF Drives, Cur
    <2>6. row' = [row EXCEPT ![c] = NextRow(c, 1)]
      BY DEF Grow
    <2> QED BY <2>2, <2>5, <2>6, OtherLoads DEF FwdInv
  <1>7. pc' = "grow" =>
          /\ AtPin(RTopo, Cells \ Growable)' /\ Cur(RTopo)' \notin ClockNets
          /\ tot'[Cur(RTopo)'] = LoadOf(row', Cur(RTopo)')
    BY <1>1, <1>6 DEF BwdInv, AtPin, Cur, Load
  <1> QED BY <1>1, <1>2, <1>5, <1>7 DEF BwdInv, Load

(* Past a pin, what was passed and that pin are what is passed.            *)
LEMMA PinPassed ==
  ASSUME FwdInv, AtPin(RTopo, Cells \ Growable), i' = i, k' = k + 1,
         NEW n \in Nat, NEW m \in Nat
  PROVE  Passed(n, m)' <=>
           Passed(n, m) \/ (n = i /\ m = k /\ Cur(RTopo) \notin ClockNets)
  <1>1. i \in Nat \ {0} /\ k \in Nat \ {0}
    BY DEF FwdInv
  <1>2. RTopo[i] \in Growable /\ i \in 1..Len(RTopo) /\ k \in 1..Len(Outs[RTopo[i]])
    <2>1. RTopo[i] \in Cells /\ RTopo[i] \notin Cells \ Growable
      BY <1>1, CurIsPin, FixCapAssumption
    <2>2. Outs[RTopo[i]] \in Seq(OutPins)
      BY <2>1, FixCapAssumption
    <2> QED BY <1>1, <2>1, <2>2, FixCapAssumption DEF AtPin
  <1> QED BY <1>1, <1>2 DEF Passed, Cur

(* Past a cell, nothing is passed that was not.                            *)
LEMMA CellPassed ==
  ASSUME FwdInv, ~AtPin(RTopo, Cells \ Growable), i' = i + 1, k' = 1,
         NEW n \in Nat, NEW m \in Nat
  PROVE  Passed(n, m)' <=> Passed(n, m)
  <1>1. i \in Nat \ {0} /\ k \in Nat \ {0}
    BY DEF FwdInv
  <1>2. ASSUME n = i, RTopo[n] \in Growable, n \in 1..Len(RTopo), m \in 1..Len(Outs[RTopo[n]])
        PROVE  m < k
    <2>1. Outs[RTopo[n]] \in Seq(OutPins)
      BY <1>2, FixCapAssumption DEF Growable
    <2>2. ~(k <= Len(Outs[RTopo[n]]))
      BY <1>1, <1>2, FixCapAssumption DEF AtPin
    <2> QED BY <1>1, <1>2, <2>1, <2>2
  <1> QED BY <1>1, <1>2 DEF Passed

LEMMA NextBwd == LargerDrivesMore /\ FwdInv /\ BwdInv /\ [Next]_vars => BwdInv'
  <1> SUFFICES ASSUME LargerDrivesMore, FwdInv, BwdInv, [Next]_vars PROVE BwdInv'
    OBVIOUS
  <1>1. CASE FwdSkip \/ FwdFits \/ FwdLook \/ Shrink \/ FwdGiveUp
    <2>1. pc' \in {"fwd", "shrink"}
      BY <1>1 DEF FwdSkip, FwdFits, FwdLook, Shrink, FwdGiveUp, NextCell
    <2> QED BY <2>1 DEF BwdInv
  <1>2. CASE FwdEnd
    BY <1>2 DEF FwdEnd, BwdInv, Passed
  <1>3. CASE BwdSkip
    <2>1. /\ UNCHANGED <<row, pc, clean>> /\ pc = "bwd" /\ i' = i + 1 /\ k' = 1
          /\ ~AtPin(RTopo, Cells \ Growable)
      BY <1>3 DEF BwdSkip, NextCell
    <2>2. \A n, m \in Nat : Passed(n, m)' <=> Passed(n, m)
      BY <2>1, CellPassed
    <2> QED BY <2>1, <2>2 DEF BwdInv, Fits, Over, Load, Limit, IsMax
  <1>4. CASE BwdClock
    <2>1. /\ UNCHANGED <<row, pc, clean, i>> /\ pc = "bwd" /\ k' = k + 1
          /\ AtPin(RTopo, Cells \ Growable) /\ Cur(RTopo) \in ClockNets
      BY <1>4 DEF BwdClock, NextPin
    <2>2. \A n, m \in Nat : Passed(n, m)' <=> Passed(n, m)
      BY <2>1, PinPassed
    <2> QED BY <2>1, <2>2 DEF BwdInv, Fits, Over, Load, Limit, IsMax
  <1>5. CASE BwdMeasure
    <2>1. /\ UNCHANGED <<row, i, k, clean>> /\ pc = "bwd" /\ pc' = "grow"
          /\ AtPin(RTopo, Cells \ Growable) /\ Cur(RTopo) \notin ClockNets
          /\ tot' = [tot EXCEPT ![Cur(RTopo)] = Load(Cur(RTopo))]
      BY <1>5 DEF BwdMeasure
    <2>2. Cur(RTopo) \in OutPins
      BY <2>1, CurIsPin, FixCapAssumption DEF FwdInv
    <2>3. tot'[Cur(RTopo)] = Load(Cur(RTopo))
      BY <2>1, <2>2 DEF FwdInv
    <2> QED BY <2>1, <2>3 DEF BwdInv, Passed, Fits, Over, Load, Limit, IsMax, AtPin, Cur
  <1>6. CASE Grow
    BY <1>6, GrowSettles
  <1>7. CASE BwdFull \/ BwdFits
    <2>1. /\ UNCHANGED <<row, i>> /\ pc = "grow" /\ pc' = "bwd" /\ k' = k + 1
          /\ AtPin(RTopo, Cells \ Growable) /\ Cur(RTopo) \notin ClockNets
          /\ tot[Cur(RTopo)] = Load(Cur(RTopo))
      BY <1>7 DEF BwdFull, BwdFits, NextPin, BwdInv
    <2>2. \A n, m \in Nat : Passed(n, m)' <=> Passed(n, m) \/ (n = i /\ m = k)
      BY <2>1, PinPassed
    <2>3. \A n, m \in Nat : Fits(n, m)' <=> Fits(n, m)
      BY <2>1 DEF Fits, Over, Load, Limit
    <2>4. \A n : IsMax(n)' <=> IsMax(n)
      BY <2>1 DEF IsMax
    <2>5. i \in Nat /\ k \in Nat
      BY DEF FwdInv
    <2>6. CASE BwdFits
      <3>1. Fits(i, k) /\ clean' = clean
        BY <2>1, <2>6 DEF BwdFits, Fits, Over, Cur
      <3> QED BY <2>1, <2>2, <2>3, <2>4, <2>5, <3>1 DEF BwdInv
    <2>7. CASE BwdFull
      <3>1. IsMax(RTopo[i]) /\ tot[Cur(RTopo)] > Limit(Cur(RTopo)) /\ clean' = FALSE
        BY <2>7 DEF BwdFull
      <3>2. ~Fits(i, k)
        BY <2>1, <3>1 DEF Fits, Over, Cur
      <3> QED BY <2>1, <2>2, <2>3, <2>4, <2>5, <3>1, <3>2 DEF BwdInv
    <2> QED BY <1>7, <2>6, <2>7
  <1>8. CASE BwdEnd
    BY <1>8 DEF BwdEnd, BwdInv, Passed, Fits, Over, Load, Limit, IsMax
  <1>9. CASE UNCHANGED vars
    BY <1>9 DEF vars, BwdInv, Passed, Fits, Over, Load, Limit, IsMax, AtPin, Cur
  <1> QED BY <1>1, <1>2, <1>3, <1>4, <1>5, <1>6, <1>7, <1>8, <1>9 DEF Next

(* One backward pass is enough, where larger rows drive more and loads     *)
(* come before their drivers.                                              *)
THEOREM OnePassSettles ==
  ASSUME LargerDrivesMore
  PROVE  Spec => []BwdSettles
  <1>1. FwdInv /\ BwdInv => BwdSettles
    <2> SUFFICES ASSUME FwdInv, BwdInv, pc = "done"
                 PROVE  /\ \A o \in Answered : Over(o) => IsMax(Owner[o])
                        /\ clean <=> \A o \in Answered : ~Over(o)
      BY DEF BwdSettles
    <2>1. i > Len(RTopo) /\ i \in Nat
      BY DEF BwdInv, FwdInv
    <2>2. ASSUME NEW o \in Answered
          PROVE  \E n, m \in Nat : Passed(n, m) /\ RTopo[n] = Owner[o] /\ Outs[RTopo[n]][m] = o
      <3>1. PICK n \in 1..Len(RTopo) : RTopo[n] \in Growable /\ Owner[o] = RTopo[n]
        BY DEF Answered
      <3>2. PICK m \in 1..Len(Outs[Owner[o]]) : Outs[Owner[o]][m] = o
        BY FixCapAssumption DEF Answered
      <3>3. Passed(n, m)
        BY <2>1, <3>1, <3>2, FixCapAssumption DEF Passed, Answered
      <3>4. n \in Nat /\ m \in Nat
        OBVIOUS
      <3> QED BY <3>1, <3>2, <3>3, <3>4
    <2>3. ASSUME NEW n \in Nat, NEW m \in Nat, Passed(n, m)
          PROVE  Outs[RTopo[n]][m] \in Answered
      BY <2>3, PassedPin DEF Passed, Answered
    <2> QED BY <2>2, <2>3 DEF BwdInv, Fits
  <1> QED BY <1>1, InitFwd, NextFwd, InitBwd, NextBwd, PTL DEF Spec

-----------------------------------------------------------------------------
(* Types.  That a load is a natural number is an induction over the sum,   *)
(* by the smallest set of pins without one.                                *)

LEMMA LeastOf ==
  ASSUME NEW M \in SUBSET Nat, M # {}
  PROVE  \E m \in M : \A n \in M : m <= n
  <1>1. PICK m \in M : \A n \in M : ~ (<<n, m>> \in OpToRel(<, Nat))
    BY WFMin, NatLessThanWellFounded
  <1>2. \A n \in M : ~(n < m)
    BY <1>1 DEF OpToRel
  <1> QED BY <1>2

Any(S) == CHOOSE x \in S : TRUE

Sums(sum, f, dom) ==
  sum = [S \in dom |-> IF S = {} THEN 0 ELSE f[Any(S)] + sum[S \ {Any(S)}]]

Few(D, n) == {S \in SUBSET D : Cardinality(S) <= n}

LEMMA PartOf ==
  ASSUME NEW D, IsFiniteSet(D), NEW S \in SUBSET D
  PROVE  /\ Cardinality(S) \in Nat /\ Cardinality(S) <= Cardinality(D)
         /\ S # {} => /\ Any(S) \in S /\ S \ {Any(S)} \in SUBSET D
                      /\ Cardinality(S \ {Any(S)}) = Cardinality(S) - 1
                      /\ Cardinality(S) - 1 \in Nat
  <1>1. IsFiniteSet(S) /\ Cardinality(S) <= Cardinality(D)
    BY FS_Subset
  <1>2. Cardinality(S) \in Nat
    BY <1>1, FS_CardinalityType
  <1>3. ASSUME S # {}
        PROVE  /\ Any(S) \in S /\ S \ {Any(S)} \in SUBSET D
               /\ Cardinality(S \ {Any(S)}) = Cardinality(S) - 1
               /\ Cardinality(S) - 1 \in Nat
    <2>1. Any(S) \in S
      BY <1>3 DEF Any
    <2>2. Cardinality(S \ {Any(S)}) = Cardinality(S) - 1 /\ IsFiniteSet(S \ {Any(S)})
      BY <1>1, <2>1, FS_RemoveElement
    <2>3. Cardinality(S \ {Any(S)}) \in Nat
      BY <2>2, FS_CardinalityType
    <2> QED BY <2>1, <2>2, <2>3
  <1> QED BY <1>1, <1>2, <1>3

LEMMA SumsExist ==
  ASSUME NEW D, IsFiniteSet(D), NEW f
  PROVE  \E sum : Sums(sum, f, SUBSET D)
  <1> DEFINE Bad == {n \in Nat : ~ \E sum : Sums(sum, f, Few(D, n))}
  <1>0. Cardinality(D) \in Nat
    BY PartOf
  <1>1. CASE Bad = {}
    <2>1. PICK sum : Sums(sum, f, Few(D, Cardinality(D)))
      BY <1>0, <1>1
    <2>2. Few(D, Cardinality(D)) = SUBSET D
      BY PartOf DEF Few
    <2> QED BY <2>1, <2>2
  <1>2. CASE Bad # {}
    <2>1. PICK n \in Bad : \A m \in Bad : n <= m
      BY <1>2, LeastOf
    <2>2. \A S \in Few(D, n) : S # {} => /\ Any(S) \in S /\ S \ {Any(S)} \in SUBSET D
                                         /\ Cardinality(S \ {Any(S)}) = Cardinality(S) - 1
                                         /\ Cardinality(S) - 1 \in Nat
                                         /\ Cardinality(S) \in Nat /\ Cardinality(S) <= n
      BY PartOf DEF Few
    <2>3. CASE n = 0
      <3>1. \A S \in Few(D, n) : S = {}
        <4>1. ASSUME NEW S \in Few(D, n), S # {} PROVE FALSE
          <5>1. Cardinality(S) - 1 \in Nat /\ Cardinality(S) \in Nat /\ Cardinality(S) <= n
            BY <2>2, <4>1
          <5> QED BY <2>3, <5>1
        <4> QED BY <4>1
      <3>2. Sums([S \in Few(D, n) |-> 0], f, Few(D, n))
        BY <3>1 DEF Sums
      <3> QED BY <3>2
    <2>4. CASE n # 0
      <3>1. n - 1 \in Nat /\ n - 1 \notin Bad
        BY <2>1, <2>4
      <3>2. PICK g : Sums(g, f, Few(D, n - 1))
        BY <3>1
      <3> DEFINE h == [S \in Few(D, n) |-> IF S = {} THEN 0 ELSE f[Any(S)] + g[S \ {Any(S)}]]
      <3>3. \A S \in Few(D, n - 1) : S \in Few(D, n) /\ h[S] = g[S]
        <4>1. ASSUME NEW S \in Few(D, n - 1) PROVE S \in Few(D, n)
          <5>1. n \in Nat /\ S \in SUBSET D /\ Cardinality(S) <= n - 1
            BY <2>1 DEF Few
          <5>2. Cardinality(S) \in Nat
            BY <5>1, PartOf
          <5>3. Cardinality(S) <= n
            <6> HIDE DEF Bad
            <6> QED BY <3>1, <5>1, <5>2
          <5> QED BY <5>1, <5>3 DEF Few
        <4>2. \A S \in Few(D, n - 1) :
                g[S] = IF S = {} THEN 0 ELSE f[Any(S)] + g[S \ {Any(S)}]
          BY <3>2 DEF Sums
        <4> QED BY <4>1, <4>2
      <3>4. \A S \in Few(D, n) : S # {} => S \ {Any(S)} \in Few(D, n - 1)
        BY <2>1, <2>2 DEF Few
      <3>5. Sums(h, f, Few(D, n))
        BY <3>3, <3>4 DEF Sums
      <3> QED BY <3>5
    <2> QED BY <2>3, <2>4
  <1> QED BY <1>1, <1>2

LEMMA SumIsNat ==
  ASSUME NEW D, IsFiniteSet(D), NEW f, \A x \in D : f[x] \in Nat
  PROVE  SumFunctionOnSet(f, D) \in Nat
  <1> DEFINE E(sum) == sum = [S \in SUBSET D |->
                         IF S = {} THEN 0 ELSE f[Any(S)] + sum[S \ {Any(S)}]]
             total == CHOOSE sum : E(sum)
  <1>1. SumFunctionOnSet(f, D) = total[D]
    BY DEF SumFunctionOnSet, FoldFunctionOnSet, MapThenFoldSet, Any
  <1>2. E(total)
    <2>1. \A sum : E(sum) <=> Sums(sum, f, SUBSET D)
      BY DEF Sums
    <2>2. \E sum : E(sum)
      <3> HIDE DEF E
      <3> QED BY <2>1, SumsExist
    <2> HIDE DEF E
    <2> QED BY <2>2
  <1> DEFINE Bad == {n \in Nat : \E S \in SUBSET D : Cardinality(S) = n /\ total[S] \notin Nat}
  <1>3. \A S \in SUBSET D : total[S] = IF S = {} THEN 0 ELSE f[Any(S)] + total[S \ {Any(S)}]
    <2> HIDE DEF total
    <2> QED BY <1>2
  <1> HIDE DEF total
  <1>4. Bad = {}
    <2> SUFFICES ASSUME Bad # {} PROVE FALSE
      OBVIOUS
    <2>1. PICK n \in Bad : \A m \in Bad : n <= m
      <3>1. Bad \in SUBSET Nat
        OBVIOUS
      <3> HIDE DEF Bad
      <3> QED BY <3>1, LeastOf
    <2>2. PICK S \in SUBSET D : Cardinality(S) = n /\ total[S] \notin Nat
      BY <2>1
    <2>3. S # {}
      <3>1. {} \in SUBSET D
        OBVIOUS
      <3>2. total[{}] = 0
        BY <1>3, <3>1
      <3> QED BY <2>2, <3>2
    <2> DEFINE T == S \ {Any(S)}
    <2>4. Any(S) \in D /\ T \in SUBSET D /\ Cardinality(T) = n - 1 /\ n - 1 \in Nat
      BY <2>2, <2>3, PartOf
    <2>5. total[T] \in Nat
      <3>1. n - 1 \notin Bad
        <4>1. n \in Nat
          BY <2>1
        <4> HIDE DEF Bad
        <4> QED BY <2>1, <2>4, <4>1
      <3> QED BY <2>4, <3>1
    <2>6. total[S] = f[Any(S)] + total[T] /\ f[Any(S)] \in Nat
      BY <1>3, <2>3, <2>4
    <2> QED BY <2>2, <2>5, <2>6
  <1>5. Cardinality(D) \in Nat /\ D \in SUBSET D
    BY PartOf
  <1> QED BY <1>1, <1>4, <1>5

LEMMA LoadIsNat ==
  ASSUME NEW o \in OutPins, NEW rows, \A c \in Cells : rows[c] \in Rows(c)
  PROVE  LoadOf(rows, o) \in Nat
  <1> DEFINE D == 1 .. Len(Loads[o])
             f == [n \in D |-> PinCap[Loads[o][n]][rows[Owner[Loads[o][n]]]]]
  <1>1. Loads[o] \in Seq(InPins) /\ Len(Loads[o]) \in Nat
    BY FixCapAssumption
  <1>2. \A n \in D : Loads[o][n] \in InPins /\ Owner[Loads[o][n]] \in Cells
    BY <1>1, FixCapAssumption
  <1>3. \A n \in D : f[n] \in Nat
    BY <1>2, FixCapAssumption
  <1>4. IsFiniteSet(D)
    BY <1>1, FS_Interval
  <1>5. SumFunction(f) = SumFunctionOnSet(f, D)
    BY DEF SumFunction
  <1>6. SumFunction(f) \in Nat
    <2> HIDE DEF f, D
    <2> QED BY <1>3, <1>4, <1>5, SumIsNat
  <1>7. LoadOf(rows, o) = NetCap[o] + SumFunction(f)
    BY DEF LoadOf
  <1>8. NetCap[o] \in Nat
    BY FixCapAssumption
  <1> HIDE DEF f
  <1> QED BY <1>6, <1>7, <1>8

LEMMA TotalsAreNat ==
  ASSUME TypeOK, NEW c \in Cells, NEW rows, \A b \in Cells : rows[b] \in Rows(b), NEW o
  PROVE  Retimed(c, rows, o) \in [OutPins -> Nat]
  BY LoadIsNat DEF TypeOK, Retimed

LEMMA SavingIsInt ==
  ASSUME RowOK, NEW o \in OutPins, NEW calm, NEW u \in TargetsOf(o, calm)
  PROVE  u.cell \in Cells /\ u.saving \in Int
  <1>1. PICK n \in 1 .. Len(Loads[o]) : u = [cell |-> Owner[Loads[o][n]], saving |-> Saving(o, n)]
    BY DEF TargetsOf
  <1> DEFINE p == Loads[o][n]
  <1>2. p \in InPins /\ Owner[p] \in Cells
    BY FixCapAssumption
  <1>3. NextRow(Owner[p], -1) \in Rows(Owner[p]) /\ row[Owner[p]] \in Rows(Owner[p])
    BY <1>2, NextRowOK DEF RowOK
  <1>4. PinCap[p][NextRow(Owner[p], -1)] \in Nat /\ PinCap[p][row[Owner[p]]] \in Nat
    BY <1>2, <1>3, FixCapAssumption
  <1>5. Saving(o, n) \in Int
    BY <1>4 DEF Saving
  <1> QED BY <1>1, <1>2, <1>5

LEMMA TypeStep == TypeOK /\ [Next]_vars => TypeOK'
  <1> SUFFICES ASSUME TypeOK, [Next]_vars PROVE TypeOK'
    OBVIOUS
  <1>0. RowOK
    BY DEF TypeOK, RowOK
  <1>1. CASE FwdSkip \/ BwdSkip
    BY <1>1 DEF TypeOK, FwdSkip, BwdSkip, NextCell
  <1>2. CASE FwdFits \/ BwdClock \/ BwdFull \/ BwdFits
    <2>1. /\ k' = k + 1 /\ UNCHANGED <<row, vtOnly, i, targets, goal, tot>>
          /\ pc' \in {pc, "bwd"} /\ clean' \in {clean, FALSE}
      BY <1>2 DEF FwdFits, BwdClock, BwdFull, BwdFits, NextPin
    <2>2. k' \in Nat \ {0}
      BY <2>1 DEF TypeOK
    <2>3. clean' \in BOOLEAN
      BY <2>1 DEF TypeOK
    <2> QED BY <2>1, <2>2, <2>3 DEF TypeOK
  <1>3. CASE FwdLook
    <2> DEFINE o == Cur(Topo)
    <2>1. o \in OutPins /\ Owner[o] \in Cells
      BY <1>3, CurIsPin, FixCapAssumption DEF FwdLook, TypeOK
    <2>2. \A calm : \A u \in TargetsOf(o, calm) : u.cell \in Cells /\ u.saving \in Int
      BY <1>0, <2>1, SavingIsInt
    <2>3. \A u \in targets' : u.cell \in Cells /\ u.saving \in Int
      BY <1>3, <2>2 DEF FwdLook
    <2>4. Limit(o) \in Nat /\ tot[o] \in Nat
      BY <2>1, FixCapAssumption DEF Limit, TypeOK
    <2>5. goal' \in Int
      BY <1>3, <2>4 DEF FwdLook
    <2> QED BY <1>3, <2>3, <2>5 DEF TypeOK, FwdLook
  <1>4. CASE Shrink
    <2>1. PICK u \in targets :
            /\ row' = [row EXCEPT ![u.cell] = NextRow(u.cell, -1)]
            /\ tot' = Retimed(u.cell, row', Cur(Topo))
            /\ goal' = goal + u.saving
            /\ IF goal' < 0 \/ targets = {u}
               THEN pc' = "fwd" /\ targets' = {}
               ELSE pc' = pc /\ targets' = targets \ {u}
      BY <1>4 DEF Shrink
    <2>2. u.cell \in Cells /\ u.saving \in Int /\ goal \in Int
      BY DEF TypeOK
    <2>3. NextRow(u.cell, -1) \in Rows(u.cell)
      BY <1>0, <2>2, NextRowOK
    <2>4. DOMAIN row' = Cells /\ \A c \in Cells : row'[c] \in Rows(c)
      BY <2>1, <2>2, <2>3 DEF TypeOK
    <2>5. tot' \in [OutPins -> Nat]
      BY <2>1, <2>2, <2>4, TotalsAreNat
    <2>6. goal' \in Int
      BY <2>1, <2>2
    <2>7. pc' \in {"fwd", "shrink"} /\ targets' \subseteq targets
      BY <1>4, <2>1 DEF Shrink
    <2> QED BY <1>4, <2>4, <2>5, <2>6, <2>7 DEF TypeOK, Shrink
  <1>5. CASE FwdGiveUp
    <2>1. Cur(Topo) \in OutPins
      BY <1>5, CurIsPin, FixCapAssumption DEF FwdGiveUp, TypeOK
    <2>2. Load(Cur(Topo)) \in Nat
      BY <2>1, LoadIsNat DEF Load, TypeOK
    <2>3. tot' \in [OutPins -> Nat]
      BY <1>5, <2>2 DEF FwdGiveUp, TypeOK
    <2>4. clean' \in BOOLEAN
      BY <1>5 DEF FwdGiveUp, TypeOK
    <2> QED BY <1>5, <2>3, <2>4 DEF TypeOK, FwdGiveUp, NextPin
  <1>6. CASE FwdEnd \/ BwdEnd
    <2>1. CASE FwdEnd
      BY <2>1 DEF TypeOK, FwdEnd
    <2>2. CASE BwdEnd
      BY <2>2 DEF TypeOK, BwdEnd
    <2> QED BY <1>6, <2>1, <2>2
  <1>7. CASE BwdMeasure
    <2>1. Cur(RTopo) \in OutPins
      BY <1>7, CurIsPin, FixCapAssumption DEF BwdMeasure, TypeOK
    <2>2. Load(Cur(RTopo)) \in Nat
      BY <2>1, LoadIsNat DEF Load, TypeOK
    <2> QED BY <1>7, <2>2 DEF TypeOK, BwdMeasure
  <1>8. CASE Grow
    <2>1. ASSUME RTopo[i] \in Cells PROVE NextRow(RTopo[i], 1) \in Rows(RTopo[i])
      BY <1>0, <2>1, NextRowOK
    <2>2. DOMAIN row' = Cells /\ \A c \in Cells : row'[c] \in Rows(c)
      <3>1. row' = [row EXCEPT ![RTopo[i]] = NextRow(RTopo[i], 1)]
        BY <1>8 DEF Grow
      <3> QED BY <2>1, <3>1 DEF TypeOK
    <2> QED BY <1>8, <2>2 DEF TypeOK, Grow
  <1>9. CASE UNCHANGED vars
    BY <1>9 DEF TypeOK, vars
  <1> QED BY <1>1, <1>2, <1>3, <1>4, <1>5, <1>6, <1>7, <1>8, <1>9 DEF Next

(* No move of either pass leaves a cell in an empty slot of its table, and *)
(* all totals stay natural numbers.                                        *)
THEOREM SlotsStayFilled == Spec => []TypeOK
  <1>1. Init => TypeOK
    <2> SUFFICES ASSUME Init PROVE TypeOK
      OBVIOUS
    <2>1. DOMAIN row = Cells /\ \A c \in Cells : row[c] \in Rows(c)
      BY DEF Init
    <2>2. tot \in [OutPins -> Nat]
      BY <2>1, LoadIsNat DEF Init
    <2>3. vtOnly \in BOOLEAN
      BY FixCapAssumption DEF Init
    <2> QED BY <2>1, <2>2, <2>3 DEF Init, TypeOK
  <1> QED BY <1>1, TypeStep, PTL DEF Spec
=============================================================================
