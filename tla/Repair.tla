------------------------------- MODULE Repair -------------------------------
(***************************************************************************)
(* The repairs of one timing recovery on top of the sizer's own timer:     *)
(* FwdFixSlewViolation, FwdFixSlewViolationPost and AttackNew in the first *)
(* iteration; Attack in the last, followed by both slew repairs once more. *)
(* They try a move, look at what OneTimer makes of it, and take it back.   *)
(*                                                                         *)
(* todo holds what the slew repairs have still to look at, one action per  *)
(* item.  One Vt class (a move is a change of row), no clock cells, no     *)
(* hold check, capacitance repair left to FixCap; ALPHA is 0, so power is  *)
(* leakage.  The sensitivities that rank the cells to attack are any       *)
(* numbers: any ranked set may be found, and any of it comes first.        *)
(***************************************************************************)
EXTENDS Timer

CONSTANTS
  Designs,      \* records wires, flops, topo, rtopo of sorted netlists
  Frozen,       \* isDontTouch
  Holes,        \* pairs of a cell and a row of its table without a master
  MaxTran(_),   \* max_tran of a pin
  MaxCap(_),    \* by row
  Leak(_),      \* leakagePower, by row
  MultiStep,    \* MULTI_STEP
  NewRatio, Ratio   \* ATTACK_NEW_RATIO, ATTACK_RATIO

ASSUME RepairAssumption == MultiStep \in Nat \ {0} /\ NewRatio \in Nat /\ Ratio \in Nat

VARIABLES
  stage,    \* "begin", "compare", "slew", "post", "retime", "attack", "turns",
            \* "settle", "end"
  round,    \* time_recovery_iter, counted from 1; 0 before the loop
  closing,  \* the slew repairs run for the second time in the last iteration
  todo,
  change,   \* whether change > 0; the 1000 changes that make the slew repairs
            \* correlate in any iteration are out of reach
  stats,    \* what the last CalcStats found: rows, tns, worst, slew, cap
  targets,  \* records cell, step
  tally,    \* count, update_cnt and 100 times what count may reach
  trial,    \* what the last accepted trial measured, and what its move gave
  beat      \* flips with every step, a turn that changes nothing included
rvars == <<vars, last, steps, beat, t, stage, round, closing, todo, change, stats, targets, tally, trial>>
still == <<vars, last, steps>>

LastRound == 2

-----------------------------------------------------------------------------
(* CalcStats. *)
Plus0(S, f(_)) == MapThenSumSet(f, S)
Worse(x, limit) == Max({0, x - limit})
TranOf(tm, p) == Max({tm.tran[p][e] : e \in Edges})
IsTranVio(tm, p) == TranOf(tm, p) > MaxTran(p)
SlackOf(tm, p) == Min({Slack(tm, p)[e] : e \in Edges})
CellPins(c) == {Out(c)} \cup In(c)
Ends == {p \in Pins : p[2] = PO \/ IsFF(p[2])}

CalcSlackViolation(tm) == Plus0(Ends, LAMBDA p : Worse(0, SlackOf(tm, p)))
CalcSlewViolation(tm) ==
  Plus0(UNION {CellPins(c) : c \in Cells}, LAMBDA p : Worse(TranOf(tm, p), MaxTran(p)))
GetCellCapVio(tm, c) == Worse(tm.tot[c], MaxCap(tm.row[c]))
CalcStats(tm) ==
  [row |-> tm.row, tns |-> CalcSlackViolation(tm),
   worst |-> Min({SlackOf(tm, p) : p \in Ends}), slew |-> CalcSlewViolation(tm),
   cap |-> Plus0(Cells, LAMBDA c : GetCellCapVio(tm, c))]

\* What a trial is judged by: the cell with its drivers, its loads and the
\* other cells of a net.
GetCellTran(tm, c) == Plus0(CellPins(c), LAMBDA p : Worse(TranOf(tm, p), MaxTran(p)))
Around(tm, c, net) ==
  LET trans(S) == Plus0(S \cap Cells, LAMBDA x : GetCellTran(tm, x))
  IN GetCellTran(tm, c) + trans(Fi(c)) + trans(Fo(c)) + trans(Fo(net)) + GetCellCapVio(tm, c)

\* min(GetCellSlack, GetFICellSlack)
NearSlack(tm, c) == Min({SlackOf(tm, Out(x)) : x \in (Fi(c) \cup {c}) \ {0}})

-----------------------------------------------------------------------------
(* Moves. *)
\* The row cell_resize leads to: within the table, and not into a hole.
NextRow(tm, c, step) ==
  LET row == Max({0, Min({tm.row[c] + step, MaxRow})})
  IN IF <<c, row>> \in Holes THEN tm.row[c] ELSE row
IsMax(tm, c) == tm.row[c] = MaxRow

Retiming(tm, c, acc) == OneTimer(tm, c, Indexed(Fi(c)), acc)
Step(tm, c, step, acc) ==
  LET row == NextRow(tm, c, step)
  IN IF row = tm.row[c] THEN tm ELSE Retiming(Placed(tm, c, row), c, acc)

\* LookupDeltaLeak(c, 1): sizing_progression stays where it cannot go.
DeltaLeak(tm, c) == Leak(NextRow(tm, c, 1)) - Leak(tm.row[c])

-----------------------------------------------------------------------------
(* FwdFixSlewViolation. *)
InPins(c) == SetToSortSeq(In(c), LAMBDA p, q : p[1] < q[1])
Sinks(d) == Indexed(Fo(d) \cap Cells)
Item(kind, p, sinkList, turns) == [kind |-> kind, pin |-> p, sinks |-> sinkList, turns |-> turns]

Looks(c) ==
  <<Item("out", Out(c), <<>>, 0)>> \o
  [n \in 1..Len(InPins(c)) |-> Item("in", InPins(c)[n], <<>>, 0)]
PostLooks(c) == [n \in 1..Len(InPins(c)) |-> Item("post", InPins(c)[n], <<>>, 0)]
SlewPass == FlattenSeq([n \in DOMAIN topolist |-> Looks(topolist[n])])
PostPass == FlattenSeq([n \in DOMAIN topolist |-> PostLooks(topolist[n])])

At(kind) == todo # <<>> /\ Head(todo).kind = kind
Then(items) == todo' = items \o Tail(todo)
Working == UNCHANGED <<still, stage, round, closing, stats, targets, tally>>

\* A driver whose output violates: its loads shrink, then it grows.
LookOut ==
  /\ At("out")
  /\ LET p == Head(todo).pin
     IN Then(IF IsTranVio(t, p) THEN <<Item("shrink", p, Sinks(p[1]), 0)>> ELSE <<>>)
  /\ Working /\ UNCHANGED <<t, change, trial>>

\* A load that shrinks for the good of its neighbours stays.
Shrink ==
  /\ At("shrink") /\ Head(todo).sinks # <<>>
  /\ LET p == Head(todo).pin  s == Head(Head(todo).sinks)  more == Tail(Head(todo).sinks) IN
     \E moved \in {IF s \in Frozen THEN t ELSE Step(t, s, -1, FALSE)} :
     \E taken \in {moved.row # t.row /\ Around(moved, s, p[1]) <= Around(t, s, p[1])} :
        /\ t' = IF taken \/ moved.row = t.row THEN moved ELSE Step(moved, s, 1, FALSE)
        /\ change' = (change \/ taken)
        /\ Then(<<Item("shrink", p, IF taken /\ ~IsTranVio(moved, p) THEN <<>> ELSE more, 0)>>)
  /\ Working /\ UNCHANGED trial

ShrinkDone ==
  /\ At("shrink") /\ Head(todo).sinks = <<>>
  /\ Then(<<Item("grow", Head(todo).pin, <<>>, 0)>>)
  /\ Working /\ UNCHANGED <<t, change, trial>>

\* An input pin that violates: its driver grows, in at most six turns.
LookIn ==
  /\ At("in")
  /\ LET p == Head(todo).pin
     IN Then(IF IsTranVio(t, p) /\ p[1] \in Cells \ Frozen
             THEN <<Item("growIn", p, <<>>, 6)>> ELSE <<>>)
  /\ Working /\ UNCHANGED <<t, change, trial>>

\* One turn of either while loop: try the next row, take it back, and go there
\* if the slew gains or costs nothing (0/0 compares as neither).  The move is
\* not asked whether it succeeded.  In the second loop the cost is that of the
\* cell the pin belongs to.
GrowTurn(p, payer, sure, again) ==
  LET d == p[1] IN
  \E up \in {Step(t, d, 1, FALSE)} :
  \E back \in {IF up.row # t.row THEN Step(up, d, -1, FALSE)
               ELSE IF sure THEN Retiming(t, d, FALSE) ELSE t} :
    IF TranOf(up, p) >= TranOf(t, p) /\ DeltaLeak(t, payer) # 0
    THEN t' = back /\ Then(<<>>) /\ UNCHANGED <<change, trial>>
    ELSE /\ t' = Retiming(Placed(back, d, NextRow(back, d, 1)), d, FALSE)
         /\ change' = TRUE
         /\ trial' = IF t'.row # t.row THEN <<TranOf(up, p), TranOf(t', p)>> ELSE trial
         /\ Then(<<again>>)

Grow ==
  /\ At("grow")
  /\ LET p == Head(todo).pin  d == p[1] IN
     IF IsTranVio(t, p) /\ d \notin Frozen /\ ~IsMax(t, d)
     THEN GrowTurn(p, d, FALSE, Head(todo))
     ELSE Then(<<>>) /\ UNCHANGED <<t, change, trial>>
  /\ Working

Spent_Never(item) == item

\* iter++
Spent(item) == [item EXCEPT !.turns = @ - 1]

GrowIn ==
  /\ At("growIn")
  /\ LET p == Head(todo).pin  d == p[1] IN
     IF IsTranVio(t, p) /\ Head(todo).turns > 0 /\ ~IsMax(t, d)
     THEN GrowTurn(p, p[2], TRUE, Spent(Head(todo)))
     ELSE Then(<<>>) /\ UNCHANGED <<t, change, trial>>
  /\ Working

-----------------------------------------------------------------------------
(* FwdFixSlewViolationPost, without its part about output pins, which needs*)
(* post_slew_opt_output: that is false wherever FIX_SLEW_POST is true.     *)
LookPost ==
  /\ At("post")
  /\ LET p == Head(todo).pin
     IN Then(IF IsTranVio(t, p) THEN <<Item("sweep", p, Sinks(p[1]), 0)>> ELSE <<>>)
  /\ Working /\ UNCHANGED <<t, change, trial>>

Tried_Kept(tm, s, step) == Step(tm, s, step, TRUE)

\* A trial of the sweep, taken back.
Tried(tm, s, step) ==
  LET moved == Step(tm, s, step, TRUE)
  IN IF moved.row = tm.row THEN tm ELSE Step(moved, s, -step, TRUE)

\* One row; x holds the design, and the best step so far with its violations.
TryRow(x, s, net, row) ==
  LET step == row - x.tm.row[s]
      sum == Around(Step(x.tm, s, step, TRUE), s, net)
      after == Tried(x.tm, s, step)
  IN IF step = 0 THEN x
     ELSE IF sum < x.sum \/ x.step = 0 THEN [tm |-> after, sum |-> sum, step |-> step]
     ELSE [x EXCEPT !.tm = after]

Swept(tm, s, net) ==
  LET tried[n \in 0..MaxRow + 1] ==
        IF n = 0 THEN [tm |-> tm, sum |-> 0, step |-> 0] ELSE TryRow(tried[n - 1], s, net, n - 1)
  IN tried[MaxRow + 1]

\* All rows of a cell on the pin's net are tried; the first of the best is
\* taken if it lessens what is violated around the cell.
Sweep ==
  /\ At("sweep") /\ Head(todo).sinks # <<>>
  /\ LET p == Head(todo).pin  s == Head(Head(todo).sinks)
     IN \E swept \in {Swept(t, s, p[1])} :
        /\ IF s \notin Frozen /\ swept.step # 0 /\ swept.sum < Around(t, s, p[1])
           THEN /\ t' = Step(swept.tm, s, swept.step, TRUE)
                /\ change' = TRUE
                /\ trial' = <<swept.sum, Around(t', s, p[1])>>
           ELSE /\ t' = IF s \in Frozen THEN t ELSE swept.tm
                /\ UNCHANGED <<change, trial>>
        /\ Then(<<Item("sweep", p, Tail(Head(todo).sinks), 0)>>)
  /\ Working

SweepDone ==
  /\ At("sweep") /\ Head(todo).sinks = <<>>
  /\ Then(<<>>) /\ Working /\ UNCHANGED <<t, change, trial>>

PassDone ==
  /\ todo = <<>> /\ stage \in {"slew", "post"}
  /\ IF stage = "slew" THEN stage' = "post" /\ todo' = PostPass ELSE stage' = "retime" /\ UNCHANGED todo
  /\ UNCHANGED <<still, t, round, closing, change, stats, targets, tally, trial>>

-----------------------------------------------------------------------------
(* Timing after the slew repairs, and the score that follows.              *)
Measured(tm) == t' = tm /\ stats' = CalcStats(tm)

RetimeSlew ==
  /\ stage = "retime"
  /\ Measured(IF closing /\ change THEN CorrelatePT(CallTimer(t)) ELSE CallTimer(t))
  /\ stage' = IF closing THEN "end" ELSE "attack"
  /\ UNCHANGED <<still, round, closing, todo, change, targets, tally, trial>>

\* The entries calcCellBestEntry may give: a cell in a hole's stead has no
\* sensitivity.
Entries(tm, c) ==
  {[cell |-> c, step |-> k] : k \in {k \in 1..MultiStep :
     tm.row[c] + k <= MaxRow /\ <<c, tm.row[c] + k>> \notin Holes}}

\* What may be attacked: at most one entry per cell, as only the row moves.
Ranked(tm) ==
  LET late == {c \in Cells \ (Frozen \cup flops) : SlackOf(tm, Out(c)) < 0 /\ ~IsMax(tm, c)}
  IN {found \in SUBSET UNION {Entries(tm, c) : c \in late} :
        \A x, y \in found : x.cell = y.cell => x = y}

\* AttackNew and Attack up to their loops.  Entries of equal rank are dropped.
AttackBegin ==
  /\ stage = "attack"
  /\ \E found \in Ranked(t) :
       /\ targets' = found
       /\ IF found = {} THEN stage' = "settle" /\ UNCHANGED <<t, stats, tally>>
          ELSE /\ stage' = "turns"
               /\ IF round = 1 THEN Measured(CallTimer(t)) ELSE UNCHANGED <<t, stats>>
               /\ tally' = [count |-> 0, update |-> 0,
                            limit |-> IF round = 1 THEN N * NewRatio ELSE Cardinality(found) * Ratio]
  /\ UNCHANGED <<still, round, closing, todo, change, trial>>

\* AttackNew times everything again after a tenth of the cells moved; Attack
\* only with -corr_pt.
Stale == round = 1 /\ tally.update * 10 > N

\* A move is taken back if it costs the slack near the cell.
Judged(tm, moved, x) ==
  LET c == x.cell
      restore == NearSlack(tm, c) > NearSlack(moved, c) /\ NearSlack(moved, c) < 0
  IN [taken |-> ~restore, tm |-> IF restore THEN Step(moved, c, -x.step, FALSE) ELSE moved]
Attempt(tm, x) ==
  Judged(tm, Retiming(Placed(tm, x.cell, NextRow(tm, x.cell, x.step)), x.cell, FALSE), x)

Accepted_Free(x) == change

\* swap_cnt++
Accepted(x) == TRUE

\* AttackNew ranks an accepted cell anew.
Again(tm, x) == IF round = 1 THEN {{}} \cup {{y} : y \in Entries(tm, x.cell)} ELSE {{}}

\* A turn of either loop.
AttackTurn ==
  /\ stage = "turns"
  /\ \E x \in targets : \E base \in {IF Stale THEN CallTimer(t) ELSE t} :
       LET found == IF Stale THEN CalcStats(base) ELSE stats
           counted == IF Stale THEN [tally EXCEPT !.update = 0] ELSE tally
           met == found.tns = 0 \/ found.worst >= 0
       IN /\ stats' = found
          /\ \/ /\ met \/ NearSlack(base, x.cell) > 0
                /\ targets' = IF met THEN {} ELSE targets \ {x}
                /\ t' = base /\ tally' = counted /\ UNCHANGED change
             \/ /\ ~met /\ NearSlack(base, x.cell) <= 0
                /\ \E try \in {Attempt(base, x)} :
                   /\ t' = try.tm
                   /\ \/ /\ ~try.taken
                         /\ targets' = targets \ {x} /\ tally' = counted /\ UNCHANGED change
                      \/ /\ try.taken /\ change' = Accepted(x)
                         /\ tally' = [counted EXCEPT !.count = @ + 1, !.update = @ + 1]
                         /\ \E again \in Again(try.tm, x) :
                              targets' = IF tally'.count * 100 > tally.limit THEN {}
                                         ELSE (targets \ {x}) \cup again
  /\ UNCHANGED <<still, stage, round, closing, todo, trial>>

AttackDone ==
  /\ stage = "turns" /\ targets = {}
  /\ stage' = "settle"
  /\ UNCHANGED <<still, t, round, closing, todo, change, stats, targets, tally, trial>>

\* Without any change nothing is timed or scored again.
Settle ==
  /\ stage = "settle"
  /\ IF change THEN Measured(CorrelatePT(CallTimer(t))) ELSE UNCHANGED <<t, stats>>
  /\ stage' = "compare"
  /\ UNCHANGED <<still, round, closing, todo, change, targets, tally, trial>>

\* The score is compared with the best, and the loop goes on or is left: after
\* an iteration that changed nothing, or when nothing violates.  (The other way
\* out, over prev_best_score, is never taken: PowerOpt.)  The last iteration
\* repairs the slews once more.
NextRound ==
  /\ stage = "compare"
  /\ LET violated == stats.slew # 0 \/ stats.tns # 0 \/ stats.cap # 0
         leave == ~violated \/ (round > 0 /\ ~change)
     IN \/ /\ round = LastRound /\ closing' = TRUE
           /\ stage' = "slew" /\ UNCHANGED round
        \/ /\ round < LastRound /\ ~leave /\ round' = round + 1
           /\ stage' = IF stats.slew # 0 THEN "slew" ELSE "attack"
           /\ UNCHANGED closing
        \/ /\ round < LastRound /\ leave
           /\ stage' = "end" /\ UNCHANGED <<round, closing>>
  /\ change' = FALSE
  /\ todo' = IF stage' = "slew" THEN SlewPass ELSE <<>>
  /\ UNCHANGED <<still, t, stats, targets, tally, trial>>

-----------------------------------------------------------------------------
(* The cells in any rows, as the capacitance repair leaves them; not timed. *)
Untimed(row) ==
  [row |-> row, gb |-> Band, tot |-> [d \in Drivers |-> Load(row, d)],
   wire |-> [d \in Drivers |-> 0],
   tran |-> [p \in AllPins |-> Const(0)], tofs |-> NoOffsets,
   dly |-> [p \in Pins |-> Const(0)], ck |-> [c \in Cells |-> Const(0)],
   aat |-> NoOffsets, rat |-> NoOffsets, sofs |-> NoOffsets]

RepairInit ==
  /\ \E x \in Designs :
       /\ wires = x.wires /\ flops = x.flops /\ topolist = x.topo /\ rtopolist = x.rtopo
  /\ sinks = Cells /\ queue = <<>> /\ cnt = <<>> /\ check = {} /\ pc = "done"
  /\ \E row \in [Cells -> 0..MaxRow] :
       (\A c \in Cells : <<c, row[c]>> \notin Holes) /\ t = Untimed(row)
  /\ last = <<"timer">> /\ steps = 0 /\ stats = <<>> /\ stage = "begin" /\ todo = <<>>
  /\ round = 0 /\ closing = FALSE /\ change = FALSE /\ targets = {}
  /\ tally = [count |-> 0, update |-> 0, limit |-> 0] /\ trial = <<0, 0>> /\ beat = 0

\* The design is timed and scored before the loop.
Begin ==
  /\ stage = "begin"
  /\ Measured(CorrelatePT(CallTimer(t)))
  /\ stage' = "compare"
  /\ UNCHANGED <<still, round, closing, todo, change, targets, tally, trial>>

Beat == stage # "end" /\ beat' = 1 - beat

Repairs ==
  \/ Begin \/ LookOut \/ Shrink \/ ShrinkDone \/ Grow \/ LookIn \/ GrowIn
  \/ LookPost \/ Sweep \/ SweepDone \/ PassDone
  \/ RetimeSlew \/ AttackBegin \/ AttackTurn \/ AttackDone \/ Settle \/ NextRound

RepairNext == Beat /\ Repairs

\* The program runs until the recovery ends.
RepairSpec == RepairInit /\ [][RepairNext]_rvars /\ WF_beat(Beat)

-----------------------------------------------------------------------------
(* A move that is made because its trial promised something keeps the      *)
(* promise: the slew at the pin, or the violations around the cell, are    *)
(* those the trial measured, although the trial was timed incrementally,   *)
(* taken back the same way, and the move timed a third time.  (Below a     *)
(* hole nothing moves: the stale slew is measured, and the cell retimed.)  *)
TrialsTell == trial[1] = trial[2]

(* Whenever the recovery compares the score with the best - before its     *)
(* iterations, after the slew repairs of one ("attack"), after its attack  *)
(* and before the slew repairs that close the last one ("compare"), after  *)
(* these ("end") - the cells are the ones the score was computed from: no  *)
(* repair moves a cell and reports no change.  (Without -compare_tns.)     *)
ScoreCurrent == stage \in {"compare", "attack", "end"} => stats.row = t.row

(* The growing loop over an output pin never ends below a hole: the move   *)
(* does nothing, and its impact of 0/0 compares as not zero.               *)
Hung ==
  /\ At("grow")
  /\ LET d == Head(todo).pin[1]
     IN IsTranVio(t, Head(todo).pin) /\ d \notin Frozen /\ <<d, t.row[d] + 1>> \in Holes

(* A recovery ends, or hangs in that one loop: loads that shrink and       *)
(* drivers that grow do not chase each other.                              *)
RepairsEnd == <>(stage = "end" \/ Hung)
=============================================================================
