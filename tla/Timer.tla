-------------------------------- MODULE Timer --------------------------------
(***************************************************************************)
(* The sizer's own timer (timer.cpp): CallTimer times everything along     *)
(* topolist, OneTimer updates what a resized cell disturbs, CorrelatePT    *)
(* fits the result to OpenSTA with offsets.                                *)
(*                                                                         *)
(* t holds what the timer stores, per pin and edge: tran, arrival (aat),   *)
(* required time (rat), arc delays (dly) and offsets.  Slews, delays and   *)
(* wires are read from tables that stay parameters.  Every cell has one    *)
(* output and input pins; one view; no arrival offsets (-corr_aat); a      *)
(* netlist with combinational loops is not timed.                          *)
(***************************************************************************)
EXTENDS Paths

CONSTANTS
  MaxRow,             \* rows of every cell's table: 0..MaxRow
  CapOf(_),           \* input capacitance of a row
  TranTab(_, _, _, _),   \* row, edge, input tran, load
  DelayTab(_, _, _, _),
  SetupTab(_, _),     \* edge, tran of the data pin
  WireTab(_),         \* wire delay at a load
  Inverting(_),       \* timingSense = 'n'
  Period, Far,        \* Far: 9999.99
  Bias(_, _),         \* OpenSTA's tran less ours, per pin and edge
  SlackBias(_, _),
  Band,               \* SetGB: the guard band (slk_gb)
  Margin, MaxVisit,   \* STA_MARGIN, MAX_VISIT
  MaxSteps,           \* bound: moves and timings after the first timing
  TimedWires, TimedFlops  \* bounds: the netlists that are timed

ASSUME TimerAssumption ==
  /\ {MaxRow, Far, Margin, MaxVisit, MaxSteps, TimedWires, TimedFlops} \subseteq Nat
  /\ {Period, Band} \subseteq Int

VARIABLES
  t,       \* the stored timing
  last,    \* what came last: <<"timer">>, <<"corr">>, <<"move", cell, acc>>
  steps
tvars == <<t, last, steps>>

Edges == {"r", "f"}
Other(e) == IF e = "r" THEN "f" ELSE "r"
\* The input edge behind edge e of the output of c.
Src(c, e) == IF Inverting(c) THEN Other(e) ELSE e

OnEdges(v(_)) == [r |-> v("r"), f |-> v("f")]
Const(x) == [r |-> x, f |-> x]
ClockTran == 1
NetCap == 1
IsFF(c) == c \in flops

\* Keys of t: the output pin <<d, 0>> of a driver and the input pins.
Out(d) == <<d, 0>>
AllPins == Pins \cup {Out(d) : d \in Drivers}
On(d) == {<<d, c>> : c \in Fo(d)}      \* the pins a net leads to
In(c) == {<<d, c>> : d \in Fi(c)}

Net(d) == {Out(d)} \cup On(d)

\* The input capacitance of each cell on the net of d, and their sum.
CapsOn(row, d) == [c \in Cells |-> IF c \in Fo(d) THEN Mult(d, c) * CapOf(row[c]) ELSE 0]
Total(f) == MapThenSumSet(LAMBDA x : f[x], Cells)
Load(row, d) == NetCap + (IF PO \in Fo(d) THEN 1 ELSE 0) + Total(CapsOn(row, d))
\* PERI: the wire's delay degrades the slew.
WireTran(tm, d, tran) == OnEdges(LAMBDA e : tran[e] + tm.wire[d])
Sum(a, b) == OnEdges(LAMBDA e : a[e] + b[e])
Less(a, x) == OnEdges(LAMBDA e : a[e] - x)
Lesser(a, b) == OnEdges(LAMBDA e : Min({a[e], b[e]}))

Put(f, S, v(_)) == [p \in DOMAIN f \cup S |-> IF p \in S THEN v(p) ELSE f[p]]

Slack(tm, p) ==
  OnEdges(LAMBDA e : IF tm.sofs[p][e] = Far THEN Far
                   ELSE tm.rat[p][e] - tm.aat[p][e] + tm.sofs[p][e] + tm.gb)

-----------------------------------------------------------------------------
(* The tables. *)
LookupST(tm, c) ==
  OnEdges(LAMBDA e :
     IF IsFF(c) THEN TranTab(tm.row[c], e, ClockTran, tm.tot[c])
     ELSE Max({0} \cup {TranTab(tm.row[c], e, tm.tran[p][Src(c, e)], tm.tot[c]) : p \in In(c)}))

\* The delays of the input pins of c: to its output, or the setup of a flop.
ArcDelay(tm, p) ==
  LET c == p[2] IN
  OnEdges(LAMBDA e :
    IF IsFF(c) THEN SetupTab(e, tm.tran[p][e])
    ELSE DelayTab(tm.row[c], e, tm.tran[p][Src(c, e)], tm.tot[c]))
LookupDT(tm, c) == Put(tm.dly, In(c), LAMBDA p : ArcDelay(tm, p))

ClockToQ(tm, c) == OnEdges(LAMBDA e : DelayTab(tm.row[c], e, ClockTran, tm.tot[c]))

Arrival(tm, c) ==
  OnEdges(LAMBDA e :
     IF IsFF(c) THEN tm.ck[c][e]
     ELSE Max({0} \cup {tm.dly[p][e] + tm.aat[p][Src(c, e)] : p \in In(c)}))

\* The required time at pin p of a cell, from the cell's output.
Required(tm, p) ==
  OnEdges(LAMBDA e :
     IF IsFF(p[2]) THEN Period - tm.dly[p][e]
     ELSE tm.rat[Out(p[2])][Src(p[2], e)] - tm.dly[p][Src(p[2], e)])

\* The required time of a driver, from the pins on its net.
Earliest(tm, d) ==
  OnEdges(LAMBDA e : Min({Far} \cup {tm.rat[p][e] - tm.wire[d] : p \in On(d)}))

-----------------------------------------------------------------------------
(* CallTimer: sweeps along topolist and back along rtopolist, a cell at a  *)
(* time, on what the sweep has stored so far.                              *)
SetOn(f, d, v(_)) == Put(f, On(d), v)

\* CalcTran, for a cell: its output and the pins on its net.
TranStep(tm, tran, c) ==
  LET own == LookupST([tm EXCEPT !.tran = tran], c)
  IN Put(tran, Net(c), LAMBDA p :
           Sum(IF p = Out(c) THEN own ELSE WireTran(tm, c, own), tm.tofs[p]))

\* For the pins on an input's net the offsets of the two edges are swapped.
TranAlong(tm) ==
  LET swapped(p) == OnEdges(LAMBDA e : WireTran(tm, 0, tm.tran[Out(0)])[e]
                                     + tm.tofs[p][Other(e)])
      along[k \in 0..Len(topolist)] ==
        IF k = 0 THEN SetOn(tm.tran, 0, swapped)
        ELSE TranStep(tm, along[k - 1], topolist[k])
  IN along[Len(topolist)]

CalcTran(tm) == [tm EXCEPT !.tran = TranAlong(tm)]

\* No delay depends on another one.
DelayAlong(tm) == Put(tm.dly, UNION {In(c) : c \in Range(topolist)}, LAMBDA p : ArcDelay(tm, p))
ClockAlong(tm) == Put(tm.ck, Range(topolist), LAMBDA c : ClockToQ(tm, c))

CalcDelay(tm) == [tm EXCEPT !.dly = DelayAlong(tm), !.ck = ClockAlong(tm)]

\* CalcSlack.
ArrivalOn(tm, aat, d, a) ==
  Put(aat, Net(d), LAMBDA p : IF p = Out(d) THEN a ELSE Sum(a, Const(tm.wire[d])))
ArrivalStep(tm, aat, c) == ArrivalOn(tm, aat, c, Arrival([tm EXCEPT !.aat = aat], c))

ArrivalAlong(tm) ==
  LET along[k \in 0..Len(topolist)] ==
        IF k = 0 THEN ArrivalOn(tm, [p \in AllPins |-> Const(0)], 0, Const(0))
        ELSE ArrivalStep(tm, along[k - 1], topolist[k])
  IN along[Len(topolist)]

CalcArrival(tm) == [tm EXCEPT !.aat = ArrivalAlong(tm)]

Lower(rat, d, r) == [rat EXCEPT ![Out(d)] = Lesser(@, r)]

\* The output ports, and the drivers of their nets.
AtPorts(tm) ==
  [p \in AllPins |->
     IF p[2] = PO THEN Const(Period)
     ELSE IF p[2] = 0 /\ PO \in Fo(p[1])
          THEN Lesser(Const(Far), Less(Const(Period), tm.wire[p[1]]))
          ELSE Const(Far)]

\* The input pins of a cell, and the drivers of their nets.
Needs(tm, rat, p) == Lesser(Const(Far), Required([tm EXCEPT !.rat = rat], p))

RequiredStep_Last(tm, rat, c) ==
  Put(rat, In(c) \cup {Out(d) : d \in Fi(c)}, LAMBDA p :
    IF p[2] = c THEN Needs(tm, rat, p) ELSE Less(Needs(tm, rat, <<p[1], c>>), tm.wire[p[1]]))

RequiredStep(tm, rat, c) ==
  Put(rat, In(c) \cup {Out(d) : d \in Fi(c)}, LAMBDA p :
    IF p[2] = c THEN Needs(tm, rat, p)
    ELSE Lesser(rat[p], Less(Needs(tm, rat, <<p[1], c>>), tm.wire[p[1]])))

RequiredAlong(tm) ==
  LET along[k \in 0..Len(rtopolist)] ==
        IF k = 0 THEN AtPorts(tm) ELSE RequiredStep(tm, along[k - 1], rtopolist[k])
  IN along[Len(rtopolist)]

CalcRequired(tm) == [tm EXCEPT !.rat = RequiredAlong(tm)]

CalcWire(tm) == [tm EXCEPT !.wire = [d \in Drivers |-> WireTab(Load(tm.row, d))]]

CallTimer(tm) == CalcRequired(CalcArrival(CalcDelay(CalcTran(CalcWire(tm)))))

-----------------------------------------------------------------------------
(* OneTimer.  acc is updatePinAcc: only the post slew repair sets it.      *)
Unbounded == (8 * Far) \div 10         \* 8000 beside 9999.99
Moved(a, b) == \E e \in Edges : a[e] - b[e] > Margin \/ b[e] - a[e] > Margin

Slewed(tm, d) == [tm EXCEPT !.tran[Out(d)] = Sum(LookupST(tm, d), tm.tofs[Out(d)])]
Delayed(tm, d) == [tm EXCEPT !.dly = LookupDT(tm, d), !.ck[d] = ClockToQ(tm, d)]
Arrived(tm, d) == [tm EXCEPT !.aat[Out(d)] = Arrival(tm, d)]
Evaluated(tm, d) == IF d = 0 THEN tm ELSE Arrived(Delayed(Slewed(tm, d), d), d)
Carried(tm, d) ==
  [tm EXCEPT
     !.tran = SetOn(@, d, LAMBDA p : Sum(WireTran(tm, d, tm.tran[Out(d)]), tm.tofs[p])),
     !.aat = SetOn(@, d, LAMBDA p : Sum(tm.aat[Out(d)], Const(tm.wire[d])))]

Retime_KeepRat(tm, d, acc) == Carried(Evaluated(tm, d), d)

\* updatePinTiming of the output of d: its slew, the arc delays and arrival of
\* its cell, and the pins on its net.  Resets the required time.
Retime(tm, d, acc) ==
  Carried(Evaluated(IF acc THEN tm ELSE [tm EXCEPT !.rat[Out(d)] = Const(Far)], d), d)

\* Its result: whether the fan-out has to follow (updatePinFast is never off).
Spreads(old, new, d) ==
  /\ \A e \in Edges : Slack(new, Out(d))[e] <= Unbounded
  /\ \/ Moved(old.tran[Out(d)], new.tran[Out(d)])
     \/ Moved(old.aat[Out(d)], new.aat[Out(d)])

\* Elements of S that list lacks, appended in pin order.
Join(list, S) == list \o SetToSortSeq(S \ Range(list), LAMBDA p, q : p[1] < q[1] \/ (p[1] = q[1] /\ p[2] < q[2]))

\* The k-th output of fw is timed anew: its fan-out follows, or its net ends here.
Follow(s, k, acc) ==
  LET d == s.fw[k][1]
      new == Retime(s.tm, d, acc)
      ends == {p \in On(d) : p[2] = PO \/ IsFF(p[2])}
  IN IF Spreads(s.tm, new, d)
     THEN [tm |-> new, fw |-> Join(s.fw, {Out(p[2]) : p \in On(d) \ ends}),
           bw |-> Join(s.bw, ends)]
     ELSE [s EXCEPT !.tm = new, !.bw = Join(@, On(d))]

\* The list grows while it is walked; only the cell itself may be in it twice.
Forward(tm, first, acc) ==
  LET walked[k \in 0..N + 2] ==
        IF k = 0 THEN [tm |-> tm, fw |-> first, bw |-> <<>>]
        ELSE LET s == walked[k - 1]
             IN IF k > Len(s.fw) THEN s ELSE Follow(s, k, acc)
  IN walked[N + 2]

\* updatePinSlack of pin p and the driver of its net.
Reslack(tm, p) ==
  LET d == p[1] IN
  IF p[2] = PO
  THEN LET at == [tm EXCEPT !.rat[p] = Const(Period)]
       IN [at EXCEPT !.rat = Lower(@, d, Less(Const(Period), tm.wire[d]))]
  ELSE LET at == [tm EXCEPT !.rat[p] = Required(tm, p)]
       IN [at EXCEPT !.rat[Out(d)] = Earliest(at, d)]

Precedes_Falling(old, new, p, visits) ==
  /\ visits <= MaxVisit
  /\ \A e \in Edges : new.rat[p][e] <= Unbounded
  /\ \E e \in Edges : old.rat[Out(p[1])][e] - new.rat[Out(p[1])][e] > Margin

Precedes(old, new, p, visits) ==
  /\ visits <= MaxVisit
  /\ \A e \in Edges : new.rat[p][e] <= Unbounded
  /\ Moved(old.rat[Out(p[1])], new.rat[Out(p[1])])

\* The k-th pin of bw, and the input pins of its driver.
Precede(s, k) ==
  LET p == s.bw[k]
      new == Reslack(s.tm, p)
      visits == Cardinality({j \in 1..k : s.bw[j][1] = p[1]})
      back == IF Precedes(s.tm, new, p, visits) /\ p[1] # 0 /\ ~IsFF(p[1])
              THEN In(p[1]) ELSE {}
  IN [tm |-> new, bw |-> Join(s.bw, back)]

\* No pin is listed twice, and there are no more than (N + 1)^2.
Backward(tm, first) ==
  LET walked[k \in 0..(N + 1) * (N + 1)] ==
        IF k = 0 THEN [tm |-> tm, bw |-> first]
        ELSE LET s == walked[k - 1]
             IN IF k > Len(s.bw) THEN s ELSE Precede(s, k)
  IN walked[(N + 1) * (N + 1)].tm

\* The loads and wires of the drivers of c, once it has another row.
Reload(tm, c) ==
  LET load(d) == Load(tm.row, d)
      other == {d \in Fi(c) : load(d) # tm.tot[d]}
  IN [tm EXCEPT !.tot = Put(@, other, load), !.wire = Put(@, other, LAMBDA d : WireTab(load(d)))]

Backed(fwd) == Backward(fwd.tm, Reverse(fwd.bw))

OneTimer(tm, c, order, acc) ==
  Backed(Forward(Reload(tm, c), [k \in DOMAIN order |-> Out(order[k])] \o <<Out(c)>>, acc))

-----------------------------------------------------------------------------
(* CorrelatePT. *)
NoOffsets == [p \in AllPins |-> Const(0)]

\* OpenSTA's timing of the same cells: ours without offsets, less the bias.
Golden(tm) == CallTimer([tm EXCEPT !.tofs = NoOffsets, !.sofs = NoOffsets, !.gb = 0])
GoldenTran(gold, p) == OnEdges(LAMBDA e : gold.tran[p][e] + Bias(p, e))
GoldenSlack(gold, p) ==
  OnEdges(LAMBDA e : IF gold.rat[p][e] > Unbounded THEN Far
                   ELSE gold.rat[p][e] - gold.aat[p][e] + SlackBias(p, e))

\* The offsets that make the slews on the net of d OpenSTA's, and these slews.
Fit(tm, gold, x, S, d, own) ==
  [tofs |-> Put(x.tofs, S, LAMBDA p : OnEdges(LAMBDA e :
              GoldenTran(gold, p)[e] - (IF p = Out(d) THEN own ELSE WireTran(tm, d, own))[e])),
   tran |-> Put(x.tran, S, LAMBDA p : GoldenTran(gold, p))]
FitStep(tm, gold, x, c) ==
  Fit(tm, gold, x, Net(c), c, LookupST([tm EXCEPT !.tran = x.tran], c))

FitAlong(tm, gold) ==
  LET atInputs == [tofs |-> [tm.tofs EXCEPT ![Out(0)] = Const(0)], tran |-> tm.tran]
      along[k \in 0..Len(topolist)] ==
        IF k = 0 THEN Fit(tm, gold, atInputs, On(0), 0, tm.tran[Out(0)])
        ELSE FitStep(tm, gold, along[k - 1], topolist[k])
  IN along[Len(topolist)]

CalcTranCorr(tm, gold) ==
  LET wired == CalcWire(tm)
      fitted == FitAlong(wired, gold)
  IN [wired EXCEPT !.tofs = fitted.tofs, !.tran = fitted.tran]

CorrPT_Again(tm, gold) ==
  [tm EXCEPT !.sofs = [p \in AllPins |-> OnEdges(LAMBDA e :
     LET target == GoldenSlack(gold, p)[e]
     IN IF target = Far THEN Far ELSE target - Slack(tm, p)[e] + tm.gb)]]

\* CorrPT: the rising edge is fitted twice, the second time to a slack the
\* guard band is no longer in.  (The code gets the raw slack back from the
\* corrected one: another number where the former offset was "none".)
CorrPT(tm, gold) ==
  [tm EXCEPT !.sofs = [p \in AllPins |-> OnEdges(LAMBDA e :
     LET target == GoldenSlack(gold, p)[e]
         raw == tm.rat[p][e] - tm.aat[p][e]
     IN IF target = Far THEN Far
        ELSE target - raw + (IF e = "r" THEN tm.gb ELSE 0))]]

CorrelatePT(tm) ==
  LET gold == Golden(tm)
  IN CorrPT(CalcRequired(CalcArrival(CalcDelay(CalcTranCorr(tm, gold)))), gold)

-----------------------------------------------------------------------------
TimerInit == Init /\ t = <<>> /\ last = <<>> /\ steps = 0

Sorting == Next /\ UNCHANGED tvars

\* Bound: the netlists that are timed.
Small ==
  /\ sinks = Cells /\ Cardinality(flops) <= TimedFlops
  /\ MapThenSumSet(LAMBDA d : FanOut(wires, d), Cells) <= TimedWires
  /\ \A d, c \in Cells : wires[d][c] <= 1

\* The first timing of a design.
StartTimer ==
  /\ pc = "done" /\ t = <<>> /\ LoopFree /\ Small
  /\ LET row == [c \in Cells |-> 0]
     IN t' = CallTimer([row |-> row, gb |-> Band,
               tot |-> [d \in Drivers |-> Load(row, d)],
               wire |-> [d \in Drivers |-> 0],
               tran |-> [p \in AllPins |-> Const(0)], tofs |-> NoOffsets,
               dly |-> [p \in Pins |-> Const(0)], ck |-> [c \in Cells |-> Const(0)],
               aat |-> NoOffsets, rat |-> NoOffsets, sofs |-> NoOffsets])
  /\ last' = <<"timer">> /\ UNCHANGED <<vars, steps>>

Timed == t # <<>> /\ steps < MaxSteps /\ steps' = steps + 1 /\ UNCHANGED vars

Correlate == Timed /\ t' = CorrelatePT(t) /\ last' = <<"corr">>

Retimed == Timed /\ last # <<"timer">> /\ t' = CallTimer(t) /\ last' = <<"timer">>

Placed(tm, c, row) == [tm EXCEPT !.row[c] = row]

\* A move, the cell takes another row and OneTimer follows; or a trial, the
\* move is taken back the same way.
Resize ==
  Timed /\ \E c \in Cells, row \in 0..MaxRow, acc \in BOOLEAN :
    /\ row # t.row[c]
    /\ \E order \in SetToSeqs(Fi(c)) :
         LET moved == OneTimer(Placed(t, c, row), c, order, acc) IN
         \/ t' = moved /\ last' = <<"move", c, acc>>
         \/ /\ steps = 0   \* bound: trials only come first
            /\ t' = OneTimer(Placed(moved, c, t.row[c]), c, order, acc)
            /\ last' = <<"trial", c, acc>>

TimerNext == Sorting \/ StartTimer \/ Correlate \/ Retimed \/ Resize
TimerSpec == TimerInit /\ [][TimerNext]_<<vars, tvars>>

-----------------------------------------------------------------------------
(* The equations a settled timing obeys. *)
SlewHolds(tm, d) ==
  /\ d # 0 => tm.tran[Out(d)] = Sum(LookupST(tm, d), tm.tofs[Out(d)])
  /\ \A p \in On(d) : tm.tran[p] =
       Sum(WireTran(tm, d, IF d = 0 THEN tm.tran[Out(0)] ELSE LookupST(tm, d)), tm.tofs[p])

ArrivalHolds(tm, d) ==
  /\ d # 0 => tm.aat[Out(d)] = IF IsFF(d) THEN ClockToQ(tm, d) ELSE Arrival([tm EXCEPT !.dly = LookupDT(tm, d)], d)
  /\ \A p \in On(d) : tm.aat[p] = Sum(tm.aat[Out(d)], Const(tm.wire[d]))

RequiredHolds(tm, p) ==
  tm.rat[p] = IF p[2] = 0 THEN Earliest(tm, p[1])
              ELSE IF p[2] = PO THEN Const(Period)
              ELSE Required(tm, p)

LoadHolds(tm, d) ==
  tm.tot[d] = Load(tm.row, d) /\ tm.wire[d] = WireTab(tm.tot[d])

Plain == \A p \in DOMAIN t.tofs : t.tofs[p] = Const(0)

\* The cells k steps from S, walking with step; flops are not walked through.
Layers(S, step(_)) ==
  LET layer[k \in 0..N + 1] ==
        IF k = 0 THEN S
        ELSE UNION {step(c) : c \in (IF k = 1 THEN S ELSE layer[k - 1] \ flops) \ {0, PO}}
  IN layer
Levelled(S, step(_)) ==
  LET layer == Layers(S, step)
  IN \A j, k \in 0..N + 1 : j # k => layer[j] \cap layer[k] \subseteq {0, PO}

(* Loads and wire delays are those of the rows the cells have, after any   *)
(* moves; and a full timing (CallTimer) satisfies every equation at once:  *)
(* slews, arrivals and required times are computed in one sweep each, so   *)
(* that nothing is read before it is final.                                *)
FullExact ==
  t # <<>> =>
    /\ \A d \in Drivers : LoadHolds(t, d)
    /\ last = <<"timer">> /\ Plain =>
        /\ \A d \in Drivers : SlewHolds(t, d) /\ ArrivalHolds(t, d)
        /\ \A p \in AllPins :
             IF p[2] \in Cells THEN t.rat[p] = Lesser(Const(Far), Required(t, p))
                               ELSE RequiredHolds(t, p)

(* One move after a full timing: OneTimer leaves the moved cell and its     *)
(* drivers as a full timing would, and every required time consistent, if  *)
(* no cell is met twice walking back from it (a pin is visited once, maybe *)
(* before its last neighbour).  With updatePinAcc all slews and arrivals   *)
(* are then exact too, if no cell is met twice walking forward and the     *)
(* moved cell is not on an input's net, whose driver never moves.          *)
MovedExact ==
  \A c \in Cells, acc \in BOOLEAN :
    last = <<"move", c, acc>> /\ steps = 1 =>
      /\ Levelled({c}, Fi) =>
           /\ \A d \in Fi(c) \cup {c} : SlewHolds(t, d) /\ ArrivalHolds(t, d)
           /\ ~acc => \A p \in AllPins : RequiredHolds(t, p)
      /\ acc /\ 0 \notin Fi(c) /\ Levelled(Fi(c) \cup {c}, Fo) =>
           \A d \in Drivers : SlewHolds(t, d) /\ ArrivalHolds(t, d)

(* A move that is taken back gives the full timing back, so that the next  *)
(* trial starts where this one did: if no driver of the cell is fed by     *)
(* another or by the cell, no cell is met twice walking back and, with     *)
(* updatePinAcc, forward.                                                  *)
UndoneExact ==
  \A c \in Cells, acc \in BOOLEAN :
    /\ last = <<"trial", c, acc>> /\ steps = 1
    /\ Levelled({c}, Fi)
    /\ \A d \in Fi(c) \ {0} : Fi(d) \cap (Fi(c) \cup {c}) = {}
    /\ acc => Levelled(Fi(c) \cup {c}, Fo)
    => t = CallTimer(t)

(* After a correlation every slew is OpenSTA's and every slack OpenSTA's    *)
(* plus the guard band, once or twice: nothing of earlier offsets, of      *)
(* moves or of the order of corrections is left.  A pin stays out of it    *)
(* where OpenSTA has no slack, or where the offset it would take is Far.   *)
Correlated ==
  last = <<"corr">> =>
    LET gold == Golden(t) IN
    \A p \in AllPins \ {Out(0)}, e \in Edges :
      LET slack == Slack(t, p)[e]
          its == GoldenSlack(gold, p)[e]
      IN /\ t.tran[p] = GoldenTran(gold, p)
         /\ IF its = Far \/ t.sofs[p][e] = Far THEN slack = Far
            ELSE slack \in {its + t.gb, its + 2 * t.gb}
=============================================================================
