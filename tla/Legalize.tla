------------------------------- MODULE Legalize -------------------------------
(***************************************************************************)
(* Legalization (legalizePlacement, dpLegalizeCore and the two vendored    *)
(* DREAMPlace operators it calls): a legal placement with enough padding   *)
(* stays, every other goes through a greedy distribution over rows, Abacus *)
(* within each row and a padding pass, or is left to OpenROAD's            *)
(* detailed_placement, which is external.                                  *)
(*                                                                         *)
(* Places are in database units, row 0 begins at (0, 0).  All movable      *)
(* cells are one row high and a whole number of sites wide.  Optimal       *)
(* positions within a row are fractions, held in units of 1/Scale.         *)
(***************************************************************************)
EXTENDS Integers, Sequences, FiniteSets, FiniteSetsExt

CONSTANTS
  Cells,           \* the movable cells, numbers
  Sites,           \* of a row of the core
  SiteW, SiteH,
  WidthOf(_),      \* in sites
  Inputs,          \* records segs, fixed, pad, x, y, native: see MCLegalize
  Scale            \* a multiple of every number of cells of a row

Core == Sites * SiteW

ASSUME LegalizeAssumption ==
  /\ {Sites, SiteW, SiteH, Scale} \subseteq Nat \ {0}
  /\ Cells \subseteq Nat \ {0} /\ IsFiniteSet(Cells)
  /\ \A c \in Cells : WidthOf(c) \in Nat \ {0}
  /\ \A n \in 1..Cardinality(Cells) : Scale % n = 0

ASSUME InputAssumption ==
  \A i \in Inputs :
    /\ i.x \in [Cells -> Int] /\ i.y \in [Cells -> Int] /\ i.pad \in Nat
    /\ i.segs # {} /\ IsFiniteSet(i.segs)
    /\ \A s \in i.segs : /\ {s.row, s.x, s.n} \subseteq Nat
                         /\ s.x + s.n * SiteW <= Core
    /\ \A f \in i.fixed : {f.x, f.w, f.lo, f.hi} \subseteq Int

VARIABLES
  in,      \* what legalization was called with
  x, y,    \* where the cells are
  ops,     \* x as Abacus left it
  unplaced,  \* the cells the last greedy pass found no place for
  phase    \* "start", "first", "second", "guard", "abacus", "pad",
           \* "done", "dpl" (left to detailed_placement), "abort"
lvars == <<in, x, y, ops, unplaced, phase>>

NumRows == 1 + Max({s.row : s \in in.segs})
Rows == 0..NumRows - 1
W(c) == WidthOf(c) * SiteW
Span(a, w) == a..a + w - 1

\* The elements of S as before, a set of pairs, orders them.
Ordered(S, before) ==
  [k \in 1..Cardinality(S) |->
     CHOOSE e \in S : Cardinality({d \in S : <<d, e>> \in before}) = k - 1]

\* What the first n steps make of first, one after the other.
Steps(step(_, _), first, n) ==
  LET f[k \in 0..n] == IF k = 0 THEN first ELSE step(f[k - 1], k) IN f

\* Maximal runs of a set of numbers below n, as <<first, one past the last>>.
Runs(S, n) ==
  {p \in (0..n) \X (0..n) :
     p[1] < p[2] /\ p[1]..p[2] - 1 \subseteq S /\ {p[1] - 1, p[2]} \cap S = {}}

SegsAt(r) == {s \in in.segs : s.row = r}

\* What fixed instances and the gaps between row segments cover of a row.
Blocked(r) ==
  LET row == 0..Core - 1
  IN row \cap ((row \ UNION {Span(s.x, s.n * SiteW) : s \in SegsAt(r)})
               \cup UNION {Span(f.x, f.w) : f \in {f \in in.fixed : r \in f.lo..f.hi}})
Obstacles(r) == Runs(Blocked(r), Core)

RowOf(v) == Max({0, Min({NumRows - 1, (2 * v + SiteH) \div (2 * SiteH)})})
InRow(r) == {c \in Cells : RowOf(y[c]) = r}

-----------------------------------------------------------------------------
(* The input check. *)
InputLegal ==
  /\ \A c \in Cells :
       /\ in.x[c] % SiteW = 0 /\ in.y[c] % SiteH = 0
       /\ \E s \in SegsAt(in.y[c] \div SiteH) :
            s.x <= in.x[c] /\ in.x[c] + W(c) <= s.x + s.n * SiteW
       /\ Span(in.x[c], W(c)) \cap Blocked(in.y[c] \div SiteH) = {}
  /\ \A c, d \in Cells : c # d /\ in.y[c] = in.y[d] =>
       Span(in.x[c], W(c)) \cap Span(in.x[d], W(d)) = {}

\* The cells of row r and the runs of its fixed instances, from left to right.
Neighbours(r) ==
  LET fixed == UNION {Span(f.x, f.w) : f \in {f \in in.fixed : r \in f.lo..f.hi}} \cap 0..Core - 1
      all == {[from |-> o[1], to |-> o[2], movable |-> FALSE] : o \in Runs(fixed, Core)}
               \cup {[from |-> in.x[c], to |-> in.x[c] + W(c), movable |-> TRUE] :
                       c \in {c \in Cells : in.y[c] = r * SiteH}}
  IN Ordered(all, {p \in all \X all : p[1].from < p[2].from})

\* Four of five gaps next to a movable cell are as wide as the padding.
PaddingCompliant ==
  LET node(p) == Neighbours(p[1])[p[2]]
      left(p) == Neighbours(p[1])[p[2] - 1]
      pairs == {p \in UNION {{r} \X (2..Len(Neighbours(r))) : r \in Rows} :
                  left(p).movable \/ node(p).movable}
      wide == {p \in pairs : node(p).from - left(p).to >= in.pad * SiteW}
  IN Cardinality(wide) * 5 >= Cardinality(pairs) * 4

\* Not asked for, or rows this legalizer does not take.
Decline ==
  /\ phase = "start"
  /\ ~in.native \/ \E r \in Rows : SegsAt(r) = {}
  /\ phase' = "dpl" /\ UNCHANGED <<in, x, y, ops, unplaced>>

Preserve ==
  /\ phase = "start" /\ in.native /\ \A r \in Rows : SegsAt(r) # {}
  /\ InputLegal /\ PaddingCompliant
  /\ phase' = "done" /\ UNCHANGED <<in, x, y, ops, unplaced>>

Clamp(v, limit) == Max({0, Min({v, limit})})

Begin ==
  /\ phase = "start" /\ in.native /\ \A r \in Rows : SegsAt(r) # {}
  /\ ~(InputLegal /\ PaddingCompliant)
  /\ x' = [c \in Cells |-> Clamp(in.x[c], Core - W(c))]
  /\ y' = [c \in Cells |-> Clamp(in.y[c], (NumRows - 1) * SiteH)]
  /\ phase' = "first" /\ UNCHANGED <<in, ops, unplaced>>

-----------------------------------------------------------------------------
(* greedyLegalizationCPU: twice, the cells from the right and from the     *)
(* left, each into the cheapest blank, a run of free sites, or nowhere.    *)
StartX(c) == Clamp(in.x[c], Core - W(c))
StartY(c) == Clamp(in.y[c], (NumRows - 1) * SiteH)

\* The cells of the greater key first; ties says who is first where keys agree.
Descending(key(_), ties) ==
  Ordered(Cells, {p \in Cells \X Cells :
                    key(p[1]) > key(p[2]) \/ (key(p[1]) = key(p[2]) /\ p \in ties)})

FromRight ==
  Descending(LAMBDA c : 1000 * (2 * StartX(c) + W(c)) + 2 * W(c),
             {p \in Cells \X Cells :
                \/ StartY(p[1]) > StartY(p[2])
                \/ StartY(p[1]) = StartY(p[2]) /\ p[1] > p[2]})

FromLeft ==
  Descending(LAMBDA c : 2 * W(c) - 1000 * (2 * StartX(c) + W(c)),
             {p \in Cells \X Cells :
                \/ StartY(p[1]) < StartY(p[2])
                \/ StartY(p[1]) = StartY(p[2]) /\ p[1] > p[2]})

\* The blanks of row r, once the cells in at are in place.
Blanks(r, at) ==
  LET taken == Blocked(r) \cup UNION {Span(at.x[c], W(c)) : c \in {c \in at.placed : at.y[c] = r * SiteH}}
  IN Runs({s \in 0..Sites - 1 : Span(s * SiteW, SiteW) \cap taken = {}}, Sites)

\* Where a cell of w sites that wants to be at site want goes in a blank: to
\* an end of it if that is near.
Target(want, w, blank) ==
  LET near == Min({16 * w, blank[2] - blank[1]})
  IN IF 4 * want <= 4 * blank[1] + near THEN blank[1]
     ELSE IF 4 * (want + w) >= 4 * blank[2] - near THEN blank[2] - w
     ELSE want

Apart(a, b) == IF a < b THEN b - a ELSE a - b

\* What is offered in row r: its blanks from the left, those that are wide
\* enough, as long as each is cheaper than all before.  Costs are doubled.
Offers(at, c, want, mid, r) ==
  LET w == WidthOf(c)
      wide == {b \in Blanks(r, at) : b[2] - b[1] >= w}
      cost(b) == 2 * SiteW * Apart(Target(want, w, b), want) + Apart(2 * r * SiteH, mid)
      tried == {b \in wide : \A p \in wide : p[1] <= b[1] =>
                  /\ cost(p) < 2 * (Core + NumRows * SiteH)
                  /\ \A q \in wide : q[1] < p[1] => cost(p) < cost(q)}
  IN {[row |-> r, site |-> Target(want, w, b), cost |-> cost(b)] : b \in tried}

\* The cheapest offer, and of those that cost the same the one in the row
\* that comes first: home, home + 1, home - 1, home + 2, ...
Best(offers, home) ==
  LET turn(o) == IF o.row > home THEN 2 * (o.row - home) - 1 ELSE 2 * (home - o.row)
  IN CHOOSE o \in offers : \A p \in offers :
       o.cost < p.cost \/ (o.cost = p.cost /\ turn(o) <= turn(p))

Insert(at, c) ==
  LET want == (StartX(c) + at.x[c]) \div (2 * SiteW)
      mid == StartY(c) + at.y[c]
      offers == UNION {Offers(at, c, want, mid, r) : r \in Rows}
      best == Best(offers, Min({NumRows - 1, mid \div (2 * SiteH)}))
  IN IF offers = {} THEN at
     ELSE [x |-> [at.x EXCEPT ![c] = best.site * SiteW],
           y |-> [at.y EXCEPT ![c] = best.row * SiteH],
           placed |-> at.placed \cup {c}]

Distribute(order) ==
  LET at == Steps(LAMBDA at, k : Insert(at, order[k]), [x |-> x, y |-> y, placed |-> {}],
                  Len(order))[Len(order)]
  IN x' = at.x /\ y' = at.y /\ unplaced' = Cells \ at.placed

GreedyFirst == phase = "first" /\ Distribute(FromRight) /\ phase' = "second" /\ UNCHANGED <<in, ops>>
GreedySecond == phase = "second" /\ Distribute(FromLeft) /\ phase' = "guard" /\ UNCHANGED <<in, ops>>

\* A row with more in it than it is long is left to detailed_placement.
Guard ==
  /\ phase = "guard"
  /\ phase' = IF \E r \in Rows : MapThenSumSet(W, InRow(r)) + Cardinality(Blocked(r)) > Core
              THEN "dpl" ELSE "abacus"
  /\ UNCHANGED <<in, x, y, ops, unplaced>>

-----------------------------------------------------------------------------
(* abacusLegalizationCPU: the cells and obstacles of a row by their        *)
(* centres; cells that would overlap form clusters, which go where the     *)
(* displacement is least between the obstacles around them.                *)
Nodes(r) ==
  LET cells == {[cell |-> c, x |-> x[c], w |-> W(c)] : c \in InRow(r)}
      fixed == {[cell |-> 0, x |-> o[1], w |-> o[2] - o[1]] : o \in Obstacles(r)}
      all == cells \cup fixed
      centre(n) == 2 * n.x + n.w
  IN Ordered(all, {p \in all \X all :
       \/ centre(p[1]) < centre(p[2])
       \/ /\ centre(p[1]) = centre(p[2]) /\ p[1].cell # 0
          /\ p[2].cell = 0 \/ p[1].cell < p[2].cell})

\* A cluster of the nodes first..last, of width w, which are off past its left
\* end, at its best place x within from..to.
Settled(cl, from, to) == [cl EXCEPT !.x = Max({Min({(Scale * cl.q) \div cl.e, to - cl.w}), from})]

MergeCluster(a, b) ==
  [first |-> a.first, last |-> b.last,
   q |-> a.q + b.q - (b.e * a.w) \div Scale, e |-> a.e + b.e, w |-> a.w + b.w,
   off |-> [j \in a.first..b.last |-> IF j < b.first THEN a.off[j] ELSE a.w + b.off[j]],
   x |-> a.x]

\* collapse: the last cluster settles, and takes in the one before it as long
\* as that reaches into it.  In row, cl[k] is the cluster that ended with
\* node k when node k was placed, and at[k] is where node k is now.
TakeIn(nodes, row, cl, from, to) ==
  IF cl.first > 1 /\ row.at[cl.first - 1] + Scale * nodes[cl.first - 1].w > cl.x
  THEN Settled(MergeCluster(row.cl[cl.first - 1], cl), from, to)
  ELSE cl

Collapse(nodes, row, cl, from, to) ==
  Steps(LAMBDA c, k : TakeIn(nodes, row, c, from, to), Settled(cl, from, to),
        cl.first - 1)[cl.first - 1]

\* A turn of the loop of abacusPlaceRowCPU.  Not ok where the assertion in
\* collapse aborts.
PlaceNode(nodes, row, k) ==
  LET n == nodes[k]
      fixed(range) == {j \in range : nodes[j].cell = 0}
      from == Scale * Max({0} \cup {nodes[j].x + nodes[j].w : j \in fixed(1..k - 1)})
      to == Scale * Min({Core} \cup {nodes[j].x : j \in fixed(k + 1..Len(nodes))})
      alone(v) == [first |-> k, last |-> k, q |-> v, e |-> 1, w |-> Scale * n.w,
                   off |-> [j \in k..k |-> 0], x |-> Scale * v]
      cl == IF n.cell = 0 THEN alone(n.x)
            ELSE Collapse(nodes, row, alone(StartX(n.cell)), from, to)
  IN [cl |-> [j \in 1..k |-> IF j = k THEN cl ELSE row.cl[j]],
      at |-> [j \in 1..k |-> IF j < cl.first THEN row.at[j] ELSE cl.x + cl.off[j]],
      ok |-> row.ok /\ (n.cell = 0 \/ cl.x + cl.w <= to)]

PlaceRow(nodes) ==
  Steps(LAMBDA row, k : PlaceNode(nodes, row, k), [cl |-> <<>>, at |-> <<>>, ok |-> TRUE],
        Len(nodes))[Len(nodes)]

\* Where a node ends: a cell moves left to a site, but not into what is
\* before it.
EndOf(n, at, before) ==
  LET v == Max({Min({at, (Core - n.w) * Scale}), before * Scale})
  IN IF n.cell = 0 THEN ((n.x + n.w + SiteW - 1) \div SiteW) * SiteW
     ELSE (v \div (Scale * SiteW)) * SiteW + n.w

Aligned(nodes, at) == Steps(LAMBDA end, k : EndOf(nodes[k], at[k], end), 0, Len(nodes))

AbacusX(c) ==
  LET nodes == Nodes(RowOf(y[c]))
      k == CHOOSE k \in DOMAIN nodes : nodes[k].cell = c
  IN Aligned(nodes, PlaceRow(nodes).at)[k] - W(c)

Abacus ==
  /\ phase = "abacus"
  /\ IF \E r \in Rows : ~PlaceRow(Nodes(r)).ok
     THEN phase' = "abort" /\ UNCHANGED <<x, ops>>
     ELSE ops' = [c \in Cells |-> AbacusX(c)] /\ x' = ops' /\ phase' = "pad"
  /\ UNCHANGED <<in, y, unplaced>>

-----------------------------------------------------------------------------
(* The padding pass. *)
\* Where a cell of width w goes that wants to be at v: past the obstacles.
Past(r, v, w) == Min({u \in v..v + Core : Span(u, w) \cap Blocked(r) = {}})

\* A cell that is not to be further left than from, after those that end at end.
Pushed(r, c, from, end, gap) ==
  LET at == Past(r, Max({from, end}), W(c)) IN [at |-> at, end |-> at + W(c) + gap]

\* The cells of row r from the left, gap apart, none further left than in from.
Shift(order, r, from, gap) ==
  Steps(LAMBDA a, k : Pushed(r, order[k], from[order[k]], a.end, gap),
        [at |-> 0, end |-> 0], Len(order))

Fits(order, shift, k) == \A j \in 1..k : shift[j].at + W(order[j]) <= Core

\* pos with the cells of a shift in it, up to the first that does not fit.
Moved(pos, order, shift) ==
  [c \in Cells |->
     IF \E k \in 1..Len(order) : order[k] = c /\ Fits(order, shift, k)
     THEN shift[CHOOSE k \in 1..Len(order) : order[k] = c].at
     ELSE pos[c]]

Retried_FromHere(order, r, first) == Moved(first, order, Shift(order, r, first, 0))
Retried_Never(order, r, first) == first

\* The second attempt, without padding and from where Abacus left the cells.
Retried(order, r, first) == Moved(first, order, Shift(order, r, ops, 0))

PadRow(r) ==
  LET order == Ordered(InRow(r), {p \in InRow(r) \X InRow(r) : x[p[1]] < x[p[2]]})
      shift == Shift(order, r, x, in.pad * SiteW)
      first == Moved(x, order, shift)
  IN IF Fits(order, shift, Len(order)) THEN first ELSE Retried(order, r, first)

Pad ==
  /\ phase = "pad"
  /\ x' = IF in.pad = 0 THEN x ELSE [c \in Cells |-> PadRow(RowOf(y[c]))[c]]
  /\ y' = [c \in Cells |-> RowOf(y[c]) * SiteH]
  /\ phase' = "done"
  /\ UNCHANGED <<in, ops, unplaced>>

-----------------------------------------------------------------------------
LegalizeInit ==
  /\ in \in Inputs
  /\ x = in.x /\ y = in.y /\ ops = in.x /\ unplaced = {} /\ phase = "start"

LegalizeNext ==
  \/ Decline \/ Preserve \/ Begin \/ GreedyFirst \/ GreedySecond
  \/ Guard \/ Abacus \/ Pad

LegalizeSpec == LegalizeInit /\ [][LegalizeNext]_lvars

-----------------------------------------------------------------------------
(* Type invariant.                                                         *)
TypeOK ==
  /\ in \in Inputs
  /\ x \in [Cells -> Int] /\ y \in [Cells -> Int] /\ ops \in [Cells -> Int]
  /\ unplaced \in SUBSET Cells
  /\ phase \in {"start", "first", "second", "guard", "abacus", "pad", "done", "dpl", "abort"}

\* Rows in which nothing stands in the way of a legal placement: the obstacles
\* end on sites, or the greedy passes found a place for every cell.
EndsOnSites(r) == \A o \in Obstacles(r) : o[2] % SiteW = 0
Sound(r) == EndsOnSites(r) \/ InRow(r) \cap unplaced = {}

(* In the placement it delivers every cell is in a row, and in each sound   *)
(* row within the core and off all obstacles and other cells, although     *)
(* Abacus is free to move what the greedy passes placed, aligning moves    *)
(* it once more, and the padding pass shifts it and may have to start      *)
(* over; and on the sites, if the obstacles are.                           *)
LegalOut ==
  phase = "done" =>
    /\ \A c \in Cells : y[c] \in {r * SiteH : r \in Rows}
    /\ \A r \in Rows : Sound(r) => \A c \in InRow(r) :
         /\ Span(x[c], W(c)) \subseteq (0..Core - 1) \ Blocked(r)
         /\ EndsOnSites(r) => x[c] % SiteW = 0
         /\ \A d \in InRow(r) \ {c} : Span(x[c], W(c)) \cap Span(x[d], W(d)) = {}

(* Unless the input was kept, the cells of a sound row are as far apart as *)
(* the padding asks, or all of them are where Abacus left them: no row is  *)
(* half padded.                                                            *)
PadOrPlain ==
  phase = "done" /\ ~(InputLegal /\ PaddingCompliant) =>
    \A r \in Rows : Sound(r) =>
      \/ \A c \in InRow(r) : x[c] = ops[c]
      \/ \A c, d \in InRow(r) : x[c] < x[d] => x[d] - x[c] >= W(c) + in.pad * SiteW

(* What does not fit is left to detailed_placement: the assertion of the   *)
(* Abacus operator never ends the program.                                 *)
FallsBack == phase # "abort"
=============================================================================
