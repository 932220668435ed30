-------------------------------- MODULE Paths --------------------------------
(***************************************************************************)
(* CountPaths and CountPathsLesserThanSlack (graphop.cpp): how many paths  *)
(* run through each pin, counted along topolist and back along rtopolist.  *)
(* The sensitivities that rank the moves multiply a delay with this count. *)
(*                                                                         *)
(* Pins: 0 is the primary input that feeds the cells nothing else drives,  *)
(* a cell stands for its output pin (<<d, 0>> among the pins, <<0, 0>> the *)
(* primary input), <<d, c>> for the input pins of c that d drives (PO for  *)
(* a primary output).                                                      *)
(***************************************************************************)
EXTENDS Topo

CONSTANT Word   \* 2 to the width of unsigned

ASSUME PathsAssumption == Word \in Nat \ {0}

Drivers == {0} \cup Cells
PO == N + 1

\* The cells on the input pins of c; the cells, or the output, on the net of d.
Fi(c) == LET driving == {d \in Cells : wires[d][c] # 0}
         IN IF driving # {} THEN driving ELSE IF c \in sinks THEN {0} ELSE {}
Fo(d) == LET loads == {c \in Cells : IF d = 0 THEN 0 \in Fi(c) ELSE wires[d][c] # 0}
         IN IF loads = {} /\ d # 0 THEN {PO} ELSE loads
Mult(d, c) == IF d = 0 \/ c = PO THEN 1 ELSE wires[d][c]
Pins == {p \in Drivers \X (Cells \cup {PO}) : p[2] \in Fo(p[1])}
Outputs == {<<c, 0>> : c \in Cells}
Owner(p) == IF p[2] = 0 THEN p[1] ELSE p[2]

Plus(m, n) == (m + n) % Word
SumOver(S, f(_)) == FoldSet(LAMBDA x, sum : Plus(sum, f(x)), 0, S)

-----------------------------------------------------------------------------
(* From the start of the paths: the output of a flop starts one, a         *)
(* combinational cell takes the counts of its drivers to its input pins    *)
(* and adds them up.  The input pins of a flop and of the outputs keep     *)
(* their zeroes, as do cells outside through.  (A cell that drives itself  *)
(* reads its sum in the making; no path is counted of netlists with loops.)*)
Into_Latest(n, c) == FoldSet(LAMBDA d, last : n[<<d, 0>>], 0, Fi(c))

Into(n, c) == SumOver(Fi(c), LAMBDA d : Mult(d, c) * n[<<d, 0>>])

CountedTo(n, c, through) ==
  IF c \notin through THEN n
  ELSE IF c \in flops THEN [n EXCEPT ![<<c, 0>>] = 1]
  ELSE [p \in DOMAIN n |-> IF p = <<c, 0>> THEN Into(n, c)
                           ELSE IF p[2] = c THEN n[<<p[1], 0>>] ELSE n[p]]

FromPI(through, perInput) ==
  LET after[k \in 0..Len(topolist)] ==
        IF k = 0 THEN [p \in Pins \cup Outputs \cup {<<0, 0>>} |->
                        IF p = <<0, 0>> THEN perInput ELSE 0]
        ELSE CountedTo(after[k - 1], topolist[k], through)
  IN after[Len(topolist)]

(* To their ends: the data pin of a flop ends one, a primary output none;  *)
(* a cell hands the sum over its net to each of its input pins.  The       *)
(* output of a flop is left out.                                           *)
OutOf(n, c) == SumOver(Fo(c), LAMBDA s : Mult(c, s) * n[<<c, s>>])

CountedFrom(n, c, through) ==
  LET ends == IF c \in flops THEN 1 ELSE OutOf(n, c)
      set == {p \in Pins : p[2] = c} \cup (IF c \in flops THEN {} ELSE {<<c, 0>>})
  IN IF c \notin through THEN n ELSE [p \in DOMAIN n |-> IF p \in set THEN ends ELSE n[p]]

ToPO(through) ==
  LET after[k \in 0..Len(rtopolist)] ==
        IF k = 0 THEN [p \in Pins \cup Outputs |-> 0]
        ELSE CountedFrom(after[k - 1], rtopolist[k], through)
  IN after[Len(rtopolist)]

AtLeastOne(n) == IF n = 0 THEN 1 ELSE n
Product(up, down) ==
  [p \in DOMAIN down |-> AtLeastOne((up[p] * down[p]) % Word)]

\* NPaths.
CountPaths == Product(FromPI(Cells, 1), ToPO(Cells))

\* NPathsLessThanSlack: paths from inputs do not count, nor those through a
\* cell outside critical (a flop is judged by its output, at both ends).
CountPathsLesserThanSlack(critical) ==
  Product(FromPI(critical, 0), ToPO(critical))

-----------------------------------------------------------------------------
(* The paths themselves, without orders or word size: walks of at most n   *)
(* cells that end on the output of d, and that start at input pin p.       *)
MoreInto(w, d) == MapThenSumSet(LAMBDA x : Mult(x, d) * w[x], Fi(d))
MoreOutOf(w, c) == MapThenSumSet(LAMBDA s : Mult(c, s) * w[s], Fo(c))

WalksTo(through, perInput) ==
  LET w[n \in 0..N] ==
        [d \in Drivers |-> IF d = 0 THEN perInput
                           ELSE IF d \notin through THEN 0
                           ELSE IF d \in flops THEN 1
                           ELSE IF n = 0 THEN 0 ELSE MoreInto(w[n - 1], d)]
  IN w[N]

WalksFrom(through) ==
  LET w[n \in 0..N] ==
        [c \in Cells \cup {PO} |-> IF c \notin through THEN 0
                                  ELSE IF c \in flops THEN 1
                                  ELSE IF n = 0 THEN 0 ELSE MoreOutOf(w[n - 1], c)]
  IN w[N]

LoopFree == Loop = {}

Counted(count, through, perInput) ==
  LET up == WalksTo(through, perInput)
      down == WalksFrom(through)
      fits == (\A d \in Drivers : up[d] < Word) /\ (\A c \in Cells : down[c] < Word)
  IN fits => \A p \in Pins \cup Outputs :
       LET paths == IF Owner(p) \in flops THEN 0 ELSE up[p[1]] * down[Owner(p)]
       IN paths < Word => count[p] = AtLeastOne(paths)

(* The counts are the numbers of paths, from an input or a flop to a flop, *)
(* through a pin of a combinational cell or of an output (one if there is  *)
(* none), and one on every pin of a flop, whatever runs through it (its    *)
(* data pin is never counted from the inputs, its output never to the      *)
(* ends).  So it is whatever order SortTopo found and whatever cells are   *)
(* critical, as long as there is no combinational loop and the numbers fit *)
(* their words.                                                            *)
PathsCounted ==
  pc = "done" /\ LoopFree =>
    /\ Counted(CountPaths, Cells, 1)
    /\ \A critical \in SUBSET Cells :
         Counted(CountPathsLesserThanSlack(critical), critical, 0)
=============================================================================
