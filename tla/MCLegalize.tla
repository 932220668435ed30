------------------------------ MODULE MCLegalize ------------------------------
(***************************************************************************)
(* Rows of six sites; one cell of one site and two of two.  Fixed          *)
(* instances on and off the sites, over both rows, reaching out of the     *)
(* core, or filling a row; a row in two segments; one row; one missing.    *)
(***************************************************************************)
EXTENDS Legalize

MCWidth(c) == IF c = 1 THEN 1 ELSE 2
Seg(row, from, count) == [row |-> row, x |-> from * SiteW, n |-> count]
Fixed(from, w, lo, hi) == [x |-> from, w |-> w, lo |-> lo, hi |-> hi]
Full == {Seg(0, 0, 6), Seg(1, 0, 6)}
Layouts ==
  {[segs |-> Full, fixed |-> {}],
   [segs |-> Full, fixed |-> {Fixed(4, 2, 0, 1), Fixed(-1, 2, 1, 1)}],
   [segs |-> Full, fixed |-> {Fixed(3, 3, 0, 0), Fixed(5, 3, 0, 1)}],
   [segs |-> {Seg(0, 0, 6), Seg(1, 0, 2), Seg(1, 3, 3)}, fixed |-> {Fixed(5, 3, 1, 1)}],
   [segs |-> Full, fixed |-> {Fixed(6, 2, 0, 0), Fixed(0, 12, 1, 2)}],
   [segs |-> Full, fixed |-> {Fixed(0, 1, 0, 0), Fixed(9, 1, 0, 0), Fixed(1, 8, 1, 1)}],
   [segs |-> {Seg(0, 0, 6)}, fixed |-> {}],
   [segs |-> {Seg(0, 0, 6), Seg(2, 0, 6)}, fixed |-> {}]}
Starts == {<<0, 0>>, <<1, 4>>, <<2, 0>>, <<4, 4>>, <<4, 0>>, <<5, 0>>, <<8, 0>>, <<7, 3>>, <<10, 4>>}
MCInputs ==
  {[segs |-> l.segs, fixed |-> l.fixed, pad |-> pad, native |-> native,
    x |-> [c \in Cells |-> at[c][1]], y |-> [c \in Cells |-> at[c][2]]] :
     l \in Layouts, pad \in 0..1, native \in BOOLEAN, at \in [Cells -> Starts]}
=============================================================================
