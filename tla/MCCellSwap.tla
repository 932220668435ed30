----------------------------- MODULE MCCellSwap -----------------------------
(***************************************************************************)
(* The instance of CellSwap for TLC.  Cell g has three rows and two        *)
(* columns of library cells with a hole (no high-Vt cell of the largest    *)
(* row) and one library cell the database has no master for.  Cell d is    *)
(* dont-touch but has a table of its own, u belongs to no footprint, f is  *)
(* a flip-flop without a clock pin.                                        *)
(***************************************************************************)
EXTENDS CellSwap, TLC

CONSTANTS g, d, u, f, g00, g01, g10, g11, g20, d0, d1, u0, f0

Row(a, b) == (0 :> a) @@ (1 :> b)

MCRows == (g :> 3) @@ (d :> 2) @@ (u :> 0) @@ (f :> 1)

MCTable ==
  (g :> ((0 :> Row(g00, g01)) @@ (1 :> Row(g10, g11)) @@ (2 :> Row(g20, NoLib))))
  @@ (d :> ((0 :> Row(d0, NoLib)) @@ (1 :> Row(d1, NoLib))))
  @@ (f :> (0 :> Row(f0, NoLib)))

MCStart == (g :> [size |-> 1, vt |-> 0, type |-> g10])
        @@ (d :> [size |-> 1, vt |-> 0, type |-> d1])
        @@ (u :> [size |-> 0, vt |-> 0, type |-> u0])
        @@ (f :> [size |-> 0, vt |-> 0, type |-> f0])

MCMasters == LibCells \ {g11}

Plain == [o \in {"vtOnly", "sizeOnly", "minimum", "gtrIn", "initPath", "critNoTouch"} |-> FALSE]

MCConfigs == { Plain,
               [Plain EXCEPT !.sizeOnly = TRUE, !.minimum = TRUE],
               [Plain EXCEPT !.vtOnly = TRUE, !.gtrIn = TRUE],
               [Plain EXCEPT !.initPath = TRUE, !.critNoTouch = TRUE] }
=============================================================================
