------------------------------ MODULE MCRepair ------------------------------
(***************************************************************************)
(* Three netlists of four cells, in all rows: 1 drives 2 and 3, both drive *)
(* 4; the flop 1 drives 2 and 3, 2 drives 3 and 4; 1 drives 2 and 3, 2     *)
(* drives 3 and 4, 3 drives 4.                                             *)
(***************************************************************************)
EXTENDS Repair, MCTables

Netlist(edges) == [d, c \in 1..4 |-> IF <<d, c>> \in edges THEN 1 ELSE 0]
Wires(edges) == [d \in 1..4 |-> [c \in 1..4 |-> Netlist(edges)[d, c]]]
MCDesigns ==
  {[wires |-> Wires({<<1, 2>>, <<1, 3>>, <<2, 4>>, <<3, 4>>}), flops |-> {},
    topo |-> <<1, 2, 3, 4>>, rtopo |-> <<4, 2, 3, 1>>],
   [wires |-> Wires({<<1, 2>>, <<1, 3>>, <<2, 3>>, <<2, 4>>}), flops |-> {1},
    topo |-> <<1, 2, 3, 4>>, rtopo |-> <<3, 4, 1, 2>>],
   [wires |-> Wires({<<1, 2>>, <<1, 3>>, <<2, 3>>, <<2, 4>>, <<3, 4>>}), flops |-> {},
    topo |-> <<1, 2, 3, 4>>, rtopo |-> <<4, 3, 2, 1>>]}
MCDriveTab(row, e, tran, load) == 4 + 2 * load + tran \div 2 + (IF e = "r" THEN 1 ELSE 0) - 3 * row
MCMaxTran(p) == IF p[2] = 0 THEN 18 ELSE 16
MCMaxCap(row) == 4 + 2 * row
MCLeak(row) == 2 * row + 1
MCHoles == {<<1, 3>>, <<2, 2>>}
MCNoHoles == {}
=============================================================================
