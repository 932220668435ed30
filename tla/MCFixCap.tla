------------------------------ MODULE MCFixCap ------------------------------
(***************************************************************************)
(* A flop f drives a and b; a drives two pins of b (with capacitances of   *)
(* their own) and c; b drives c and d; c drives d, f and a clock net of f. *)
(* d is dont-touch, x has no library cell, and c's table has a hole.       *)
(***************************************************************************)
EXTENDS FixCap

MCCells == {"f", "a", "b", "c", "d", "x"}
MCTopo == <<"x", "f", "a", "b", "c", "d">>
MCRTopo == <<"d", "f", "c", "b", "a", "x">>
MCOuts == [c \in MCCells |->
             IF c = "c" THEN <<"cO1", "cCk", "cO2">> ELSE IF c = "x" THEN <<>> ELSE <<c \o "O">>]
MCLoads == [fO |-> <<"aI", "bI1">>, aO |-> <<"bI2", "bI3", "cI1">>, bO |-> <<"cI2", "dI1", "xI">>,
            cO1 |-> <<"dI2">>, cO2 |-> <<"fI">>, dO |-> <<"aCk">>, cCk |-> <<"fCk">>]
MCOwner == [fO |-> "f", aO |-> "a", bO |-> "b", cO1 |-> "c", cO2 |-> "c", cCk |-> "c", dO |-> "d",
            aI |-> "a", aCk |-> "a", bI1 |-> "b", bI2 |-> "b", bI3 |-> "b",
            cI1 |-> "c", cI2 |-> "c", dI1 |-> "d", dI2 |-> "d", fI |-> "f", fCk |-> "f", xI |-> "x"]
MCClockNets == {"dO", "cCk"}
MCSlots == [f |-> {0}, a |-> 0..2, b |-> 0..2, c |-> {0, 1, 3}, d |-> {0}, x |-> {}]
MCLastRow == [f |-> 0, a |-> 2, b |-> 2, c |-> 3, d |-> 0, x |-> 0]
Steps(x, y, z) == [r \in 0..3 |-> CASE r = 0 -> x [] r = 1 -> y [] OTHER -> z]
MCPinCap == [aI |-> Steps(1, 2, 3), aCk |-> Steps(1, 1, 1),
             bI1 |-> Steps(1, 2, 3), bI2 |-> Steps(1, 2, 4), bI3 |-> Steps(1, 1, 2),
             cI1 |-> Steps(1, 2, 3), cI2 |-> Steps(1, 2, 3),
             dI1 |-> Steps(2, 2, 2), dI2 |-> Steps(2, 2, 2), fI |-> Steps(1, 1, 1), fCk |-> Steps(2, 2, 2),
             xI |-> Steps(1, 1, 1)]
MCMaxCap == [fO |-> Steps(4, 4, 4), aO |-> Steps(3, 5, 6), bO |-> Steps(4, 5, 7),
             cO1 |-> Steps(2, 3, 4), cO2 |-> Steps(1, 1, 2), dO |-> Steps(0, 0, 0), cCk |-> Steps(1, 1, 1)]
MCNetCap == [fO |-> 0, aO |-> 0, bO |-> 1, cO1 |-> 1, cO2 |-> 1, dO |-> 0, cCk |-> 0]
=============================================================================
