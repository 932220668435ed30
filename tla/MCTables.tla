------------------------------ MODULE MCTables ------------------------------
(* Small tables for the timer. *)
EXTENDS Integers

MCCapOf(row) == row + 1
MCTranTab(row, e, tran, load) == 2 * load + tran \div 2 + (IF e = "r" THEN 1 ELSE 0) - row
MCDelayTab(row, e, tran, load) == 3 + load + tran \div 2 + (IF e = "f" THEN 1 ELSE 0) - row
MCSetupTab(e, tran) == 1 + tran \div 4
MCWireTab(load) == load \div 2
MCInverting(c) == c % 2 = 1
MCBias(p, e) == IF p[2] = 2 /\ e = "r" THEN 1 ELSE 0
MCSlackBias(p, e) == IF p[1] = 1 THEN -2 ELSE 1
=============================================================================
