------------------------------- MODULE MCTimer -------------------------------
(* Netlists of three cells, every one with or without loops; small tables. *)
EXTENDS Timer, MCTables
=============================================================================
