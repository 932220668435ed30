---------------------------- MODULE MCSpecialNet ----------------------------
(***************************************************************************)
(* Three pins of one name, one of them on a dont-touch instance, and one   *)
(* pin of another name; two wildcard nets and an ordinary one.             *)
(***************************************************************************)
EXTENDS SpecialNet

CONSTANTS a, b, c, d

MCName == [p \in Pins |-> IF p = d THEN "VSS" ELSE "VDD"]
=============================================================================
