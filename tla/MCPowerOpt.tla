----------------------------- MODULE MCPowerOpt -----------------------------
(***************************************************************************)
(* Instances of PowerOpt for TLC: three solutions, one of which the timer  *)
(* may see as better or worse than it is.                                  *)
(***************************************************************************)
EXTENDS PowerOpt, TLC

CONSTANTS s1, s2, s3

MCScore == (s1 :> {30}) @@ (s2 :> {10, 40}) @@ (s3 :> {20})

On == [o \in {"fixCap", "fixSlew", "fixGlobal", "initPath", "compareTns"} |-> TRUE]

(* Everything on without -compare_tns; no path initialisation, no cap      *)
(* repair and the attack switched off; no slew repair with -compare_tns.   *)
MCConfigs == { [On EXCEPT !.compareTns = FALSE],
               [On EXCEPT !.compareTns = FALSE, !.initPath = FALSE, !.fixCap = FALSE,
                          !.fixGlobal = FALSE],
               [On EXCEPT !.initPath = FALSE, !.fixSlew = FALSE] }
=============================================================================
