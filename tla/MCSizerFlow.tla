---------------------------- MODULE MCSizerFlow -----------------------------
(***************************************************************************)
(* Instances of SizerFlow for TLC: one net of each kind, every combination *)
(* of the mode flags, RC options and SPEF file.                            *)
(***************************************************************************)
EXTENDS SizerFlow

CONSTANTS plain, port, mixed

MCConfigs == Options

(* Hold-only mode alone, all RC options.                                   *)
MCHoldConfigs ==
  { o \in Options : o.holdOnly /\ ~o.preplace /\ ~o.legalizeOnly /\ ~o.spef /\ o.syncs = 0 }
=============================================================================
