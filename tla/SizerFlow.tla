----------------------------- MODULE SizerFlow ------------------------------
(***************************************************************************)
(* What main() does to the design in its four modes (preplace, hold-only,  *)
(* legalize-only, sizing), as the order of the calls that change or read   *)
(* the shared OpenROAD design: repairs insert buffers and resize, swaps    *)
(* change cell widths, legalization moves cells, and each of these makes   *)
(* something else out of date: the placement, the power connections of new *)
(* instances, or the wire RC the next repair and the report rely on.       *)
(*                                                                         *)
(* A function of the program is a sequence of commands; one action of the  *)
(* specification executes the next command of the flow.  What the commands *)
(* of OpenROAD do is external and modelled by what the program relies on.  *)
(***************************************************************************)
EXTENDS Integers, Sequences

CONSTANTS
  Nets,      \* nets that a repair may buffer
  PadOnly,   \* nets of a top-level port and PAD pins only
  PadMixed,  \* nets of a top-level port, a PAD pin and other pins
  Configs,   \* the command files considered
  MaxSyncs,  \* bound on the UpdatePTSizes calls of a search
  MaxChain   \* bound on the buffers in a row in a net

(* The mode flags are independent; -use_gr_rc may be absent; native is     *)
(* -use_native_abacus, which is on unless the file turns it off.           *)
Options == [preplace: BOOLEAN, holdOnly: BOOLEAN, legalizeOnly: BOOLEAN,
            useGr: {"unset", "0", "1"}, native: BOOLEAN, spef: BOOLEAN,
            syncs: 0 .. MaxSyncs]

ASSUME FlowAssumption ==
  /\ PadOnly \subseteq Nets /\ PadMixed \subseteq Nets
  /\ PadOnly \cap PadMixed = {}
  /\ MaxSyncs \in Nat /\ MaxChain \in Nat
  /\ Configs \subseteq Options

(* readCmdFile starts from use_gr_rc = false.                              *)
UseGr(o) == o.useGr = "1"

(* The order in which main() looks at the flags.                           *)
Mode(o) == IF o.preplace THEN "preplace"
           ELSE IF o.holdOnly THEN "hold"
           ELSE IF o.legalizeOnly THEN "legalize" ELSE "size"

-----------------------------------------------------------------------------
(* The program's functions as command sequences.                           *)

When(cond, s) == IF cond THEN s ELSE << >>

(* refreshOpenStaParasitics: placement RC, with global routing only as the *)
(* seed of the routed one.                                                 *)
Refresh(o) == <<"estimate">> \o When(UseGr(o), <<"routeRc">>)

(* applyOpenStaDbChanges around changes of the database.                   *)
Apply(o, changes) ==
  IF UseGr(o)
  THEN <<"seed", "startIncremental">> \o changes \o <<"updateRc", "endIncremental">>
  ELSE changes \o <<"estimate">>

(* Reading the design; with routed RC and no SPEF file it ends in runGR.   *)
LoadDesign(o) ==
  <<"assertChain", "markPads">>
  \o When(o.spef, <<"readSpef">>)
  \o When(~o.preplace, <<"estimate">>)
  \o When(UseGr(o) /\ ~o.spef /\ ~o.preplace, <<"legalize", "routeRc">>)

(* Mutant: new instances stay unconnected.                                 *)
RunPreplace_NoConnect == <<"repairDesign", "write">>

RunPreplace == <<"repairDesign", "connect", "write">>

(* Mutant: the second hold pass sees the RC from before legalization.      *)
HoldPass_NoRefresh(o) == <<"repairHold", "connect", "legalize">>

HoldPass(o) == <<"repairHold", "connect", "legalize">> \o Refresh(o)

RunHoldOnly(o) == HoldPass(o) \o HoldPass(o) \o <<"write">>

RunLegalizeOnly == <<"legalize", "write">>

(* The launcher and the searches: UpdatePTSizes, again and again.          *)
Launcher(o) ==
  LET sync == Apply(o, <<"swap">>)
  IN  [i \in 1 .. o.syncs * Len(sync) |-> sync[((i - 1) % Len(sync)) + 1]]

FinalReport(o) ==
  IF o.spef THEN Apply(o, <<"swap">>)
  ELSE Apply(o, <<"swap", "legalize">>) \o Refresh(o) \o Apply(o, <<"swap">>)

(* Mutants: no RC refresh at the end; legalization before the repairs.     *)
RunOrdTO_NoRefresh(o) ==
  <<"assertChain", "repairDesign", "repairHold", "repairSetup", "connect", "legalize",
    "assertChain">>

RunOrdTO_LegalizeFirst(o) ==
  <<"assertChain", "legalize", "repairDesign", "repairHold", "repairSetup", "connect">>
  \o Refresh(o) \o <<"assertChain">>

RunOrdTO(o) ==
  <<"assertChain", "repairDesign", "repairHold", "repairSetup", "connect", "legalize">>
  \o Refresh(o) \o <<"assertChain">>

Flow(o) ==
  LoadDesign(o) \o
    CASE Mode(o) = "preplace" -> RunPreplace
      [] Mode(o) = "hold"     -> RunHoldOnly(o)
      [] Mode(o) = "legalize" -> RunLegalizeOnly
      [] Mode(o) = "size"     -> Launcher(o) \o FinalReport(o) \o RunOrdTO(o) \o <<"write">>

-----------------------------------------------------------------------------
VARIABLES
  opts,       \* the command file
  onSites,    \* fixed instances end on sites, and all outside the core are fixed
  step,       \* the next command of the flow
  outcome,    \* running, written or aborted
  dontTouch,  \* nets marked do-not-touch
  buffers,    \* per net, boundary buffers in a row from its port to its PADs
  powered,    \* per net, how many of them are on the wildcard special nets
  legal,      \* is the placement legal?
  rc,         \* the wire RC in OpenSTA: source, and does it fit the design?
  incr        \* incremental routing: off, or on over a routed design or not

vars == <<opts, onSites, step, outcome, dontTouch, buffers, powered, legal, rc, incr>>

Sources == {"none", "spef", "placement", "routed"}
Rc(src, fresh) == [src |-> src, fresh |-> fresh]

(* Any input design: with or without buffers, legal or not.  A net with    *)
(* PAD pins only has none.                                                 *)
Init ==
  /\ opts \in Configs
  /\ onSites \in BOOLEAN
  /\ step = 1
  /\ outcome = "running"
  /\ dontTouch = {}
  /\ buffers \in [Nets -> 0 .. MaxChain]
  /\ \A n \in PadOnly : buffers[n] = 0
  /\ powered = buffers
  /\ legal \in BOOLEAN
  /\ rc = Rc("none", FALSE)
  /\ incr = "off"

Runs(cmd) == outcome = "running" /\ Flow(opts)[step] = cmd
Then      == step' = step + 1 /\ UNCHANGED <<opts, onSites, outcome>>

(* scanIllegalExternalPadBoundaryChain: from each port over one buffer.    *)
Chained == \E n \in PadOnly \cup PadMixed : buffers[n] = 1

(* A port, a boundary buffer and a PAD pin in a row abort the program.     *)
AssertChain ==
  /\ Runs("assertChain")
  /\ step' = step + 1
  /\ outcome' = IF Chained THEN "aborted" ELSE outcome
  /\ UNCHANGED <<opts, onSites, dontTouch, buffers, powered, legal, rc, incr>>

(* Mutant: PAD nets are not marked.                                        *)
MarkPads_Skipped ==
  /\ Runs("markPads") /\ Then
  /\ UNCHANGED <<dontTouch, buffers, powered, legal, rc, incr>>

MarkPads ==
  /\ Runs("markPads") /\ Then
  /\ dontTouch' = PadOnly
  /\ UNCHANGED <<buffers, powered, legal, rc, incr>>

ReadSpef ==
  /\ Runs("readSpef") /\ Then
  /\ rc' = Rc("spef", TRUE)
  /\ UNCHANGED <<dontTouch, buffers, powered, legal, incr>>

Estimate ==
  /\ Runs("estimate") /\ Then
  /\ rc' = Rc("placement", TRUE)
  /\ UNCHANGED <<dontTouch, buffers, powered, legal, incr>>

(* global_route, estimate_parasitics -global_routing.                      *)
RouteRc ==
  /\ Runs("routeRc") /\ Then
  /\ rc' = Rc("routed", TRUE)
  /\ UNCHANGED <<dontTouch, buffers, powered, legal, incr>>

(* Mutant: the RC source is not looked at.                                 *)
Seed_Untested ==
  /\ Runs("seed") /\ Then
  /\ UNCHANGED <<dontTouch, buffers, powered, legal, rc, incr>>

(* Incremental updates need a routed design; route it if it is not.        *)
Seed ==
  /\ Runs("seed") /\ Then
  /\ rc' = IF rc.src = "routed" THEN rc ELSE Rc("routed", TRUE)
  /\ UNCHANGED <<dontTouch, buffers, powered, legal, incr>>

StartIncremental ==
  /\ Runs("startIncremental") /\ Then
  /\ incr' = IF rc = Rc("routed", TRUE) THEN "seeded" ELSE "unseeded"
  /\ UNCHANGED <<dontTouch, buffers, powered, legal, rc>>

(* Nets touched since the start are routed again; only those.              *)
UpdateRc ==
  /\ Runs("updateRc") /\ Then
  /\ rc' = [rc EXCEPT !.fresh = (incr = "seeded")]
  /\ UNCHANGED <<dontTouch, buffers, powered, legal, incr>>

EndIncremental ==
  /\ Runs("endIncremental") /\ Then
  /\ incr' = "off"
  /\ UNCHANGED <<dontTouch, buffers, powered, legal, rc>>

(* swapMaster on some instances: other pins, maybe other widths.           *)
Swap ==
  /\ Runs("swap") /\ Then
  /\ legal' \in {legal, FALSE}
  /\ rc' = [rc EXCEPT !.fresh = FALSE]
  /\ UNCHANGED <<dontTouch, buffers, powered, incr>>

Repairs == {"repairDesign", "repairHold", "repairSetup"}

(* repair_design, repair_timing: buffers in nets they may touch, resized   *)
(* cells; they keep the RC of what they change up to date themselves.      *)
Repair(B) ==
  /\ outcome = "running" /\ Flow(opts)[step] \in Repairs
  /\ Then
  /\ buffers' = [n \in Nets |-> IF n \in B \ dontTouch /\ buffers[n] < MaxChain
                                 THEN buffers[n] + 1 ELSE buffers[n]]
  /\ legal' \in {legal, FALSE}
  /\ UNCHANGED <<dontTouch, powered, rc, incr>>

(* connectMissingWildcardSpecialNetPins, when no pin is in conflict.       *)
Connect ==
  /\ Runs("connect") /\ Then
  /\ powered' = buffers
  /\ UNCHANGED <<dontTouch, buffers, legal, rc, incr>>

(* legalizePlacement: native (module Legalize), or detailed_placement if   *)
(* that is not asked for or not applicable; a legal placement may stay     *)
(* where it is.  What the native legalizer delivers is legal if the rows   *)
(* are sound (Legalize!LegalOut), as obstacles that end on sites make      *)
(* them; otherwise cells may overlap, also with instances it overlooks     *)
(* (neither core cells nor fixed), and nothing tests the result.           *)
Delivers == IF opts.native /\ ~onSites THEN BOOLEAN ELSE {TRUE}

Legalize ==
  /\ Runs("legalize") /\ Then
  /\ legal' \in Delivers
  /\ rc' \in {rc, [rc EXCEPT !.fresh = FALSE]}
  /\ legal' # legal => ~rc'.fresh
  /\ UNCHANGED <<dontTouch, buffers, powered, incr>>

(* The assertion in Abacus (Legalize!Abacus) ends the program.             *)
LegalizeAborts ==
  /\ Runs("legalize") /\ opts.native
  /\ step' = step + 1
  /\ outcome' = "aborted"
  /\ UNCHANGED <<opts, onSites, dontTouch, buffers, powered, legal, rc, incr>>

(* writeDef, write_verilog.                                                *)
Write ==
  /\ Runs("write")
  /\ step' = step + 1
  /\ outcome' = "written"
  /\ UNCHANGED <<opts, onSites, dontTouch, buffers, powered, legal, rc, incr>>

Next ==
  \/ AssertChain \/ MarkPads \/ ReadSpef
  \/ Estimate \/ RouteRc \/ Seed \/ StartIncremental \/ UpdateRc \/ EndIncremental
  \/ Swap \/ Connect \/ Legalize \/ LegalizeAborts \/ Write
  \/ \E B \in SUBSET Nets : Repair(B)

Spec == Init /\ [][Next]_vars

-----------------------------------------------------------------------------
(* The types of the flow's variables; no instance is on the special nets   *)
(* that is not in the design.                                              *)
TypeOK ==
  /\ opts \in Configs /\ onSites \in BOOLEAN
  /\ step \in 1 .. Len(Flow(opts)) + 1
  /\ outcome \in {"running", "written", "aborted"}
  /\ dontTouch \subseteq Nets
  /\ buffers \in [Nets -> 0 .. MaxChain] /\ powered \in [Nets -> 0 .. MaxChain]
  /\ \A n \in Nets : powered[n] <= buffers[n]
  /\ legal \in BOOLEAN
  /\ rc \in [src: Sources, fresh: BOOLEAN]
  /\ incr \in {"off", "seeded", "unseeded"}

Written(modes) == outcome = "written" /\ Mode(opts) \in modes

(* The RC source the user selected.                                        *)
Selected == IF UseGr(opts) THEN "routed" ELSE "placement"

(* Every repair of hold-only and sizing mode sees wire RC of the selected  *)
(* kind that describes the design as it is: after each legalization and    *)
(* each swap something rebuilt it.  Not so in the first hold pass with a   *)
(* SPEF file and routed RC, which works on placement RC (see the README).  *)
RepairSeesRc ==
  (/\ outcome = "running" /\ Flow(opts)[step] \in Repairs
   /\ Mode(opts) # "preplace"
   /\ ~(Mode(opts) = "hold" /\ opts.spef /\ UseGr(opts)))
    => rc = Rc(Selected, TRUE)

(* The slacks reported last are those of the exported design: no command   *)
(* between the last RC refresh of runHoldOnly / runOrdTO and the export    *)
(* moves or changes anything.                                              *)
ReportFitsExport == Written({"hold", "size"}) => rc = Rc(Selected, TRUE)

(* What hold-only, legalize-only and sizing mode export is legally placed, *)
(* whatever the repairs inserted and the swaps widened before: with the    *)
(* native legalizer in designs whose obstacles end on sites, with          *)
(* detailed_placement in all.                                              *)
LegalizerSound == opts.native => onSites
ExportLegal == Written({"hold", "legalize", "size"}) /\ LegalizerSound => legal

(* Every buffer inserted by any repair of any mode is connected to the     *)
(* wildcard special nets in the exported DEF.                              *)
ExportPowered == outcome = "written" => powered = buffers

(* No mode exports a boundary buffer in a net of a port and PADs only; and *)
(* sizing mode, which checks again after its repairs, exports none alone   *)
(* before a PAD.  (Two in a row the scan takes for none, see the README.)  *)
ExportChainFree ==
  outcome = "written" =>
    /\ \A n \in PadOnly : buffers[n] = 0
    /\ Mode(opts) = "size" => \A n \in PadMixed : buffers[n] # 1

(* Incremental routing never starts over a design that was not routed as   *)
(* it is (applyOpenStaDbChanges: "requires a routed GR parasitics seed").  *)
IncrementalSeeded == incr # "unseeded"

(* README.md, Usage: "Hold-only repair uses propagated clocks and          *)
(* global-routing RC by default."                                          *)
HoldDefaultsToRouted ==
  (Written({"hold"}) /\ opts.useGr = "unset") => rc.src = "routed"
=============================================================================
