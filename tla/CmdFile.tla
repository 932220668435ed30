------------------------------ MODULE CmdFile ------------------------------
(***************************************************************************)
(* The files that say what to do: the command file (readCmdFile), then the *)
(* environment file (readEnvFile), then one file per view with -mmmc       *)
(* (readMMMCFile), or initSingleMode.                                      *)
(*                                                                         *)
(* A line of a file is an option and a value; several options on one line  *)
(* are several lines here.  The code asks of each line, for every option   *)
(* it knows, whether the option's key word occurs in the line, so an       *)
(* option whose key word starts another one is found there too.  Values    *)
(* hold no key word.  Numbers are integers; 0 is a value not given where   *)
(* the code takes it so.                                                   *)
(***************************************************************************)
EXTENDS Integers, Sequences, SequencesExt

CONSTANTS
  Cases,     \* [cmd, env]: command and environment file, sequences of [key, val]
  Lists,     \* the files of instances and cells that exist: name -> entries
  ViewFiles  \* the files of views that exist: name -> [libs, spef, sdc, weight, slack, iso, tran]

\* The code does not look at the sign of these numbers.
ASSUME CasesAssumption ==
  \A c \in Cases :
    /\ c.cmd \in Seq(Range(c.cmd))
    /\ \A i \in 1..Len(c.cmd) :
         c.cmd[i].key \in {"-thread ", "-GWTW_div ", "-GWTW_num_start "} => c.cmd[i].val \in Nat

VARIABLES
  pc,    \* which file is read; "exit" or "crash" when the program stopped
  file, envFile,  \* the files of this run
  n,     \* lines of the file that were read
  opt,   \* the settings that were assigned, by name
  view   \* the lists that views index
cmdVars == <<pc, file, envFile, n, opt, view>>

-----------------------------------------------------------------------------
(* The options: key word and setting, by what their branch does.           *)

On(ps) == {[key |-> p[1], var |-> p[2], how |-> "on"] : p \in ps}
Off(ps) == {[key |-> p[1], var |-> p[2], how |-> "off"] : p \in ps}
Value(ps) == {[key |-> p[1], var |-> p[2], how |-> "value"] : p \in ps}
Append1(ps) == {[key |-> p[1], var |-> p[2], how |-> "append"] : p \in ps}

InputSwitches == {<<"-corr_aat", "CORR_AAT">>, <<"-minimum", "MINIMUM">>}
InputValues ==
  {<<"-corr_ratio ", "CORR_RATIO">>, <<"-pwr_corr_ratio ", "PWR_CORR_RATIO">>, <<"-mode ", "exeOp">>,
   <<"-op ", "swapOp">>, <<"-top ", "benchname">>, <<"-def ", "defFile">>, <<"-spef ", "spefFile">>,
   <<"-outputPath ", "outputDir">>, <<"-tcf ", "tcfFile">>, <<"-false_path_file ", "falsePathFile">>,
   <<"-v ", "verilogFile">>, <<"-min_route_layer ", "min_route_layer">>,
   <<"-max_route_layer ", "max_route_layer">>, <<"-use_gr_rc ", "use_gr_rc">>,
   <<"-gr_rc_congestion_iterations ", "gr_rc_congestion_iterations">>,
   <<"-equiv_cell_sort ", "equivCellSort">>, <<"-sdc ", "sdcFile">>, <<"-timerSdc ", "timerSdcFile">>,
   <<"-dp_padding ", "dp_padding">>, <<"-ck ", "clockName">>, <<"-n ", "swapstep">>}

SensitivitySwitches ==
  {<<"-tabu_mmmc", "TABU">>, <<"-compare_tns", "COMPARE_TNS">>, <<"-use_attack_new", "use_attack_new">>,
   <<"-final_opt", "FINAL_PWR_OPT">>, <<"-kick_move_change", "KICK_MOVE_CHANGE">>}
SensitivityValues ==
  {<<"-sf ", "sensFunc">>, <<"-sf2 ", "sensFunc2">>, <<"-tabu ", "tabuNum">>, <<"-sft ", "sensFuncT">>,
   <<"-sft_norm ", "NORM_SFT">>, <<"-slk_th ", "SLK_TH">>, <<"-kick_ratio ", "KICK_RATIO">>,
   <<"-alpha_stuck ", "ALPHA_STUCK">>, <<"-setup_margin ", "setup_margin">>,
   <<"-hold_margin ", "hold_margin">>,
   <<"-placement_wire_resistance_ohm_per_um ", "placement_wire_resistance">>,
   <<"-placement_wire_rc_corner ", "placement_wire_rc_corner">>,
   <<"-placement_wire_capacitance_pf_per_um ", "placement_wire_capacitance">>,
   <<"-def_out_path ", "resultDefFile">>, <<"-verilog_out_path ", "resultVerilogFile">>,
   <<"-stuck_th ", "STUCK_THRES">>, <<"-kick_step ", "KICK_STEP">>, <<"-kick_slack ", "KICK_SLACK">>,
   <<"-kick_max_iter ", "KICK_MAX">>, <<"-GWTW_max_iter ", "GWTW_MAX">>}

SearchSwitches ==
  {<<"-update_list", "UPDATE_LIST">>, <<"-preplace", "preplaceMode">>, <<"-preplace_gain", "preplaceGain">>,
   <<"-hold_only", "holdOnlyMode">>, <<"-legalize_only", "legalizeOnlyMode">>, <<"-ptLog", "ptLogSave">>,
   <<"-mmmc", "mmmcOn">>, <<"-useETS", "useETS">>, <<"-useTempus", "useTempus">>, <<"-useTempus", "useETS">>,
   <<"-useOpenSTA", "useOpenSTA">>, <<"-noSPEF", "noSPEF">>, <<"-noDEF", "noDEF">>, <<"-eco", "exePNRFlag">>,
   <<"-chkWNS", "chkWNSFlag">>, <<"-totPWR", "totPWRFlag">>}
SearchValues ==
  {<<"-max_tran_gb ", "SLEW_GB">>, <<"-max_targets ", "MAX_TARGETS">>, <<"-max_trials ", "MAX_TRIALS">>,
   <<"-min_vt", "MIN_VT">>, <<"-min_size", "MIN_SIZE">>, <<"-kick_method ", "KICK_METHOD">>,
   <<"-kick_sft ", "KICK_SFT">>, <<"-multi_step ", "MULTI_STEP">>, <<"-attack_ratio ", "ATTACK_RATIO">>,
   <<"-multi_step_kick ", "MULTI_STEP_KICK">>, <<"-st ", "stopCond">>, <<"-opt_effort ", "optEffort">>,
   <<"-maxTr ", "MAX_TRAN_CONST">>, <<"-g ", "GUARD_BAND">>, <<"-use_native_abacus ", "use_native_abacus">>,
   <<"-vout ", "verilogOutFile">>, <<"-defout ", "defOutFile">>, <<"-spefout ", "spefOutFile">>,
   <<"-ptOpt ", "ptOption">>, <<"-ptCmd ", "ptCmd">>, <<"-saif", "saifFile">>, <<"-swapList", "swapFile">>}
SearchLists == {<<"-mmmcFile ", "mmmcFiles">>}

TimerSwitches ==
  {<<"-hold", "HOLD_CHECK">>, <<"-corr_dyn", "CORR_DYN">>, <<"-use_full_sta", "USE_FULL_STA">>,
   <<"-use_full_sta2", "USE_FULL_STA2">>, <<"-use_pt", "USE_PT">>, <<"-corr_pt", "CORR_PT">>}
TimerClears == {<<"-no_corr_pt_file", "CORR_PT_FILE">>}
TimerValues ==
  {<<"-dont_touch_list ", "dontTouchFile">>, <<"-dont_use_list ", "dontUseFile">>,
   <<"-dont_touch_cell_list ", "dontTouchCellFile">>, <<"-soceScr", "soceScriptFile">>,
   <<"-etsScr", "etsScriptFile">>, <<"-ptScr", "ptScriptFile">>, <<"-ptLaunchScr", "ptLaunchScriptFile">>,
   <<"-soceBin", "soceBin">>, <<"-ptport ", "PTPORT">>, <<"-soceport ", "PNRPORT">>, <<"-ptnum ", "PTNUM">>,
   <<"-prft_ptnum ", "PRFT_PTNUM">>, <<"-timeout ", "TIMEOUT">>, <<"-verbose ", "VERBOSE">>,
   <<"-dm ", "WIRE_METRIC">>, <<"-sm ", "SLEW_METRIC">>, <<"-cm ", "CAP_METRIC">>, <<"-test ", "TEST_MODE">>,
   <<"-debug_net ", "debug_net">>, <<"-ista_max_visit ", "MAX_VISIT">>, <<"-ista_test_cnt ", "timerTestCnt">>,
   <<"-ista_test_cell ", "timerTestCell">>, <<"-ista_test_move ", "timerTestMove">>,
   <<"-gtr1 ", "GTR_METRIC1">>, <<"-gtr2 ", "GTR_METRIC2">>}
TimerLists ==
  {<<"-dont_touch_inst ", "dontTouchInst">>, <<"-dont_touch_cell ", "dontTouchCell">>,
   <<"-test_cell ", "testCells">>}

MarginSwitches ==
  {<<"-no_topo", "NO_TOPO">>, <<"-trial_move_num ", "TRIAL_MOVE">>, <<"-prft_only", "PRFT_ONLY">>,
   <<"-timing_recovery", "TIMING_RECOVERY">>, <<"-gtr_w_pt_only", "GTRWPT_ONLY">>, <<"-gtr_input", "GTR_IN">>,
   <<"-fast", "FAST">>, <<"-var_gb", "VAR_GB">>, <<"-bg", "BACKGROUND">>, <<"-no_seq_opt", "NO_SEQ_OPT">>}
MarginClears ==
  {<<"-gtr_only", "LEAKOPT">>, <<"-all_pin_chk", "DATA_PIN_ONLY">>, <<"-nobg", "BACKGROUND">>,
   <<"-log", "NO_LOG">>, <<"-clkbuf_opt", "NO_CLKBUF_OPT">>}
MarginValues ==
  {<<"-corr_pt_m ", "CORR_PT_METRIC">>, <<"-max_cell_slack ", "MAX_CELL_SLACK">>,
   <<"-slack_margin ", "slack_margin">>, <<"-slack_margin2 ", "slack_margin2">>,
   <<"-trial_rate ", "TRIAL_RATE">>, <<"-trial_move_num ", "TRIAL_MOVE_NUM">>,
   <<"-gbgtr ", "GUARD_BAND_GTR">>, <<"-gb2ndgtr ", "GUARD_BAND_2ND_GTR">>, <<"-x", "X_IN">>,
   <<"-exp", "EXP_IN">>, <<"-gtr_input", "GTR_FI">>, <<"-clk_diff", "DIFFICULTY">>,
   <<"-var_gb_th ", "VAR_GB_TH">>, <<"-var_gb_rate ", "VAR_GB_RATE">>, <<"-size_file", "UD_FI">>,
   <<"-norm_factor ", "NORMALIZE_FACTOR">>, <<"-gamma ", "GAMMA">>, <<"-slew_th ", "SLEW_TH">>}

LimitSwitches ==
  {<<"-release ", "RELEASE">>, <<"-power_opt_wns", "SAFE_LEAK_OPT">>, <<"-toler_step", "TOLER_STEP">>,
   <<"-vt_only", "VT_ONLY">>, <<"-size_only", "SIZE_ONLY">>, <<"-init_worst_path", "INIT_WORST_PATH">>,
   <<"-dont_touch_crit_cell", "CRIT_CELL_NO_TOUCH">>, <<"-iso_time", "ISO_TIME">>,
   <<"-peephole ", "PEEPHOLE">>, <<"-all_move", "ALL_MOVE">>, <<"-old_version", "OLD_SIZER">>,
   <<"-stm28", "NO_FOOTPRINT">>, <<"-stm28", "STM28">>, <<"-asap7", "NO_FOOTPRINT">>, <<"-asap7", "ASAP7">>,
   <<"-tsmc16ff", "NO_FOOTPRINT">>, <<"-check_all_view", "CHECK_ALL_VIEW">>, <<"-c40", "NO_FOOTPRINT">>,
   <<"-c40", "C40">>}
LimitValues ==
  {<<"-threshold ", "THRESHOLD">>, <<"-offset ", "OFFSET">>, <<"-same_ss_limit ", "SAME_SS_LIMIT">>,
   <<"-power_opt_gb ", "POWER_OPT_GB">>, <<"-timing_opt_gb ", "TIMING_OPT_GB">>,
   <<"-crit_path_ratio ", "CRIT_PATH_RATIO">>, <<"-release ", "RELEASE_MODE">>,
   <<"-power_opt_wns", "SAFE_LEAK_OPT_GB">>, <<"-toler_val ", "TOLERANCE">>, <<"-toler_stop ", "TOLER_STOP">>,
   <<"-toler_num", "TOLER_NUM">>, <<"-crislack", "CRISLACK">>, <<"-beta", "BETA">>,
   <<"-common_thresh ", "COMMON_THRESH">>, <<"-iso_tns", "ISO_TNS">>, <<"-peephole ", "PEEPHOLE_NUMCELL">>,
   <<"-peephole_iter", "PEEPHOLE_ITER">>, <<"-power_worst_view ", "PWR_WORST_VIEW">>}

Options ==
  On(InputSwitches \cup SensitivitySwitches \cup SearchSwitches \cup TimerSwitches
       \cup MarginSwitches \cup LimitSwitches)
  \cup Off(TimerClears \cup MarginClears)
  \cup Value(InputValues \cup SensitivityValues \cup SearchValues \cup TimerValues
                \cup MarginValues \cup LimitValues)
  \cup Append1(SearchLists \cup TimerLists)

Finds(line, key) == IsPrefix(key, line.key)   \* '-' occurs once in a line

-----------------------------------------------------------------------------
(* Settings that hold before any line; FALSE and "" are left out.          *)
Default ==
  [MAX_THREAD |-> 1, GWTW_DIV |-> 4, GWTW_NUM_START |-> 4, STA_MARGIN |-> 0, ALPHA |-> 0,
   BACKGROUND |-> TRUE, useOpenSTA |-> TRUE, swapstep |-> 10000,
   placement_wire_resistance |-> 0, placement_wire_capacitance |-> 0,
   slack_margin |-> 0, ISO_TNS |-> 0, mmmcOn |-> FALSE, noSPEF |-> FALSE,
   benchname |-> "", dontTouchFile |-> "", dontUseFile |-> "", dontTouchCellFile |-> "",
   mmmcFiles |-> <<>>, dontTouchInst |-> <<>>, dontTouchCell |-> <<>>, dontUseCell |-> <<>>, testCells |-> <<>>,
   NO_SEQ_OPT |-> FALSE, NO_CLKBUF_OPT |-> TRUE, MINIMUM |-> FALSE, equivCellSort |-> "leakage", libLibs |-> <<>>,
   GWTW_flag |-> FALSE, thread_flag |-> FALSE, set_margin |-> FALSE,
   numVt |-> 3, suffixHVT |-> "", suffixNVT |-> "", suffixLVT |-> "", numModes |-> 1, numCorners |-> 1]

Get(o, s) == IF s \in DOMAIN o THEN o[s] ELSE Default[s]
Set(o, new) == [s \in DOMAIN o \cup DOMAIN new |-> IF s \in DOMAIN new THEN new[s] ELSE o[s]]
Assign(o, s, val) == Set(o, [x \in {s} |-> val])

\* What one option of the tables makes of a line.
Assigned(o, t, line) ==
  CASE t.how = "on" -> TRUE
    [] t.how = "off" -> FALSE
    [] t.how = "value" -> line.val
    [] t.how = "append" -> Append(IF t.var \in DOMAIN o THEN o[t.var] ELSE <<>>, line.val)

\* No two options of the tables that one line matches assign one setting.
ByTables(o, line) ==
  LET ts == {t \in Options : Finds(line, t.key)}
  IN Set(o, [s \in {t.var : t \in ts} |-> Assigned(o, CHOOSE t \in ts : t.var = s, line)])

Split_Kept(o, mine, other, val) == Assign(Assign(o, mine, val), "GWTW_flag", TRUE)

\* The first of -GWTW_div, -GWTW_num_start splits the threads there are; the
\* other one is what is left of them if -thread was given before it, and
\* else sets the threads.  Nothing corrects the split for a later -thread.
Split(o, mine, other, val) ==
  IF ~Get(o, "GWTW_flag")
  THEN Assign(Assign(Assign(o, mine, val), other, Get(o, "MAX_THREAD") \div val), "GWTW_flag", TRUE)
  ELSE IF Get(o, "thread_flag")
       THEN Assign(o, mine, Get(o, "MAX_THREAD") \div Get(o, other))
       ELSE Assign(Assign(o, mine, val), "MAX_THREAD", val * Get(o, other))

Threads(o, line) ==
  CASE line.key = "-GWTW_div " -> Split(o, "GWTW_DIV", "GWTW_NUM_START", line.val)
    [] line.key = "-GWTW_num_start " -> Split(o, "GWTW_NUM_START", "GWTW_DIV", line.val)
    [] line.key = "-thread " -> Assign(Assign(o, "MAX_THREAD", line.val), "thread_flag", TRUE)
    [] OTHER -> o

\* An integer division by zero stops the program.
DividesByZero(o, line) ==
  \/ line.key \in {"-GWTW_div ", "-GWTW_num_start "} /\ ~Get(o, "GWTW_flag") /\ line.val = 0
  \/ line.key = "-GWTW_div " /\ Get(o, "GWTW_flag") /\ Get(o, "thread_flag") /\ Get(o, "GWTW_NUM_START") = 0
  \/ line.key = "-GWTW_num_start " /\ Get(o, "GWTW_flag") /\ Get(o, "thread_flag") /\ Get(o, "GWTW_DIV") = 0

Fast == 3   \* the margin -fast stands for, in thousandths
Margin_Fast(o, line) ==
  IF line.key = "-sta_m " THEN Assign(o, "STA_MARGIN", line.val)
  ELSE IF Finds(line, "-fast") THEN Assign(o, "STA_MARGIN", Fast) ELSE o

\* -fast sets the margin unless -sta_m has.
Margin(o, line) ==
  IF line.key = "-sta_m " THEN Assign(Assign(o, "STA_MARGIN", line.val), "set_margin", TRUE)
  ELSE IF Finds(line, "-fast") /\ ~Get(o, "set_margin") THEN Assign(o, "STA_MARGIN", Fast) ELSE o

\* The last of -alpha and -old_version counts.
Alpha(o, line) ==
  CASE line.key = "-alpha " -> Assign(o, "ALPHA", line.val)
    [] Finds(line, "-old_version") -> Assign(o, "ALPHA", 0)
    [] OTHER -> o

\* These are on, unless a 0 follows.
Repairs == {<<"-fix_cap", "FIX_CAP_REPAIR">>, <<"-fix_slew", "FIX_SLEW_REPAIR">>, <<"-fix_global", "FIX_GLOBAL">>}
Repair(o, line) ==
  LET found == {p \in Repairs : Finds(line, p[1])}
  IN Set(o, [s \in {p[2] : p \in found} |-> ~\E p \in found : line.key = p[1] \o " " /\ line.val = 0])

\* The values the code rejects with exit(1).
Rejected(line) ==
  \/ line.key = "-use_gr_rc " /\ line.val \notin {0, 1}
  \/ line.key = "-gr_rc_congestion_iterations " /\ line.val \notin {10, 50}
  \/ line.key = "-hold_margin " /\ line.val < 0
  \/ line.key \in {"-placement_wire_resistance_ohm_per_um ", "-placement_wire_capacitance_pf_per_um "}
       /\ line.val <= 0
  \/ line.key \in {"-fix_cap ", "-fix_slew ", "-fix_global "} /\ line.val \notin {0, 1}
  \/ line.key = "-equiv_cell_sort "
       /\ line.val \notin {"leakage", "drive_resistance", "drive_res", "drive"}

-----------------------------------------------------------------------------

Stopped == {"exit", "crash"}
Stop(how) == pc' = how /\ UNCHANGED <<n, opt, view>>

\* One turn of readCmdFile's loop.
ReadCmd ==
  /\ pc = "cmd" /\ n < Len(file)
  /\ LET line == file[n + 1]
     IN CASE Rejected(line) -> Stop("exit")
          [] DividesByZero(opt, line) -> Stop("crash")
          [] OTHER ->
               /\ opt' = Repair(Alpha(Margin(Threads(ByTables(opt, line), line), line), line), line)
               /\ n' = n + 1
               /\ UNCHANGED <<pc, view>>
  /\ UNCHANGED <<file, envFile>>

\* The files the command file names, by the list they extend.
ListFiles ==
  [dontTouchInst |-> "dontTouchFile", dontUseCell |-> "dontUseFile", dontTouchCell |-> "dontTouchCellFile"]

Extended(o) ==
  [l \in DOMAIN ListFiles |->
     LET name == Get(o, ListFiles[l]) IN Get(o, l) \o (IF name = "" THEN <<>> ELSE Lists[name])]

\* Names the code makes of the design's name when none is given.
Named ==
  [defFile |-> ".def", verilogFile |-> ".v", sdcFile |-> ".sdc",
   verilogOutFile |-> "_eco.v", defOutFile |-> "_eco.def", spefOutFile |-> "_eco.spef"]

Completed(o) ==
  LET named == Set(o, [s \in DOMAIN Named \ DOMAIN o |-> Get(o, "benchname") \o Named[s]])
      stepped == IF Get(o, "swapstep") = 0 THEN Assign(named, "swapstep", 10000) ELSE named
      viewed == IF Get(o, "mmmcOn") THEN stepped ELSE Assign(stepped, "mmmcFiles", <<>>)
  IN IF Get(o, "noSPEF") THEN Assign(viewed, "WIRE_METRIC", "ND") ELSE viewed

OneWireRc(o) ==
  /\ {"placement_wire_resistance", "placement_wire_capacitance"} \cap DOMAIN o # {}
  /\ 0 \in {Get(o, "placement_wire_resistance"), Get(o, "placement_wire_capacitance")}

\* readEnvFile clears what it may set, and the names of the lists.
EnvCleared ==
  [root |-> "", dbLibPath |-> "", libLibPath |-> "", suffixHVT |-> "", suffixLVT |-> "", suffixNVT |-> "",
   suffix |-> "", numVt |-> 3, dontTouchFile |-> "", dontUseFile |-> "", dontTouchCellFile |-> "",
   numModes |-> 1, numCorners |-> 1]

\* The end of readCmdFile and the start of readEnvFile.
EndCmd ==
  /\ pc = "cmd" /\ n = Len(file)
  /\ IF \/ Get(opt, "benchname") = ""
        \/ \E l \in DOMAIN ListFiles : Get(opt, ListFiles[l]) \notin DOMAIN Lists \cup {""}
        \/ OneWireRc(opt)
     THEN Stop("exit")
     ELSE /\ opt' = Set(Completed(Set(opt, Extended(opt))), EnvCleared)
          /\ pc' = "env" /\ n' = 0 /\ UNCHANGED view
  /\ UNCHANGED <<file, envFile>>

-----------------------------------------------------------------------------
EnvValues ==
  {<<"-home ", "root">>, <<"-srv ", "serverName">>, <<"-dbpath ", "dbLibPath">>,
   <<"-libpath ", "libLibPath">>, <<"-num_vt ", "numVt">>, <<"-num_modes ", "numModes">>,
   <<"-num_corners ", "numCorners">>, <<"-lefPath ", "lefPath">>, <<"-setRCFile ", "setRCFile">>,
   <<"-tclFile ", "util_tcl_file">>, <<"-suffix_nvt ", "suffixNVT">>, <<"-suffix_lvt ", "suffixLVT">>,
   <<"-suffix_hvt ", "suffixHVT">>, <<"-suffix_all ", "suffix">>, <<"-equiv_cell_sort ", "equivCellSort">>}
EnvLists ==
  {<<"-db ", "dbLibs">>, <<"-mindb ", "dbMinLibs">>, <<"-lib ", "libLibs">>, <<"-envlib ", "envlibLibs">>,
   <<"-minlib ", "libMinLibs">>, <<"-suffix ", "libSuffix">>, <<"-lef ", "lefFiles">>}
EnvOptions == Value(EnvValues) \cup Append1(EnvLists)

ReadEnv ==
  /\ pc = "env" /\ n < Len(envFile)
  /\ LET line == envFile[n + 1]
         found == {t \in EnvOptions : Finds(line, t.key)}
     IN IF Rejected(line) THEN Stop("exit")
        ELSE /\ opt' = Set(opt, [s \in {t.var : t \in found} |->
                                   Assigned(opt, CHOOSE t \in found : t.var = s, line)])
             /\ n' = n + 1 /\ UNCHANGED <<pc, view>>
  /\ UNCHANGED <<file, envFile>>

-----------------------------------------------------------------------------
(* Views.  With -mmmc each file is a view with a corner of its own; files  *)
(* with one SDC share a mode.                                              *)

EndEnv ==
  /\ pc = "env" /\ n = Len(envFile)
  /\ pc' = IF Get(opt, "mmmcOn") THEN "mmmc" ELSE "single"
  /\ n' = 0
  /\ UNCHANGED <<file, envFile, opt, view>>

Given(x, default) == IF x # 0 THEN x ELSE default

ModeOf_Next(sdcs, sdc) == Len(sdcs) + 1
ModeOf(sdcs, sdc) ==
  IF \E i \in DOMAIN sdcs : sdcs[i] = sdc THEN CHOOSE i \in DOMAIN sdcs : sdcs[i] = sdc ELSE Len(sdcs) + 1

\* readMMMCFile: every list gets an entry but init_score.
ReadView ==
  /\ pc = "mmmc" /\ n < Len(Get(opt, "mmmcFiles"))
  /\ LET name == Get(opt, "mmmcFiles")[n + 1]
     IN IF name \notin DOMAIN ViewFiles THEN Stop("exit")
        ELSE LET f == ViewFiles[name]
                 mode == ModeOf(view.sdcs, f.sdc)
             IN /\ view' = [view EXCEPT
                     !.views = Append(@, [corner |-> Len(view.spefs) + 1, mode |-> mode]),
                     !.libs = Append(@, f.libs), !.spefs = Append(@, f.spef),
                     !.sdcs = IF mode > Len(@) THEN Append(@, f.sdc) ELSE @,
                     !.weight = Append(@, f.weight),
                     !.slack = Append(@, Given(f.slack, Get(opt, "slack_margin"))),
                     !.tns = Append(@, Given(f.iso, Get(opt, "ISO_TNS"))),
                     !.tran = Append(@, f.tran)]
                /\ n' = n + 1 /\ UNCHANGED <<pc, opt>>
  /\ UNCHANGED <<file, envFile>>

\* main counts the lists, and gives each view the weight 1 if none has one.
EndViews ==
  /\ pc = "mmmc" /\ n = Len(Get(opt, "mmmcFiles"))
  /\ view' = [view EXCEPT
       !.weight = IF \A i \in DOMAIN @ : @[i] = 0 THEN [i \in DOMAIN @ |-> 1] ELSE @]
  /\ opt' = Set(opt, [numCorners |-> Len(view.spefs), numModes |-> Len(view.sdcs)])
  /\ pc' = "parse" /\ UNCHANGED <<file, envFile, n>>

\* initSingleMode: init_score has an entry here, viewMaxTranMargin none.
SingleMode ==
  /\ pc = "single"
  /\ view' = [view EXCEPT
       !.views = <<[corner |-> 1, mode |-> 1]>>, !.weight = <<1>>,
       !.slack = <<Get(opt, "slack_margin")>>, !.tns = <<0>>, !.score = <<0>>]
  /\ opt' = Set(opt, [numCorners |-> 1, numModes |-> 1])
  /\ pc' = "parse" /\ UNCHANGED <<file, envFile, n>>

CmdInit ==
  /\ pc = "cmd" /\ n = 0
  /\ \E c \in Cases : file = c.cmd /\ envFile = c.env
  /\ opt = <<>>
  /\ view = [views |-> <<>>, libs |-> <<>>, spefs |-> <<>>, sdcs |-> <<>>, weight |-> <<>>,
             slack |-> <<>>, tns |-> <<>>, tran |-> <<>>, score |-> <<>>]

CmdNext == ReadCmd \/ EndCmd \/ ReadEnv \/ EndEnv \/ ReadView \/ EndViews \/ SingleMode

-----------------------------------------------------------------------------
(* The last line of the command file that has an option's own key word.    *)
Own(key) == {i \in 1..Len(file) : file[i].key = key}
LastVal(key) == file[CHOOSE i \in Own(key) : \A j \in Own(key) : j <= i].val

\* Options that are found in the line of another one, with that line's key.
Aliases ==
  {<<"-hold", "-hold_only">>, <<"-hold", "-hold_margin ">>, <<"-mmmc", "-mmmcFile ">>,
   <<"-corr_pt", "-corr_pt_m ">>, <<"-use_full_sta", "-use_full_sta2">>, <<"-preplace", "-preplace_gain">>,
   <<"-var_gb", "-var_gb_th ">>, <<"-var_gb", "-var_gb_rate ">>}

(* When the command file has been read, each setting with an option of its *)
(* own is what the last line with that option says, whatever the order of  *)
(* the lines; -fast never overrides -sta_m; and switches that no line      *)
(* names are off, but for eight key words that start another one's.  So    *)
(* -hold_margin, a target of the hold repair, turns hold checks on in the  *)
(* optimizer as well.                                                      *)
ReadAsMeant ==
  pc \notin {"cmd"} \cup Stopped =>
    /\ \A t \in Options :
         t.how = "value" /\ Own(t.key) # {} /\ t.var \notin {"saifFile", "swapstep", "WIRE_METRIC"}
                         /\ t.var \notin DOMAIN EnvCleared \cup {"equivCellSort"} =>
           opt[t.var] = LastVal(t.key)
    /\ Get(opt, "STA_MARGIN") = IF Own("-sta_m ") # {} THEN LastVal("-sta_m ")
                                ELSE IF Own("-fast") # {} THEN Fast ELSE Default["STA_MARGIN"]
    /\ \A t \in Options :
         t.how = "on" /\ t.var \in DOMAIN opt /\ opt[t.var] =>
           \E u \in Options : u.var = t.var /\
             (Own(u.key) # {} \/ \E a \in Aliases : a[1] = u.key /\ Own(a[2]) # {})

(* The threads are split into as many starts of as many threads as there   *)
(* are: no thread works for a start past the last one.  It holds unless    *)
(* -thread comes after the split, or the split is smaller than a thread.   *)
ThreadsSplit ==
  Get(opt, "GWTW_flag") /\
  (\A i \in Own("-thread ") : \A j \in Own("-GWTW_div ") \cup Own("-GWTW_num_start ") : i < j)
    => Get(opt, "GWTW_DIV") * Get(opt, "GWTW_NUM_START") <= Get(opt, "MAX_THREAD")

(* The lists the views index fit: each view has a corner of its own and    *)
(* the mode of its file's SDC, some view counts, and every list indexed by *)
(* a view has an entry for each; init_score has none with -mmmc.           *)
ViewsFit ==
  pc = "parse" =>
    LET v == view.views
    IN /\ \A i \in DOMAIN v :
            /\ v[i].corner \in 1..Get(opt, "numCorners") /\ v[i].mode \in 1..Get(opt, "numModes")
            /\ \A j \in DOMAIN v : v[i].corner = v[j].corner => i = j
            /\ Get(opt, "mmmcOn") =>
                 LET f == ViewFiles[Get(opt, "mmmcFiles")[i]]
                 IN /\ view.sdcs[v[i].mode] = f.sdc /\ view.spefs[v[i].corner] = f.spef
                    /\ \A j \in DOMAIN v :
                         (v[i].mode = v[j].mode) <=> (f.sdc = ViewFiles[Get(opt, "mmmcFiles")[j]].sdc)
       /\ \A l \in {"weight", "slack", "tns"} : Len(view[l]) = Len(v)
       /\ v # <<>> => \E i \in DOMAIN v : view.weight[i] # 0
       /\ Len(view.score) = IF Get(opt, "mmmcOn") THEN 0 ELSE Len(v)
=============================================================================
