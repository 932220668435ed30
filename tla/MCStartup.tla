----------------------------- MODULE MCStartup -----------------------------
(***************************************************************************)
(* Two groups of cases.  One reads command files of up to three options    *)
(* from a list of those that depend on each other or on their order, over  *)
(* an empty library and design.  The other reads one design with each of   *)
(* seven libraries, under the options that loading looks at.               *)
(***************************************************************************)
EXTENDS DesignReader

L(key, val) == [key |-> key, val |-> val]
Top == L("-top ", "top")

Lines ==
  {L("-hold_margin ", 20), L("-hold_only", ""), L("-fast", ""), L("-sta_m ", 7),
   L("-GWTW_div ", 2), L("-GWTW_num_start ", 3), L("-thread ", 8), L("-thread ", 1),
   L("-mmmcFile ", "v1"), L("-mmmcFile ", "v2"), L("-mmmcFile ", "v3"), L("-fix_cap ", 0), L("-fix_cap", ""),
   L("-alpha ", 5), L("-old_version", ""), L("-preplace_gain", ""), L("-var_gb_th ", 3),
   L("-nobg", ""), L("-bg", ""), L("-noSPEF", "")}
\* Lines read in pairs only.
Rare ==
  {L("-hold_margin ", -1), L("-GWTW_num_start ", 0), L("-dont_touch_list ", "gone"), L("-mmmcFile ", "gone"),
   L("-dont_touch_list ", "touch"), L("-dont_touch_inst ", "u1"), L("-mmmc", ""), L("-use_full_sta2", ""),
   L("-corr_pt_m ", "SLK"), L("-placement_wire_resistance_ohm_per_um ", 1),
   L("-placement_wire_capacitance_pf_per_um ", 1), L("-dm ", "EM"), L("-n ", 0), L("-x", 2), L("-exp", 2),
   L("-fix_slew ", 2), L("-use_gr_rc ", 1), L("-gr_rc_congestion_iterations ", 20), L("-equiv_cell_sort ", "area"),
   L("-trial_move_num ", 3), L("-useTempus", ""), L("-log", ""), L("-var_gb_rate ", 1)}

NoLib == <<L("-num_vt ", 1), L("-lef ", "l")>>
CmdCases ==
  {[cmd |-> <<Top, a, b, c>>, env |-> NoLib] : a, b, c \in Lines}
  \cup {[cmd |-> <<Top, a, b>>, env |-> NoLib] : a \in Rare, b \in Rare \cup Lines}
  \cup {[cmd |-> <<L("-fast", "")>>, env |-> NoLib]}

\* Inverters x1, x2, x4 in three Vts, a buffer, a flop, a clock buffer.
MCCellDb ==
  LET D(class, drive, leakage, seq) ==
        [class |-> class, drive |-> drive, leakage |-> leakage, cap |-> drive, sequential |-> seq]
      VtSuffixes == {"", "H7H", "H7R", "H7L"}
  IN [c \in ({"x1", "x2", "x4"} \X VtSuffixes) \cup {<<"buf", "H7R">>, <<"buf", "">>, <<"ff", "H7R">>, <<"ff", "">>} |->
        LET vt == CASE c[2] = "H7H" -> 1 [] c[2] = "H7L" -> 3 [] OTHER -> 2
        IN CASE c[1] = "x1" -> D("inv", 1, 10 * vt + 1, FALSE) [] c[1] = "x2" -> D("inv", 2, 10 * vt + 2, FALSE)
             [] c[1] = "x4" -> D("inv", 3, 10 * vt + 3, FALSE) [] c[1] = "buf" -> D("buf", 1, 5, FALSE)
             [] OTHER -> D("ff", 1, 9, TRUE)]

Plain(sfx) == <<<<"x4", sfx>>, <<"x1", sfx>>, <<"x2", sfx>>, <<"buf", "H7R">>, <<"ff", "H7R">>>>
MCLibFiles ==
  [slow |-> [ics55 |-> FALSE, cells |-> <<<<"x4", "H7H">>, <<"x1", "H7H">>>>],
   all |-> [ics55 |-> FALSE, cells |-> Plain("H7R") \o <<<<"x2", "H7L">>, <<"x1", "H7L">>>>],
   ics |-> [ics55 |-> TRUE, cells |-> Plain("H7R") \o <<<<"x2", "H7L">>>>],
   bare |-> [ics55 |-> FALSE, cells |-> Plain("")],
   ff |-> [ics55 |-> FALSE, cells |-> <<<<"x1", "H7R">>, <<"buf", "H7R">>, <<"x4", "H7R">>, <<"ff", "H7R">>>>]]

VF(l, s, d, w) == [libs |-> l, spef |-> s, sdc |-> d, weight |-> w, slack |-> 0, iso |-> 0, tran |-> 0]
MCViewFiles == [v1 |-> VF(<<>>, "s1", "d1", 0), v2 |-> VF(<<>>, "s2", "d1", 0), v3 |-> VF(<<>>, "s1", "d2", 2),
                c1 |-> VF(<<"all", "slow">>, "s1", "d1", 1), c2 |-> VF(<<"ff", "all">>, "s2", "d2", 1)]

Three == <<L("-num_vt ", 3), L("-suffix_hvt ", "H7H"), L("-suffix_nvt ", "H7R"), L("-suffix_lvt ", "H7L")>>
Two == <<L("-num_vt ", 2), L("-suffix_hvt ", "H7H"), L("-suffix_nvt ", "H7R")>>
Libraries ==
  {Three \o <<L("-lib ", "all"), L("-lib ", "slow")>>, Three \o <<L("-lib ", "slow"), L("-lib ", "all")>>,
   Two \o <<L("-lib ", "slow"), L("-lib ", "ff")>>, <<L("-num_vt ", 3), L("-lib ", "all")>>,
   <<L("-num_vt ", 1), L("-lib ", "slow"), L("-lib ", "ics")>>, <<L("-num_vt ", 1), L("-lib ", "bare")>>,
   Two \o <<L("-lib ", "slow"), L("-lib ", "bare")>>}
LoadCases ==
  {[cmd |-> <<Top>> \o o \o p, env |-> e] :
     e \in Libraries,
     o \in {<<>>, <<L("-minimum", "")>>, <<L("-dont_use_list ", "use")>>, <<L("-equiv_cell_sort ", "drive")>>,
            <<L("-dont_touch_list ", "touch"), L("-dont_touch_cell ", <<"x1", "H7R">>)>>},
     p \in {<<>>, <<L("-clkbuf_opt", "")>>, <<L("-no_seq_opt", "")>>, <<L("-noSPEF", "")>>,
            <<L("-mmmcFile ", "c1")>>, <<L("-mmmcFile ", "c1"), L("-mmmcFile ", "c2")>>}}

MCCases == CmdCases \cup LoadCases
MCLists == [touch |-> <<"u1", "ck2">>, use |-> <<<<"x2", "H7R">>, <<"x1", "">>>>]

\* u1 and u2 in a row between ports and a flop, whose clock comes over two
\* buffers; a macro with no Liberty cell; a net with two drivers.
I(name, master, core) == [name |-> name, master |-> master, core |-> core]
MCInsts ==
  <<I("u1", <<"x1", "H7R">>, TRUE), I("u2", <<"x2", "H7L">>, TRUE), I("u3", <<"x4", "H7H">>, TRUE),
    I("ff", <<"ff", "H7R">>, TRUE), I("ck1", <<"buf", "H7R">>, TRUE), I("ck2", <<"x4", "H7R">>, TRUE),
    I("ram", Unknown, FALSE), I("pad", <<"x1", "H7R">>, FALSE), I("b", <<"x1", "">>, TRUE)>>
T(inst, role, out) == [inst |-> inst, role |-> role, out |-> out]
Net(kind, iterms, bterms, clock, nodes, res) ==
  [kind |-> kind, iterms |-> iterms, bterms |-> bterms, clock |-> clock, nodes |-> nodes, res |-> res]
P(i) == <<"pin", i>>
N(i) == <<"node", i>>
MCDbNets ==
  <<Net("net", <<T(1, "other", FALSE), T(9, "other", FALSE)>>, <<[out |-> FALSE]>>, FALSE,
        <<N(1)>>, <<<<P(3), N(1)>>, <<N(1), P(1)>>, <<N(1), P(2)>>>>),
    Net("net", <<T(1, "other", TRUE), T(2, "other", FALSE), T(7, "other", FALSE)>>, <<>>, FALSE,
        <<N(1), N(2)>>, <<<<P(1), N(1)>>, <<N(1), N(2)>>, <<N(2), P(2)>>, <<N(2), N(2)>>, <<N(1), P(3)>>>>),
    Net("net", <<T(2, "other", TRUE), T(4, "data", FALSE), T(3, "other", FALSE)>>, <<>>, FALSE,
        <<>>, <<<<P(1), P(2)>>, <<N(9), P(3)>>, <<P(1), P(3)>>>>),
    Net("clk_name", <<T(6, "other", FALSE)>>, <<[out |-> FALSE]>>, TRUE, <<>>, <<<<P(1), P(2)>>>>),
    Net("net", <<T(6, "other", TRUE), T(5, "other", FALSE)>>, <<>>, TRUE, <<>>, <<<<P(1), P(2)>>>>),
    Net("net", <<T(5, "other", TRUE), T(4, "clock", FALSE)>>, <<>>, TRUE, <<>>, <<<<P(1), P(2)>>>>),
    Net("skipped", <<T(7, "other", FALSE)>>, <<>>, FALSE, <<>>, <<>>),
    Net("net", <<T(3, "other", TRUE), T(7, "other", TRUE), T(8, "other", FALSE)>>, <<[out |-> TRUE]>>, FALSE, <<>>, <<>>)>>
=============================================================================
