# ecc-sizer: a TLA+ verification project

ecc-sizer resizes the cells of a placed design (drive strength and threshold
voltage, "size" and "Vt") to repair timing, slew and capacitance violations at
low power.  It is one sequential C++ program on top of OpenROAD: OpenDB holds
the design, OpenSTA times it, and the sizer works on its own copy of the cells
and its own timer, synchronising the copies from time to time.  These modules
model the control of that program: what is copied when, which copy is current,
what is undone, what is remembered as best and what is exported in the end.

Paths below are relative to the repository's root.

## 1. Inventory

| Part | State | Operations | Interacts with | Hard because | Correct when |
|---|---|---|---|---|---|
| Command, environment and view files (`src/src/sizer.cpp`) | some 250 globals, the views | `readCmdFile`, `readEnvFile`, `readMMMCFile`, `initSingleMode` | everything | options are found as substrings, and mean what earlier ones made of them | a setting is what its last line says; every indexed list is filled |
| Library tables (`ckt.cpp`, `lib_parser.cpp`) | candidates of a class; table: row by size, column by Vt | read, sort, build, look up | cell records | holes, suffixes, several corners | a cell's own slot holds its master |
| Readers (`ckt.cpp`) | cells, pins, nets, wire graphs, dont-touch marks | `readDesign_opensta`, `assignLibPinId`, `readSpef_opensta` | all | numbers of pins, nets and cells that point at each other | they do |
| Graph preparation (`graphop.cpp`) | topological order, path counts | `SortTopo`, `CountPaths` | timers, sensitivities | loops cut, pins in parallel, words that overflow | every fan-in first; counts true |
| Full timer (`timer.cpp`, `calc.cpp`) | slew, arrival, required time of every pin | `CallTimer` | everything | edges, unateness, order | the timing equations hold |
| Incremental timer (`OneTimer`) | as above, work lists | retime what a move disturbs | trial loops | reconvergence; thresholds | what trials look at is exact; undone is undone |
| Correlation (`CorrelatePT`, `analyze_timing.cpp`) | offsets of slew, arrival, slack | synchronise, read OpenSTA, correct | search | corrections on top of corrections | the timer shows OpenSTA's numbers |
| Cell records and swaps (`sizer.cpp`, `ckt.h`) | `CELL`: type, `c_size`, `c_vtype`, `isChanged`, `isDontTouch`; pin capacitances | `cell_resize`, `cell_retype`, `UpdatePTSizes`, `UpdateCapsFromCells`, `SizeOut`, `SizeInit` | OpenDB masters, timer, snapshots | four copies of one fact, marks that are counted up and down | no edit is lost, the copies agree |
| Trial loops (`Attack`, `AttackNew`, `FwdFixSlewViolation`, `...Post`) | the cell under trial, target lists | move, retime its cone, judge, keep or undo | cell records, incremental timer | undone by the inverse move, not from a copy; loops that end only when a list is empty | a rejected trial leaves no trace, an accepted one does what it promised; they end |
| Capacitance repair (`fixdrv.cpp`) | target lists | grow drivers, shrink loads | search | moves load other nets | it ends; counts are true |
| Search (`Post_PowerOpt`) | scores, violations, local and global best, `.size` file, loop counters | three nested loops around the repairs | trial loops, repairs, correlation | exits that depend on each other; one global score | the best is the best, and is what it was measured on; the loops end |
| Launcher (`Parallel_Sizer_Launcher`) | `g_cells`, best solutions, marks | synchronise, clear marks, run searches | search, final report | a search starts from a snapshot older than the database | the report brings all copies together |
| Final report and export (`FinalReport`, `runOrdTO`, `main`) | database, placement, RC | swap masters, legalize, refresh RC, repair, write | OpenROAD | each call makes another's result out of date | the report is about what is written |
| Modes (`runPreplace`, `runHoldOnly`, `runLegalizeOnly`) | as above | as above | as above | four flows share the same helpers | each keeps its promises |
| Parasitics (`refreshOpenStaParasitics`, `applyOpenStaDbChanges`, `init_opensta`) | RC source, incremental routing | placement RC, routed RC, incremental update | OpenROAD routing and Resizer | incremental updates need a routed seed | every consumer sees fresh RC of the selected kind |
| Special nets (`special_net.cpp`) | net of each power pin | connect pins of new instances | repairs | must not override explicit connections | everything inserted is powered |
| PAD boundary (`ckt.cpp`) | dont-touch nets | mark, scan, abort | repairs | repairs may buffer a port-to-PAD net | no such buffer is exported |
| Legalizer (`legalize_core.cpp`, vendored operators) | rows, blanks, cell positions | greedy legalization, Abacus, padding, fallback | every mode | full rows, padding, obstacles | legal or refused |

There are no threads in the shipped flow (the launcher calls the search
directly), no messages and no persistence other than the `.size` file.  What is
hard is a long sequence of legal calls over several copies of the same state.
Dead code, found while reading: the kick moves, the leakage reduction loop and
the WNS path optimizer (guarded by `false` or by `leak_iter`, which stays 0),
`cell_move`, `cell_change`, `cell_resize_cap`.

## 2. Modules

How they build on each other (`A <- B`: B extends A):
`CmdFile <- LibTable <- DesignReader` is the startup up to a loaded design;
`Topo <- Paths <- Timer <- Repair` is the optimizer's inner loop on its own
timer; `CellSwap`, `PowerOpt` (with `BestSoFar`), `FixCap`, `SpecialNet`,
`Legalize` model one part each; `SizerFlow` puts the parts in the order `main`
calls them.

| Module | Models | State and actions in the code |
|---|---|---|
| `CmdFile` | the files that say what to do | `opt` is the globals, `view` the views; `ReadCmd`, `ReadEnv` and `ReadView` read one line or one view's file.  `Options` lists the options by what their branch does; a line is tested against every key word, as `line.find` does |
| `LibTable` | Liberty files to tables | one cell of a file per step, then candidates sorted by drive strength, rows and columns, slots |
| `DesignReader` | the rest of `Circuit::Parser` | instances, nets, dont-touch rules, slots, roles of pins, corners, parasitics |
| `MCStartup` | its instances | command files of up to three lines; one design under seven libraries |
| `Topo` | `SortTopo` | `Fwd`, `Bwd` are one turn of its two queue loops, `FwdDone`, `BwdDone` what follows them; the netlist, the flops and the cells with input pins are chosen in `Init` |
| `Paths` | `CountPaths`, `CountPathsLesserThanSlack` | operators on a sorted netlist, with `unsigned` arithmetic modulo `Word` |
| `Timer` | `CallTimer`, `OneTimer`, `CorrelatePT` | `t` is what the timer stores per pin and edge; `StartTimer`, `Retimed`, `Resize` (a move, or a trial taken back) and `Correlate` are calls of the code.  The work lists of `OneTimer` are sequences walked as in the code, with its thresholds and visit counts |
| `MCTimer`, `MCTables` | its instance | every netlist of three cells in the bounds; small tables of integers |
| `Repair` | one timing recovery: slew repairs, `AttackNew` or `Attack`, the slew repairs again | `Begin` times, correlates and scores the design; `Settle` does after an attack that changed something; in stage `compare` the score is compared, and `NextRound` goes on or leaves the loop; `todo` holds the pins, nets or targets still to look at; one action per item; moves go through `Timer`'s `OneTimer` |
| `MCRepair` | its instance | three netlists of four cells, see section 3 |
| `CellSwap` | the life of a cell's master | `cells`/`caps`/`db`/`best`/`bestLocal`/`sizeFile` are the search's `cells`, the input pins' `cap`, the masters of OpenDB, `best_cells_poweropt`, `best_cells_local` and `<design>.size`. `Resized`, `Retyped` are `cell_resize`, `cell_retype`; `Synced`, `SyncedDb` are `UpdatePTSizes`; `TryMove`/`AcceptTrial`/`RestoreTrial` are one turn of a trial loop; `Repair` a move without a trial; `Launch`, `StartSearch`, `SaveBest`, `EndSearch`, `WriteSizes`, `FinalReport` are the launcher, the ends of `Post_PowerOpt` and the report. |
| `MCCellSwap` | its instance | one cell with three rows, a hole and a name OpenDB lacks; one dont-touch cell with a table of its own; one outside all tables; one flop without clock pin |
| `BestSoFar` | what bookkeeping of a best solution promises | abstract |
| `PowerOpt` | `Post_PowerOpt`: three loops, four checks, two sets of books | `pc` names places of the function; one action is the code between two places |
| `MCPowerOpt` | its instance | three solutions, one with two possible scores |
| `FixCap` | `FwdFixCapViolation`, then `BwdFixCapViolation` | `row` is `c_size`, `tot` the stored `totcap`; `FwdLook`/`Shrink`/`FwdGiveUp` are a turn of the forward `while` loop, `Grow`/`BwdFull`/`BwdFits` of the backward one; `Retimed` is what `OneTimer` does to `totcap`, `NextRow` what `cell_resize` does to the row |
| `MCFixCap` | its instance | six cells, see section 3 |
| `Legalize` | `legalizePlacement`, `dpLegalizeCore`, the operators it calls | `Begin` (applicable? already legal?), `GreedyFirst`, `GreedySecond`, `Guard`, `Abacus`, `Pad`; outcomes `done`, `dpl` (left to `detailed_placement`) and `abort` |
| `MCLegalize` | its instance | eight layouts of rows and fixed instances |
| `SpecialNet` | `connectMissingWildcardSpecialNetPins` | `TakeNet`, `TakeName` are one turn of its two loops; `Insert` is a repair between calls |
| `MCSpecialNet` | its instance | three pins of one name, one of another |
| `SizerFlow` | `main` and the four modes over the shared design | a function is a sequence of commands; an action executes the next one; `Legalize` leaves what the legalizer in use `Delivers`, `LegalizeAborts` is Abacus' assertion; `Chained` is the scan of `ckt.cpp:162` |
| `MCSizerFlow` | its instances | one plain net, one net of a port and PADs only, one mixed net |
| `StartupProofs`, `TimerProofs` (with `Repair`), `CellSwapProofs`, `PowerOptProofs`, `FixCapProofs`, `LegalizeProofs`, `SpecialNetProofs`, `SizerFlowProofs` | theorems, section 5 | - |

What is abstracted: values of options (integers and names without key words);
in `LibTable` a library cell is a record of what the sorting looks at; in
`Timer` the tables of slews, delays, setups and wire delays are parameters and
OpenSTA is the same timer with a bias; in `Repair` the sensitivities that rank
targets are any numbers and power is leakage; in `CellSwap` the timing that
decides which cell is tried and kept; in `PowerOpt` what the repairs do to a
solution (anything) and what is measured (any score `Score` allows); in
`SizerFlow` the numbers behind placement and RC (legal or not, source, fresh or
not).

## 3. Runs

| Run | Question | Bounds and why they are enough |
|---|---|---|
| `startup` | Are options read as meant? Do views, tables, slots, pins, nets and wires fit together? | command files of up to three lines from two dozen options that start, contain or depend on each other, each order of them; one design of nine instances (two with a suffixless or unknown master, a macro, a pad, a flop, a clock over two buffers), eight nets (two drivers, no parasitics, a node unknown), seven libraries of one to three Vts and corners |
| `timer` | Is the full timing right, a move retimed, a trial undone, a correlation exact, an order an order, a count a count? | every netlist of three cells with up to four input pins: self loops, two-cell loops with tails, reconvergence, parallel pins all occur, and all are sorted and counted; timed are those with at most three single wires and one flop; `MaxRow` = 1, `MaxSteps` = 2 calls; `Word` = 8 lets counts overflow |
| `repair` | Does a kept move do what its trial promised? Is the score compared that of the cells at hand? Does the recovery end? | three netlists of four cells: reconvergence, a flop that feeds two levels, one driver with three levels behind it; all rows of a table of four, two holes, one dont-touch cell |
| `cellswap` | Two searches under four option settings: is an edit ever lost, a trial left half undone, a frozen cell swapped, the export wrong? | four cells, two Vt columns, up to three rows: a clamp needs a step of two on three rows, a hole needs two columns; `MaxStep` = 2; `MaxChg` = 2 marks between synchronisations, so that trials run on cells already marked; `Rounds` = 2: the second search starts from a snapshot older than the database |
| `poweropt` | Are the kept scores those of the kept solutions? Is the file on disk the best? Do both books implement `BestSoFar`? Do the loops end? | three solutions: the best, a worse one, and one the timer sees as either; `KickMax` = 2, `OptEffort` = 2, `MaxRecovery` = 2 (the last recovery iteration differs from the first) |
| `fixcap` | Is a stale load ever tested? Is one backward pass enough? Does the repair end? | six cells in every choice of rows: a flop, reconvergence, two pins of one cell on one net, a dont-touch load, a cell with a hole in its table, one without a library cell, clock nets; capacitances up to 7 make every branch of both loops fire |
| `fixcap_vtonly` | Does the backward pass end with `-vt_only`? | violated, see section 6 |
| `legalize` | Is what legalization delivers legal, each row padded or not as a whole, where a legal row can be had? | three cells of one, two and two sites in rows of six; eight layouts (free; fixed instances on and off the sites, over both rows, partly outside the core; one that leaves a cell without a place; a split row; one row; a missing row); each cell at nine places; padding 0 or 1; native or not |
| `legalize_guard` | Does everything that does not fit fall back? | the same; violated, see section 6 |
| `special_net` | Does a call connect exactly what it should? Is a second call idle? | every block of four pins, all nets and marks; two wildcard nets that may claim the same name, an ordinary one, a dont-touch instance; `MaxCalls` = 2 |
| `flow` | In every combination of mode flags, RC option, legalizer and SPEF file: current RC, legal, powered and chain-free export | obstacles on the sites or not (`onSites`), each legalization legal, not legal or aborted as `Delivers` and `LegalizeAborts` allow; one net of each kind, up to `MaxChain` = 2 buffers in each: the second is what the scan does not see; up to `MaxSyncs` = 2 synchronisations: the first seeds incremental routing, the second finds it seeded |
| `hold_default` | Does hold-only mode use routed RC by default? | violated, see section 6 |

Deadlock is not checked in any run: the program ends.

**Fairness.** `poweropt`, `fixcap`, `fixcap_vtonly` and `repair` need it: weak
fairness of the next step.  The program is one sequential thread that waits for
nobody, so it takes its next step as long as it has one.  That each repair
returns is assumed by `SearchEnds`, as a repair is one step there; `RepairEnds`
and `RepairsEnd` show when they do, and section 6 that they not always do.

**A comparison with the compiled code.**  `dpLegalizeCore` needs no OpenROAD.
Compiled with its vendored operators and called with the 11,664 native inputs of
`MCLegalize`, it returns what `Legalize` does in all of them: 8,962 placements,
1,476 refusals, 1,226 aborts.

## 4. Properties

`CmdFile`, `LibTable`, `DesignReader`
- `ReadAsMeant`: a setting is what its own option's last line says, whatever else
  is in the file, `-fast` does not override `-sta_m`, and no switch is on that no
  line names, but for eight key words that start another one's: `-hold_margin`
  turns hold checks on in the optimizer.
- `ThreadsSplit`: starts times threads per start is no more than the threads
  there are, in each order of `-GWTW_div` and `-GWTW_num_start`.  Not if
  `-thread` comes later (the split stays) or asks for fewer threads than parts;
  a value of 0 divides by zero (`sizer.cpp:9656`).
- `ViewsFit`: every list a view indexes has an entry for it.  `init_score` has
  none with `-mmmc` although it is indexed (`sizer.cpp:5965`).
- `RowsOrdered`: a row of a table is the Vt variants of one size, rows grow in
  drive strength, and no cell of the libraries is lost.
- `MovableSound`: an instance the optimizer may move is found in its own slot
  and is none of those that must not move.  This is what `StartAssumption` of
  `CellSwap` assumes.  It needs suffixes that tell the Vts apart (`Distinct`),
  corners that number the classes alike (`SameOrder`: the numbers are the last
  corner's, the tables looked up the first's; only the first corner's candidates
  are sorted), and with two Vts a suffix in every name: otherwise the column of
  the design and that of the table differ (`ckt.cpp:2393`).
- `Linked`: pins, nets, cells and wire nodes point at each other.  With one
  corner: `readSpef_opensta` reads the first corner for every corner.

`Topo`, `Paths`
- `EachOnce`, `FanOrder`: both lists name each cell once; a combinational cell
  comes after its drivers, or before them, unless both lie on a loop or behind
  (ahead of) one.  Without loops this is `OrderAssumption` of `FixCap`.
- `PathsCounted`: on the pins of combinational cells and of outputs the counts are
  the numbers of paths through the pin, on the pins of flops they are one, whatever
  order was found, for every set of critical cells; without loops, and as long as
  the numbers fit a word.  On a flop's data pin the count is one however many paths
  reconverge there: `CountPaths` sets the count from the inputs on the *outputs* of
  a flop only (`graphop.cpp:527`), so the product is zero, and raised to one.

`Timer`
- `FullExact`: after `CallTimer` every equation holds at once (slews, arrivals,
  required times), and loads always are those of the rows.
- `MovedExact`: what `OneTimer` leaves is what a full timing would: at the moved
  cell and its drivers, for all required times, with `updatePinAcc` everywhere.
  The property says where not: a cell met twice on a walk is visited once, maybe
  too early; `updatePinFast` follows a change only to the sinks of the moved
  cell's nets; with `updatePinAcc` required times are not reset; a flop's setup
  time is left alone; and an input's driver never moves.
- `UndoneExact`: a move taken back gives the former timing back.
- `Correlated`: after a correlation each slew is OpenSTA's and each slack
  OpenSTA's plus the guard band, nothing of former offsets left.  Where OpenSTA
  has no slack, or the offset that would make it up is itself the code's number
  for "none", it stays infinite.  The rising
  block of `CorrPT` runs twice, so the band is added once or twice; the comment
  before `SetGB` calls it pessimistic, and a positive band is optimistic.

`Repair`
- `TrialsTell`: a move made for what its trial measured gives just that, though
  it was timed, taken back and timed again, always incrementally.
- `ScoreCurrent`: whenever the recovery compares its score with the best, no cell
  was moved since the score was computed.  The comparisons are those before the
  slew repairs of an iteration (`sizer.cpp:6893`), after them (6933), after the attack
  and before the closing repairs (7010) and at the end of an iteration (7048).  It
  is stated for runs without `-compare_tns` (below).
- `RepairsEnd`: a recovery ends, or hangs in `Hung` (section 6).

`Legalize`
- `LegalOut`: cells lie in rows and, where the row is `Sound`, in the core, off
  obstacles and each other, and on sites if the obstacles end on sites.  (A padded
  cell pushed past an obstacle off the sites is off them too, against
  `legalize_core.h:24`.)  A row is `Sound` if its obstacles end on sites or the
  greedy passes found a place for every cell in it; section 6 shows what happens
  in the others.
- `PadOrPlain`: padding is all or nothing in such a row.

`CellSwap`
- `SyncInv`: an unmarked cell is in the database.  `isChanged` is the only thing
  `UpdatePTSizes` looks at, and trials take two off it; synchronising in the
  middle of a trial would break it.  Exception: `-gtr_input` (below), and it is
  stated for the first search, since later ones start from snapshots.
- `CoherentInv`: type, row and column, and pin capacitances tell of one library
  cell, also in later searches.
- `RestoreExact`: a rejected trial gives the tried cell back exactly.  The code
  undoes it by an inverse move through a clamp that sends negative rows to the
  *last* row (`sizer.cpp:871` compares an `int` with a `size_t`); it is the
  test at the building of the target list that keeps the inverse exact.
- `DontTouchKept`: no path changes the master of a cell read as dont-touch.
- `ExportAgrees`: in the end the size file names the masters of the database.

`PowerOpt`
- `BooksMatch`: the recorded score was measured on the recorded solution.
- `FileIsBest`: the file on disk is the best so far, in the first kick and at
  the end; not from `KickEnd` to `WriteBest`, where the code writes the cells
  the search ended with.
- `EarlyStopNeverFires`: `prev_best_score < 0.97 * best_score_local` is the
  wrong way round for scores that only fall.
- `LocalBestSoFar`, `GlobalBestSoFar`: both sets of books refine `BestSoFar`
  (solution and score only change together, to a strictly better pair).
- `SearchEnds`.

`SizerFlow`
- `RepairSeesRc`, `ReportFitsExport`, `IncrementalSeeded` (parasitics);
  `ExportLegal`, `ExportPowered`, `ExportChainFree` (export).  `ExportLegal` holds
  with `detailed_placement` (`-use_native_abacus 0`) in every design, and with the
  native legalizer, the default, in designs whose fixed instances end on sites and
  whose other instances are core cells: what `LegalOut` says of one legalization.
  In others the export may overlap (section 6).

`FixCap`
- `FwdSeesLoads`: what the forward pass tests is the load the cells make now.
  Each move changes the load of every net at the moved cell's inputs; only
  because `OneTimer` measures those nets again are nets tested later not stale.
- `BwdSettles`: after one backward pass every pin it answers for (of a cell that
  may grow, on a net that is no clock) is within its limit or its cell is in the
  last row, and the remaining violation it reports is zero just when none is
  left.  Growing a cell loads the drivers before it, so this rests on the order
  of `rtopolist` and on measuring each pin on arrival.
- `RepairEnds`: the repair ends, or hangs in the one loop named `Hangs`.  That
  the forward loop ends is not obvious: it looks for targets as long as it
  finds any, and targets that save nothing would be found for ever.

`SpecialNet`
- `ConnectsExactly`: a name has an owner if a wildcard net had a special pin of
  that name when the call began and no pin of that name stands in the way; the
  call connects the open pins with an owner, to it, and changes no other pin.
  The property is stated about the block *before* the call, the code decides on
  the block in the middle of it, in hash order.
- `SecondCallIdle`: a call with no insertion since the last one changes nothing.

**Exceptions stated by the properties of `CellSwap`, `PowerOpt` and `SizerFlow`,
each a fact about the code**
- `-gtr_input`: `SizeInit` replaces the type and then looks the cell up by its
  *old* row and column (`sizer.cpp:2933`), so row and column never follow the
  file.  `SyncInv`, `CoherentInv` and `ExportAgrees` exclude the option;
  `DontTouchKept` does not.
- `-crit_cell_no_touch`: `InitWNSPath` marks a cell and freezes it at once, so
  `UpdatePTSizes` never pushes it (`sizer.cpp:4746`).  `ExportAgrees` excludes
  cells frozen that way.
- A library cell without an OpenDB master: `UpdatePTSizes` takes the type back
  but leaves row and column (`sizer.cpp:1866`).
- `-compare_tns`: `CalcStats` runs inside each trial, and the score of a
  rejected last trial survives when nothing is accepted.  `BooksMatch` excludes
  it.
- With a SPEF file *and* routed RC, `init_opensta` reads the SPEF, estimates
  placement RC over it (`ckt.cpp:2286`) and skips routing; the first hold pass
  runs on placement RC.  `RepairSeesRc` excludes it.  Preplace mode has no wire
  RC by design.

## 5. Proofs

`CellSwapProofs` proves, for every set of cells, library table, option setting
and bound that satisfy the module's assumptions (`TableAssumption`,
`StartAssumption`, `BoundAssumption`, `ConfigAssumption`):

- `TypeCorrect`: `Spec => []TypeOK`.  Its content is that no move stores a NULL
  master and that `-minimum` finds a column (the least element of a nonempty
  set of columns exists).  `StartAssumption` is what the reader establishes.
- `NoLostEdit`: `Spec => []SyncInv`.
- `TrialsRestore`: `Spec => RestoreExact`.
- `MoveInverse`: a successful move inside the table followed by its inverse
  succeeds and restores row and column.

`SyncInv` and `RestoreExact` are not inductive.  The invariant is
`IInv == TypeOK /\ TrialInv /\ MarkInv`.  `TrialInv` says what an open trial
remembers: the cell before it, which could be moved without clamping, and that
the current cell is exactly that cell moved.  `MarkInv` says that every cell and
snapshot is `Sound` (its name is the slot's unless the database lacks that
master, its mark is not negative) and that in the first search a cell
`UpdatePTSizes` would skip only for want of a mark is `Agreed` with its
instance, the cell an open trial would restore included: that is what makes
`isChanged -= 2` safe.  The step lemma has one case per disjunct of `Next`.

The second half of the module builds on `IInv`:

- `FrozenStays`: `Spec => []DontTouchKept`.  `FrozenInv` adds that frozen cells
  keep row and column in every copy, snapshots included, and are never the cell
  under trial; otherwise a restore or a report could move them.
- `OneLibraryCell`: `Spec => []CoherentInv`, from `CapsInv`: while a search
  runs, the pin capacitances are those of the cell's slot.
- `ExportIsRight`: `Spec => []ExportAgrees`.  `WrittenInv` keeps, between the
  writing of the file and the report, that the file is that of the best
  solution; the report's synchronisation then needs `FrozenInv` (frozen
  instances already have their master) and `Sound` from `IInv`.

`PowerOptProofs` proves, for all solutions, score relations and loop bounds
(`PowerOptAssumption`):

- `TypeCorrect`, `KeptScoresMatch` (`BooksMatch`), `EarlyStopIsDead`
  (`EarlyStopNeverFires`).
- `FileKept` (`FileIsBest`), assuming `KickMax # 0`: with no kick at all the
  end of the search would write a file that was never the local best.  The
  code's `KICK_MAX` is 1 unless an option raises it.
- `LocalRefines`, `GlobalRefines`: `Spec` implements `BestSoFar` under both
  mappings, which promise nothing of a run with `-compare_tns` (the exception
  above).

`BooksMatch` is not inductive, since the checks copy the *global* score;
`ScoreInv` adds that this score is one of the cells at hand, which every repair
reestablishes by measuring or keeps by changing nothing.  `FileInv` adds that
the kicks are over only after one was made.  `FallInv` says that inside an
iteration the best local score is at most what it was at the iteration's head.

`FixCapProofs` proves, for every netlist, order and table (`FixCapAssumption`,
`OrderAssumption`):

- `TotalsAreCurrent`: `Spec => []FwdSeesLoads`.  `FwdInv` adds the types that can
  be stated without the sum of loads; what the argument needs of that sum is that
  moving a cell leaves the loads of the nets it is not on alone (`OtherLoads`).
- `OnePassSettles`: `Spec => []BwdSettles`, assuming `LargerDrivesMore` (a load
  too large for a row is too large for the rows below it, which libraries obey
  and the code does not check; without it a cell with two outputs could lose one
  by growing for the other).  `BwdInv` says that every pin the walk has passed
  fits or is of a cell in its last row, and that `clean` tells whether all fit.
  Growing a cell keeps this (`GrowKeeps`), since by `OrderAssumption` no passed
  pin drives that cell, and its own passed pins only gain.
- `SlotsStayFilled`: `Spec => []TypeOK`.  No move leaves a cell in a hole of its table.
  Loads are natural numbers although the sum is a recursion over sets: the least number
  of pins for which the recursion had no solution, or its sum were none, would
  contradict the next smaller one (`SumsExist`, `SumIsNat`).

`SpecialNetProofs` proves, for every block:

- `TypeCorrect`, `CallConnects` (`ConnectsExactly`), `SettledStays`
  (`SecondCallIdle`).  The properties are not inductive; `CallInv` says that
  every pin moved so far went to the owner of its name, that names dealt with
  are connected throughout, and that names still to come have a pin on the net
  at hand.  Its key lemmas: a name has at most one owner (`OneOwner`), and in the
  middle of a call the code's test on the present block agrees with ownership
  in the block before it (`FreeIsOwned`).

`StartupProofs` proves, for every command and environment file, list file, file of views,
library and design:

- `SplitFitsThreads` (`ThreadsSplit`), from `CasesAssumption`: a command file is a
  finite sequence of lines, and `-thread` and the two sizes of the split are not
  negative (the code does not check).  The work is to show that nothing else writes
  the three numbers: of all options of both files, whatever key words a line holds,
  none assigns a setting of the threads (`OptionsSpare`), nor does what completes the
  settings, reads the views, recognises an ics55 library or collects the sequential
  masters.  Then each branch of `Split` leaves a product that fits (`SplitFits`).
  `SplitInv` adds that a split, once made, was made by a line that was read: a
  `-thread` after it is then one the property excludes.
- `ViewsAlwaysFit` (`ViewsFit`): the invariant `ViewInv` says that the lists grow together
  (`Lengths`), that no SDC is listed twice (`Apart`), and that each view so far has the
  corner and the mode of its own file (`FromFile`); nothing fills a list before
  `readMMMCFile` or `initSingleMode`.

`TimerProofs` proves, for every netlist (`TopoAssumption`: `N` is a natural number;
any loops, pins in parallel, flops, any choice of the cells the second pass starts from):

- `ListsEachCellOnce` (`EachOnce`): `topolist` and `rtopolist` each name every cell
  exactly once, loops and their tails included.
- `FollowsFans` (`FanOrder`): in `topolist` a combinational cell follows its drivers, in
  `rtopolist` it precedes them, but for the ones that lie on a loop or behind (ahead
  of) one.  On a netlist without loops this is `OrderAssumption` of `FixCap`.
- `AlwaysSorted`: the invariant both follow from, `Spec => []Sorted`.

The invariant is that of a worklist algorithm.  `cnt` of a cell not yet listed is the
number of its input pins whose driver is not listed (`Waits`); a cell is in the queue or
the list just when that number is zero; nobody is in both, or twice; and the list is
`Ordered`.  The counting takes most of the proof: sums over finite sets by the least
set that has none (`Sums`), and that taking one driver off lowers the count by the pins
in parallel it has.  What is left when the queue is empty is closed under "has an
unlisted driver", hence reached from the loops (`ReachFacts`), and is appended in
index order.

From the order follows, for every width `Word` of the counters (`PathsAssumption`):

- `CountsArePaths` (`PathsCounted`): without combinational loops the counts of
  `CountPaths`, and those of `CountPathsLesserThanSlack` for every set of critical
  cells, are the numbers of paths through each pin of a combinational cell or output,
  where the words hold them, and one on each pin of a flop.

Forward and backward it is one argument about a sorted list (`IsNet`): one sweep
leaves a solution of the equations of all cells (`SweepSolves`: what a cell adds up is
final when it is met), and the walks of at most `N` cells solve them too, since those
ending at the `j`-th cell of the list no longer grow with their length from `j` on
(`WalksSolve`).  The code adds modulo the word and the walks are counted without it;
`TotalFits` says that a sum that fits is the same both ways, as all terms are
natural numbers and so every part of the sum fits as well.  `ToPins` and `FromPins` relate the numbers
the code keeps for the pins of a cell to the one number each cell has: from the inputs a
pin copies its driver's when its cell is met (`OnInput`), to the ends all input pins share one.

It proves further, for every netlist `StartTimer` times, every order of moves,
trials, correlations and full timings, and all tables (`TopoAssumption`,
`TimerAssumption`):

- `FullTimingIsExact` (`FullExact`): loads and wires are those of the rows; after
  `CallTimer` without offsets all equations hold at once.

It assumes `TablesTyped`: that the tables of slews, delays, setups and wire delays take
integers to integers and capacitances are natural numbers.  This is a hypothesis of the
theorem and not an `ASSUME`, since TLC cannot enumerate the integers; the tables of
`MCTables` satisfy it by their form.

The equations relate what a sweep stored to what it stored elsewhere; the proof is
that nothing is read before it is final.  A sweep is a function of the position in
the list; `ForwardSweep` says that what a cell reads when it is met (the pins of its
fan-in, `InOrder`, which is `AlwaysSorted` without loops) is not written once it was
met, and that what it writes no later cell writes.  So the slews at the end are those
each cell computed (`SlewsHold`), and likewise the arrivals (`ArrivalsHold`); delays
need no order.  Required times go the other way and are *not* written once: a driver's is
lowered by each cell on its net in turn.  `BackTo` is the invariant of that sweep:
pins of cells met are final, and a driver's required time is the least over its met
pins (`SweptStep`); a driver is itself read only when all its fan-out was met.  The
numbers matter here, as the least of several is taken in another order than the equation
has it: `SlewsTyped` shows every slew a number, by the first cell of the list with
one that is not.  Across calls the invariant is `TimerInv`: the netlist stays
sorted, the keys of the stored timing are the pins, and loads are those of the rows
(`Settled`): `MoveSettles` says that a move may change the loads only of its own
drivers, which `Reload` compares and rewrites.

- `CorrelationForgets` (`Correlated`): right after a correlation, whatever moves and
  correlations came before, slews and slacks are those of OpenSTA.  It assumes
  `TablesTyped` and `BiasTyped` (OpenSTA's bias takes integers to integers), for the same
  reason.  The fit of slews is a loop along the sorted list: a cell's offset is computed
  when the slews of the cells before it are final, offsets included (`FitSweep`), so that
  the last slew is the golden one although every correction changed all slews after it.
  That nothing old is left is that both sides start from the same timer without offsets
  (`GoldenBare`).  The slack's offset is then one subtraction, but in numbers where one value
  means "none" (`Far`), which is why the property names those cases.

Its last section proves, for every sorted netlist, table with or without holes,
sensitivity and timing of `Repair` (`TimerAssumption`, `RepairAssumption`; the tables of
slews and delays are any functions):

- `RowsStayLegal`: no move, trial, trial taken back or sweep over all rows of the
  recovery leaves a cell off its table or in one of its holes.
- `ScoreOfTheseCells` (`ScoreCurrent`): at each of the four comparisons of the score
  with the best, no cell has moved since it was computed.  The danger is in what is
  *not* counted as a change: trials.
- `RepairInvariant`: the invariant both follow from, `RepairSpec => []RInv`.

`RInv` adds to them where a step may use the score without computing it anew: during
an attack, and when it is over, as long as no trial was accepted (`Settle` times and scores only
what a change was reported of); and that every target of an attack still leads to a row with a master
(`TargetsLead`: one entry per cell, so that none is moved by another's turn).  The proof's centre is that a trial is undone
exactly (`StepBack`, `TriedSound`): the clamps at both ends of the table and the test
for a hole bring a cell back to the row it came from, and `OneTimer`, whatever it does
to the timing, touches no row (`OneTimerKeeps`, by induction along its two growing work
lists).

`SizerFlowProofs` proves, for all nets, options and numbers of synchronisations
(`FlowAssumption`):

- `AllConnected` (`ExportPowered`), `LegalInTheEnd` (`ExportLegal`, for every
  legalizer that delivers legal placements: `LegalizerSound`),
  `ReportIsCurrent` (`ReportFitsExport`), `TypeCorrect`.  A fact about sequences
  first: in the flow of each mode every command that spoils something (`Repairs`,
  swaps, what changes the RC) is followed by the one that repairs it, however
  often the search synchronises; this is built from the parts of a flow by
  `ConcatFollows`.  The invariant is then `Pending`: what is spoiled has its
  repair ahead.  A flow ends in its only `write` (`EndsIn`), and after that
  nothing is ahead.
- `NoChainExported` (`ExportChainFree`): `Guarded` says that from the third
  command on PAD nets are marked, and that at the last command of sizing mode the
  scan has just found nothing.
- `RepairsOnSelectedRc` (`RepairSeesRc`) and `SeedBeforeIncremental`
  (`IncrementalSeeded`): a repair sees fresh RC of the selected kind, and no
  incremental update runs before routing was seeded.  Both depend on where in a flow
  a command stands, not only on what follows it.  Each flow has an outline, one
  state of the RC before and after each command, such that every
  command leads from its state to the next, in any number of rounds; `OnOutline`
  says that the parasitics are as the outline has them.

`LegalizeProofs` proves, for every number and width of cells, any rows, segments and
fixed instances, and any input (`LegalizeAssumption`, `InputAssumption`: the row grid is
as `dpLegalizeCore` has found it, and segments lie in the core):

- `LegalPlacement` (`LegalOut`), `PaddedOrPlain` (`PadOrPlain`), `LegalizeTypes`.

The invariant `LInv` says what one algorithm hands to the next.  After each greedy pass
the cells with a place are in legal ones (`LegalPlaces`): a blank is a run of free
sites, and a target stays within its blank (`TargetWithin`, `BlankFree`, `InsertLegal`);
the cells without a place are anywhere.  After Abacus, places are on sites and no two
cells share one, and sound rows are legal (`FromAbacus`).

Abacus is the centre.  Within a row, its nodes stay in order and apart, and between the
obstacles around them, off the sites and in fractions: the invariant of its loop is
`InPlace`, about the places of all nodes so far and the clusters that may still be
taken in; merging clusters keeps the offsets inside (`ClustersMerge`), and a cluster
stops where the one before it ends or takes it in (`TakesIn`, `Collapsed`).  This is
where the assertion of the code is used: without it a cluster may be wider than its
interval.  Aligning to sites then goes from left to right and may push a cell to the
right of where Abacus had it, since the end of an obstacle is rounded up.  That nobody is pushed
into an obstacle takes a bound a cell is never pushed beyond (`Bounding`, `EndsBounded`):
its place after Abacus if obstacles end on sites (`BoundOnSites`); otherwise the larger of
that and its place after the greedy passes, which is legal and on a site (`BoundGood`), and
which Abacus' order of the nodes agrees with (`NodesApart`).  A row that is
neither has no such bound, and is not legal (section 6).

In the padding pass cells only move right, gaps apart, past obstacles (`ShiftApart`); if
one does not fit, the second attempt starts from what Abacus left.  In a legal row
that attempt moves nothing (`ShiftStays`), so it fits, and rewrites every cell the
first one had moved (`PaddedRow`, `PadRowFacts`).

The theorem covers obstacles inside one site that touch neither end of it, at which the
code does not return (section 8); it says nothing of the code there.

**Only model-checked**, and why.  `SearchEnds`, `RepairEnds` and `RepairsEnd` are
liveness, out of the prover's reach for good.  `ReadAsMeant` speaks of which key words
start which (strings, which the provers do not look into); `RowsOrdered`,
`MovableSound` and `Linked` rest on `SortSeq` and `SelectSeq`, which are defined by
recursion over data.
`MovedExact` and `UndoneExact` compare an incremental sweep with a full one: they need how
far the growing work lists reach, for netlists of a shape only TLC has tried.
`TrialsTell` needs `MovedExact`, and holds on netlists on which that has exceptions.
The `TypeOK` of modules with a `TypeCorrect`, and those of
`FixCap` (`SlotsStayFilled`) and `Legalize` (`LegalizeTypes`), are proved and not run.

## 6. Findings

`hold_default`: `README.md:133` says "Hold-only repair uses propagated clocks
and global-routing RC by default."  `readCmdFile` starts from
`use_gr_rc = false` (`sizer.cpp:9499`), as the comment in `sizer.h:474` has it,
and nothing turns it on for hold-only mode: without `-use_gr_rc` the repair and
the report use placement RC.

`fixcap_vtonly`: the comment at `fixdrv.cpp:288` says of `BwdFixCapViolation`
"increase the size of the cells to increase the maxCap, furthermore fix the cap
violation."  Its loop (`fixdrv.cpp:338`) calls `cell_resize` until the load fits
or the cell is in its last row, and does not look at the result.  With `-vt_only`
`cell_resize` returns false at once (`sizer.cpp:828`), and the loop never ends.
A hole in the next row of the cell's table does the same without the option;
`Hangs` covers both.

`legalize_guard`: the comment at `legalize_core.cpp:375` says of rows that
"would trip the vendored abacus' internal assert. Detect and let the caller fall
back to DPL instead of moving cells around."  The guard adds up the widths in a
row.  The greedy pass may leave a cell where it was, in a row whose total fits but
whose blanks are each too narrow for it: with a row that has blanks of three and
of two sites, cells of one, two and two sites at its left end and no other free
row, one cell of two sites is left over, the guard passes, and an assertion in
Abacus ends the program.

Without a run of its own: Abacus can take such a leftover cell without its assertion
failing, if all that is between two obstacles fits there, and then the cells are aligned to
sites from left to right (`abacus_legalize_cpu.h:408`), a cell after an obstacle from the
next site on.  If the obstacle ends off the sites, what fitted before may no longer fit,
and the last cell is moved into the next obstacle or, at the end of the row, back onto the cell
before it; nothing looks at the result (`legalize_core.cpp:399`), and it is delivered.
`MCLegalize` has a layout for it (one obstacle at the left end of a row and one near its right
end, both off the sites, and a second row almost full), in which `LegalOut`
without the condition `Sound` is violated, and the compiled function delivers the
same overlap.  `SizerFlow` has it as `Delivers`: with the native legalizer and obstacles
off the sites a legalization may leave an illegal placement, also the last one before the
export, and the assertion may end the program (`LegalizeAborts`).

Without a run of its own, since it is about one loop of `repair`: growing the
driver of an output pin with a slew violation (`fixdrv.cpp:502` to `627`) ends
when the pin fits or no move has an impact.  Below a hole in the table nothing
moves, the impact is 0/0, and NaN is "not zero" (and the test meant for the Vt
move looks at the size move again, `fixdrv.cpp:612`): the loop never ends.
`RepairsEnd` names it `Hung`, and needs the exception.

## 7. Hazards without a property

`PROJECT.json` lists every hazard at its line.  Not covered: the old row and column
`SizeInit` looks up (`sizer.cpp:2933`) and the freezing of a marked cell
(`sizer.cpp:4746`), which the properties of `CellSwap` have to exclude; capacitance
limits filled in only when a master is first seen (`calc.cpp:694`); the SPEF file
that is estimated over (`ckt.cpp:2286`), which `RepairSeesRc` has to exclude;
the score that outlives its trial with `-compare_tns` (`sizer.cpp:3725`), which
`BooksMatch` has to exclude and `Repair` does not model;
`-gtr_only`, which indexes an empty best solution (`sizer.cpp:9942`); and the
sensitivity of a Vt move with several views (`sizer.cpp:3463`), which is numeric.

## 8. Not modelled

Interpolation in tables, moment matching of wires, power and sensitivity
functions (floating point; the modules take their results as parameters or as any
numbers); the arrival metric of the correlation and `analyze_timing.cpp`, which
asks OpenSTA and prints; parsing of Liberty, LEF, DEF and SPEF, which OpenROAD
does; RC extraction (`lef_layer_rc.cpp`, numeric); the list of sensitivity
functions the launcher may try one after another (one search per round);
`FINAL_PWR_OPT`, whose path ends in `exit(0)`; `-gtr_only`; dead code (section 1);
`test.cpp` and the socket timer interface.

Limits of the modules.  `CmdFile`: integers for numbers, several options on one
line as several lines.  `DesignReader`: one driver per net with parasitics.
An instance of a block is dont-touch because it is no core cell; that its master
also joins the list of masters not to touch (`ckt.cpp:423`) is left out.  The reset to the
largest cells (`ckt.cpp:601`) is dead code, as nothing sets `MAXIMUM`; it would break
`MovableSound`, as it stores row 0 with the name of the last row's cell.
`Paths`: no counts on netlists with loops, where a cell that drives itself reads its own
sum in the making.  `Timer`: one view, one output per cell, no combinational loops, integers;
`CorrPT` takes the raw slack as required minus arrival time, while the code gets it
back from the corrected slack (`timer.cpp:6010`), which differs where the former offset
was "none" (6017), one of the cases `Correlated` excludes.
`Repair`: one Vt class, no hold check, no clock cells, capacitance repair left to
`FixCap`; the part of `FwdFixSlewViolationPost` about output pins (`fixdrv.cpp:966` to 1058)
is left out, as `post_slew_opt_output` is false whenever that repair runs: both are set in
the same place (`sizer.cpp:6180`), and the repair is off before; `viewTNS` only changes in `CalcStats`, so the slew repairs' comparisons of it never
fire and are modelled as such.  `FixCap`: one view, no combinational loops among
cells that may grow.  `Legalize`: cells one row high; instances that are neither
fixed nor of a core master are no obstacles, as in the code (`sizer.cpp:5691`); an
obstacle within one site that touches neither end of it would keep
`distributeBlanks2BinsCPU` in its loop (`bin_assignment_cpu.h:142` rounds the wrong way)
and is not among the layouts.
`SpecialNet`: a block's pins as given, one name each.  `SizerFlow`: no special-net
pin is in conflict; `detailed_placement`, which is OpenROAD's, is taken to deliver a legal
placement; the branch of `applyOpenStaDbChanges` for a router that is
already incremental, which no caller reaches, is left out.  Its boundary scan
looks over one buffer, as the code does: two in a row between a port and a PAD
pass it, which two repairs of a mixed net can leave behind; `ExportChainFree`
promises no more.

## 9. Plan

Done: every module of section 2.  Worth doing next, in this order:

1. Proofs about sorting and filtering in the readers (`RowsOrdered`, `MovableSound`,
   `Linked`), which need definitions of both that the provers can expand.
2. That `Repair` refines `CellSwap`'s trials and the `Edit` step of `PowerOpt`.
3. The launcher's list of sensitivity functions.
