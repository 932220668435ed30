---------------------------- MODULE DesignReader ----------------------------
(***************************************************************************)
(* The rest of Circuit::Parser: instances and nets of the OpenDB block     *)
(* (readDesign_opensta), masters that are never touched, the slot, pins    *)
(* and role of each instance (assignLibCellTables, assignLibPinId), the    *)
(* reset to minimum, the copies of the nets for other corners, and the     *)
(* parasitics (readSpef_opensta), corner by corner.                        *)
(*                                                                         *)
(* Cells, pins and nets are numbered from 1; pin 1 is the code's pin 0.    *)
(* Sorting pins by name is left out, as are delays and loads of the SDC,   *)
(* and the reset to maximum: nothing sets MAXIMUM.                         *)
(***************************************************************************)
EXTENDS LibTable

CONSTANTS
  Insts,     \* sequence of [name, master, core]: master a cell name or Unknown
  DbNets,    \* sequence of [kind, iterms, bterms, clock, nodes, res]:
             \*   iterms: sequence of [inst, role, out], role of "clock", "data", "other"
             \*   bterms: sequence of [out]
             \*   nodes: names <<"node", i>> of the inner nodes of the wire, res: pairs of nodes
             \*     <<>> for both: no parasitics; <<"pin", i>> is the i-th pin of the net
  Unknown, None

VARIABLES cells, pins, nets
desVars == <<cells, pins, nets>>
fileVars == <<file, envFile, n, view>>

Has0(s, x) == Contains(Get(opt, s), x)
NumCorners == Get(opt, "numCorners")

-----------------------------------------------------------------------------
(* readDesign_opensta. *)

\* An instance without a Liberty cell, or of a master that is not CORE, is
\* not to be touched.
Gate(inst) ==
  [name |-> inst.name, type |-> inst.master, dontTouch |-> inst.master = Unknown \/ ~inst.core,
   vt |-> IF inst.master = Unknown THEN 0 ELSE VtypeOf(inst.master), slot |-> None,
   inpins |-> <<>>, outpins |-> <<>>, ff |-> FALSE, clk |-> None, data |-> None, clockCell |-> FALSE]

ReadGates ==
  /\ pc = "gates"
  /\ cells' = [i \in DOMAIN Insts |-> Gate(Insts[i])]
  /\ pins' = <<>> /\ nets' = [c \in 1..NumCorners |-> <<>>]
  /\ pc' = "nets" /\ pos' = [pos EXCEPT !.file = 1]
  /\ UNCHANGED <<fileVars, opt, libs, cands, tables, rowOf, idOf>>

\* The pins of a net: those of instances, then the ports.  The last output
\* pin of an instance, or input port, is the net's driver.
ITerms(d) == [t \in DOMAIN d.iterms |-> d.iterms[t] @@ [port |-> FALSE]]
BTerms(d) == [t \in DOMAIN d.bterms |-> [inst |-> None, role |-> "port", out |-> ~d.bterms[t].out, port |-> TRUE]]
TermsOf(d) == ITerms(d) \o BTerms(d)
DriverOf_First(d) ==
  LET outs == {t \in DOMAIN TermsOf(d) : TermsOf(d)[t].out}
  IN IF outs = {} THEN 0 ELSE CHOOSE t \in outs : \A u \in outs : t <= u
DriverOf(d) ==
  LET outs == {t \in DOMAIN TermsOf(d) : TermsOf(d)[t].out}
  IN IF outs = {} THEN 0 ELSE CHOOSE t \in outs : \A u \in outs : u <= t
SinksOf(d) == {t \in DOMAIN TermsOf(d) : ~TermsOf(d)[t].out}

\* Supply nets, and nets with the names the code skips, get no pins at all.
ReadNet ==
  /\ pc = "nets" /\ pos.file <= Len(DbNets)
  /\ LET d == DbNets[pos.file]
         first == Len(pins)
         ts == TermsOf(d)
         numbered(ok(_)) == SelectSeq([t \in DOMAIN ts |-> first + t], LAMBDA p : ok(ts[p - first]))
     IN IF d.kind = "skipped" THEN UNCHANGED desVars
        ELSE /\ pins' = pins \o [t \in DOMAIN ts |->
                  [net |-> Len(nets[1]) + 1, owner |-> ts[t].inst, role |-> ts[t].role,
                   isPI |-> ts[t].port /\ ts[t].out, isPO |-> ts[t].port /\ ~ts[t].out, node |-> None]]
             /\ cells' = [i \in DOMAIN cells |-> [cells[i] EXCEPT
                  !.outpins = @ \o numbered(LAMBDA t : t.inst = i /\ t.out),
                  !.inpins = @ \o numbered(LAMBDA t : t.inst = i /\ ~t.out)]]
             /\ nets' = [c \in DOMAIN nets |-> Append(nets[c],
                  [db |-> pos.file, inpin |-> IF DriverOf(d) = 0 THEN None ELSE first + DriverOf(d),
                   outpins |-> numbered(LAMBDA t : ~t.out),
                   isClock |-> FALSE, wired |-> FALSE, sub |-> <<>>])]
  /\ pos' = [pos EXCEPT !.file = @ + 1]
  /\ UNCHANGED <<cmdVars, libs, cands, tables, rowOf, idOf>>

\* Parser then looks the candidates up in the design: the sequential ones
\* join the list of masters that are not touched; their order is settled.
\* (Blocks join it too; an instance of one is no core cell and dont-touch.)
EndNets ==
  /\ pc = "nets" /\ pos.file > Len(DbNets)
  /\ opt' = LET seq == FoldSet(LAMBDA k, s : s \o SelectSeq(cands[1][k], LAMBDA c : CellDb[c].sequential),
                              <<>>, Classes)
            IN Assign(opt, "dontTouchCell", Get(opt, "dontTouchCell") \o seq)
  /\ cands' = [cands EXCEPT ![1] = [k \in Classes |-> Sorted(@[k])]]
  /\ pc' = "tables" /\ pos' = [corner |-> 1, file |-> 1]
  /\ UNCHANGED <<fileVars, desVars, libs, tables, rowOf, idOf>>

-----------------------------------------------------------------------------
(* assignLibPinId, cell by cell.  Pins have their Liberty pin by name.     *)

InLib(c) == c.type \in libs[1]

\* The pins driving the clock pin of a flop, as the walk towards the port
\* visits them.  The set of visited pins is a set of bool: any other pin
\* than pin 0 counts as visited once one was.
WalkFrom(pin) ==
  LET walk[p \in DOMAIN pins \cup {None}, visited \in SUBSET BOOLEAN] ==
        IF p = None \/ pins[p].isPI \/ (p # 1) \in visited THEN {}
        ELSE LET c == cells[pins[p].owner]
             IN IF c.ff THEN {}
                ELSE {pins[p].owner} \cup
                     (IF c.inpins = <<>> THEN {}
                      ELSE walk[nets[1][pins[c.inpins[1]].net].inpin, visited \cup {p # 1}])
  IN walk[pin, {}]

LastWith(c, role) ==
  LET is == {j \in DOMAIN c.inpins : pins[c.inpins[j]].role = role}
  IN IF is = {} THEN None ELSE c.inpins[CHOOSE j \in is : \A k \in is : k <= j]

Listed_Inst(c) == Has0("dontTouchInst", c.name)
Listed(c) == Has0("dontTouchCell", c.type) \/ Has0("dontTouchInst", c.name)

\* A flop without a clock or a data pin is not touched, and its clock tree
\* not looked at.
Roled(c) ==
  LET seq == InLib(c) /\ CellDb[c.type].sequential
      clk == IF seq THEN LastWith(c, "clock") ELSE None
      data == IF seq THEN LastWith(c, "data") ELSE None
  IN [c EXCEPT !.ff = seq, !.clk = clk, !.data = data,
       !.dontTouch = @ \/ ~InLib(c) \/ Listed(c)
                       \/ (seq /\ (Get(opt, "NO_SEQ_OPT") \/ clk = None \/ data = None))]

ClockWalk(c) ==
  IF c.ff /\ c.clk # None /\ c.data # None /\ Get(opt, "NO_CLKBUF_OPT")
  THEN WalkFrom(nets[1][pins[c.clk].net].inpin) ELSE {}

AssignCell ==
  /\ pc = "cells" /\ pos.file <= Len(cells)
  /\ LET i == pos.file
         c == Roled(cells[i])
         ports == ToSet(c.inpins) \cup ToSet(c.outpins)
     IN /\ cells' = LET tree == ClockWalk(c)
                        marked == [j \in DOMAIN cells |->
                          IF j \in tree THEN [cells[j] EXCEPT !.clockCell = TRUE, !.dontTouch = TRUE] ELSE cells[j]]
                    IN [marked EXCEPT ![i] =
                          [c EXCEPT !.slot = IF InLib(c) THEN SlotOf(c.type, c.vt) ELSE None,
                                    !.clockCell = marked[i].clockCell, !.dontTouch = @ \/ marked[i].dontTouch]]
        \* the pins of a black box are ports
        /\ pins' = [p \in DOMAIN pins |->
             IF ~InLib(c) /\ p \in ports
             THEN [pins[p] EXCEPT !.isPO = @ \/ p \in ToSet(c.inpins), !.isPI = @ \/ p \in ToSet(c.outpins)]
             ELSE pins[p]]
  /\ pos' = [pos EXCEPT !.file = @ + 1]
  /\ UNCHANGED <<cmdVars, libs, cands, tables, rowOf, idOf, nets>>

\* -minimum: the first row, in the first column with a cell there.
Minimal(c) ==
  LET ks == {k \in Columns : Lookup([c.slot EXCEPT !.row = 0, !.col = k]) # Hole}
      new == [c.slot EXCEPT !.row = 0, !.col = CHOOSE k \in ks : \A j \in ks : k <= j]
  IN IF c.dontTouch \/ ks = {} THEN c
     ELSE [c EXCEPT !.slot = new, !.vt = new.col, !.type = Lookup(new)]

EndCells ==
  /\ pc = "cells" /\ pos.file > Len(cells)
  /\ cells' = IF Get(opt, "MINIMUM") THEN [i \in DOMAIN cells |-> Minimal(cells[i])] ELSE cells
  \* the nets of the other corners are copies of the first corner's
  /\ nets' = IF Get(opt, "mmmcOn") THEN [c \in DOMAIN nets |-> nets[1]] ELSE nets
  /\ pc' = "spef" /\ pos' = [corner |-> 1, file |-> 1]
  /\ UNCHANGED <<fileVars, opt, libs, cands, tables, rowOf, idOf, pins>>

-----------------------------------------------------------------------------
(* readSpef_opensta.  It is called for each corner and always reads the    *)
(* nets of the first.  A sub node is [id, pin, name, sink, adj]; node 0 is *)
(* the driver's, sinks follow in the order of the pins, then inner nodes,  *)
(* then a node for each end of a resistor that is not known.               *)

FirstPin(k) == LET ps == {p \in DOMAIN pins : pins[p].net = k} IN CHOOSE p \in ps : \A q \in ps : p <= q

SubNode(id, name, sink) == [id |-> id, pin |-> None, name |-> name, sink |-> sink, adj |-> <<>>]

PinNodes(d, driver) ==
  <<[SubNode(0, <<"pin", DriverOf(d)>>, FALSE) EXCEPT !.pin = driver]>>
  \o LET sinks == SetToSortSeq(SinksOf(d), <)
     IN [j \in DOMAIN sinks |-> SubNode(j, <<"pin", sinks[j]>>, TRUE)]

IndexOf(sub, name) == CHOOSE j \in DOMAIN sub : sub[j].name = name
Known(sub, name) == \E j \in DOMAIN sub : sub[j].name = name

\* Every resistor takes a node id, whether it makes a node or not.
AddResistor(acc, r) ==
  LET id == acc.next
      sub == IF Known(acc.sub, r[1]) THEN acc.sub ELSE Append(acc.sub, SubNode(id, r[1], FALSE))
      i == IF Known(acc.sub, r[1]) THEN IndexOf(sub, r[1]) ELSE id + 1
      j == IndexOf(sub, r[2])
  IN IF r[1] = r[2] THEN acc
     ELSE [next |-> id + 1,
           sub |-> IF i <= Len(sub) THEN [sub EXCEPT ![i].adj = Append(@, j), ![j].adj = Append(@, i)] ELSE sub]

SubNodes(d, driver) ==
  LET pn == PinNodes(d, driver)
      all == pn \o [j \in DOMAIN d.nodes |-> SubNode(Len(pn) + j - 1, d.nodes[j], FALSE)]
  IN FoldLeft(AddResistor, [next |-> Len(all), sub |-> all], d.res).sub

\* A clock net called like the clock is skipped; the pin of the driver is
\* tied to its node here, those of the sinks by the loop of Parser.
ReadSpefNet ==
  /\ pc = "spef" /\ ~Get(opt, "noSPEF") /\ pos.file <= Len(nets[1])
  /\ LET k == pos.file
         d == DbNets[nets[1][k].db]
         read == d.kind # "clk_name" /\ d.res # <<>>
     IN /\ nets' = [nets EXCEPT ![1][k] =
             [@ EXCEPT !.isClock = d.clock \/ d.kind = "clk_name", !.wired = d.kind # "clk_name",
                       !.sub = IF read THEN SubNodes(d, nets[1][k].inpin) ELSE <<>>]]
        /\ pins' = IF read /\ nets[1][k].inpin # None THEN [pins EXCEPT ![nets[1][k].inpin].node = 1] ELSE pins
  /\ pos' = [pos EXCEPT !.file = @ + 1]
  /\ UNCHANGED <<cmdVars, libs, cands, tables, rowOf, idOf, cells>>

\* Then the sinks of the corner's own nets.
LinkSinks ==
  /\ pc = "spef" /\ (Get(opt, "noSPEF") \/ pos.file > Len(nets[1]))
  /\ LET c == pos.corner
         At(k, s) == FirstPin(k) + s.name[2] - 1
         Linked(net, k) == [j \in DOMAIN net.sub |->
           IF net.sub[j].sink THEN [net.sub[j] EXCEPT !.pin = At(k, net.sub[j])] ELSE net.sub[j]]
     IN /\ nets' = [nets EXCEPT ![c] = [k \in DOMAIN @ |-> [@[k] EXCEPT !.sub = Linked(nets[c][k], k)]]]
        /\ pins' = [p \in DOMAIN pins |->
             LET net == nets[c][pins[p].net]
                 js == {j \in DOMAIN net.sub : net.sub[j].sink /\ At(pins[p].net, net.sub[j]) = p}
             IN IF js = {} THEN pins[p] ELSE [pins[p] EXCEPT !.node = net.sub[CHOOSE j \in js : TRUE].id + 1]]
        /\ IF c < NumCorners THEN pos' = [corner |-> c + 1, file |-> 1] /\ UNCHANGED pc
           ELSE UNCHANGED pos /\ pc' = "loaded"
  /\ UNCHANGED <<fileVars, opt, libs, cands, tables, rowOf, idOf, cells>>

-----------------------------------------------------------------------------
Init ==
  /\ CmdInit
  /\ pos = [corner |-> 1, file |-> 1] /\ libs = <<>> /\ cands = <<>>
  /\ tables = <<>> /\ rowOf = <<>> /\ idOf = <<>>
  /\ cells = <<>> /\ pins = <<>> /\ nets = <<>>

Next ==
  \/ CmdNext /\ UNCHANGED <<libVars, desVars>>
  \/ LibNext /\ UNCHANGED desVars
  \/ ReadGates \/ ReadNet \/ EndNets \/ AssignCell \/ EndCells \/ ReadSpefNet \/ LinkSinks

Spec == Init /\ [][Next]_<<cmdVars, libVars, desVars>>

-----------------------------------------------------------------------------
\* The corners number the classes alike.
SameOrder ==
  \A c \in DOMAIN tables :
    [i \in DOMAIN tables[c] |-> tables[c][i].class] = [i \in DOMAIN tables[1] |-> tables[1][i].class]

(* What the optimizer may move sits in its own slot: for an instance that  *)
(* is not dont-touch, getLibCellInfo finds the cell it is an instance of,  *)
(* after a reset too; no list names it; it is not sequential, and does not *)
(* drive a flop's clock net directly.  It takes suffixes that tell the Vts *)
(* apart, of two Vts one in the name of each cell, masters off the list of *)
(* cells not to use, and corners that number the classes alike: the numbers*)
(* are those of the last corner, the tables looked up those of the first.  *)
MovableSound ==
  pc = "loaded" /\ Distinct /\ SameOrder =>
    \A i \in DOMAIN cells :
      LET c == cells[i]
      IN ~c.dontTouch =>
           /\ (NumVt = 2 => Has(Insts[i].master, 0) \/ Has(Insts[i].master, 1)) /\ ~Contains(Get(opt, "dontUseCell"), Insts[i].master)
                => Lookup(c.slot) = c.type
           /\ c.slot.col = c.vt /\ CellDb[c.type].class = CellDb[Insts[i].master].class
           /\ Insts[i].core /\ ~Contains(Get(opt, "dontTouchInst"), c.name)
           /\ ~Contains(Get(opt, "dontTouchCell"), Insts[i].master)
           /\ \A j \in DOMAIN cells :
                cells[j].ff /\ cells[j].clk # None /\ cells[j].data # None /\ Get(opt, "NO_CLKBUF_OPT") =>
                  \A p \in ToSet(c.outpins) : nets[1][pins[cells[j].clk].net].inpin # p

(* Nets, pins, cells and parasitics point at each other: a pin is listed   *)
(* by its net and its owner on the side it is on, each sink of a net with  *)
(* parasitics is tied to a node that is tied to it, and the wire's graph   *)
(* is symmetric.  Only a net with several drivers forgets all but the last *)
(* as its driver.  With one corner: a second one has the first corner read *)
(* again, which unties its sinks, and is itself left without a wire.       *)
Linked ==
  pc = "loaded" =>
    /\ \A p \in DOMAIN pins :
         LET net == nets[1][pins[p].net]  c == pins[p].owner
             drives == IF c = None THEN pins[p].isPI ELSE Contains(cells[c].outpins, p)
         IN /\ c # None => Contains(cells[c].outpins \o cells[c].inpins, p)
            /\ ~drives <=> Contains(net.outpins, p)
            /\ drives => net.inpin # None /\ net.inpin >= p
    /\ \A k \in DOMAIN nets[1] :
         LET sub == nets[1][k].sub
         IN /\ \A i, j \in DOMAIN sub :
                 /\ Contains(sub[i].adj, j) <=> Contains(sub[j].adj, i)
                 /\ sub[i].name = sub[j].name => i = j
            /\ NumCorners = 1 /\ sub # <<>> =>
                 /\ \A p \in ToSet(nets[1][k].outpins) : sub[pins[p].node].pin = p
                 /\ sub[1].pin = nets[1][k].inpin
            /\ NumCorners > 1 => \A c \in 2..NumCorners : nets[c][k].sub = <<>> /\ ~nets[c][k].wired
=============================================================================
