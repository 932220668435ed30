-------------------------------- MODULE Topo --------------------------------
(***************************************************************************)
(* SortTopo (graphop.cpp): topolist and rtopolist, the orders in which all *)
(* timers and repairs walk the cells.  Two passes of one idea: a queue of  *)
(* cells whose neighbours on one side are all done, and counters of the    *)
(* connections that are not.  Flops are done from the start, so paths end  *)
(* at them; what a combinational loop keeps out of the queue is appended   *)
(* in index order.                                                         *)
(*                                                                         *)
(* fis and fos have one entry per connected pin: wires[d][c] is how many   *)
(* input pins of c are on nets that d drives; a net has one driver.        *)
(***************************************************************************)
EXTENDS Integers, Sequences, SequencesExt, FiniteSetsExt

CONSTANTS
  N,           \* numcells
  MaxWires,    \* bound: connected input pins in a netlist
  MaxParallel  \* bound: pins of one cell on the nets of another

ASSUME TopoAssumption == N \in Nat /\ MaxWires \in Nat /\ MaxParallel \in Nat

Cells == 1..N

VARIABLES
  wires,     \* the netlist
  flops,     \* isff
  sinks,     \* cells that have input pins, connected or not
  queue,     \* noincomes, then nooutgoes
  cnt,       \* net_cnt
  check,     \* cells a pass has dealt with
  topolist, rtopolist,
  pc
vars == <<wires, flops, sinks, queue, cnt, check, topolist, rtopolist, pc>>
netlist == <<wires, flops, sinks>>

-----------------------------------------------------------------------------
(* Connections, counted. *)
FanIn(w, c) == MapThenSumSet(LAMBDA d : w[d][c], Cells)
FanOut(w, d) == MapThenSumSet(LAMBDA c : w[d][c], Cells)

\* Cells (and 0, see Paths) in index order.
Indexed(S) ==
  LET upTo[n \in 0..N] ==
        LET before == IF n = 0 THEN <<>> ELSE upTo[n - 1]
        IN IF n \in S THEN Append(before, n) ELSE before
  IN upTo[N]

\* The initial queue: cells with nothing to wait for, then the flops.
Sources(count) ==
  LET free == {c \in Cells : count[c] = 0}
  IN Indexed(free) \o Indexed(flops \ free)

\* Cells that become free once cur is done, each at its last connection;
\* the connections come in pin order, which may be any.
Released(after) == {c \in Cells \ flops : after[c] = 0 /\ cnt[c] # 0}

Appended_Nothing(list, done) == list

\* What loops kept back, in index order.
Appended(list, done) == list \o Indexed(Cells \ done)

-----------------------------------------------------------------------------
(* Forward: a cell follows its drivers. *)
Fwd ==
  /\ pc = "fwd" /\ queue # <<>>
  /\ LET cur == Head(queue)
         after == [c \in Cells |-> cnt[c] - wires[cur][c]]
     IN /\ topolist' = Append(topolist, cur)
        /\ cnt' = after
        /\ \E order \in SetToSeqs(Released(after)) : queue' = Tail(queue) \o order
        /\ check' = check \cup Released(after)
  /\ UNCHANGED <<netlist, rtopolist, pc>>

FwdDone ==
  /\ pc = "fwd" /\ queue = <<>>
  /\ topolist' = Appended(topolist, check)
  /\ cnt' = [c \in Cells |-> FanOut(wires, c)]
  /\ queue' = Sources(cnt')
  /\ check' = {}
  /\ pc' = "bwd"
  /\ UNCHANGED <<netlist, rtopolist>>

Bwd_Drivers ==
  /\ pc = "bwd" /\ queue # <<>>
  /\ LET cur == Head(queue)
         after == [c \in Cells |-> cnt[c] - wires[cur][c]]
     IN /\ rtopolist' = Append(rtopolist, cur) /\ check' = check \cup {cur}
        /\ cnt' = after
        /\ \E order \in SetToSeqs(Released(after)) : queue' = Tail(queue) \o order
  /\ UNCHANGED <<netlist, topolist, pc>>

(* Backward: a cell follows what it drives; cells without input pins wait  *)
(* for the end.                                                            *)
Bwd ==
  /\ pc = "bwd" /\ queue # <<>>
  /\ LET cur == Head(queue)
         after == [c \in Cells |-> cnt[c] - wires[c][cur]]
     IN /\ IF cur \in sinks
           THEN rtopolist' = Append(rtopolist, cur) /\ check' = check \cup {cur}
           ELSE UNCHANGED <<rtopolist, check>>
        /\ cnt' = after
        /\ \E order \in SetToSeqs(Released(after)) : queue' = Tail(queue) \o order
  /\ UNCHANGED <<netlist, topolist, pc>>

BwdDone ==
  /\ pc = "bwd" /\ queue = <<>>
  /\ rtopolist' = Appended(rtopolist, check)
  /\ pc' = "done"
  /\ UNCHANGED <<netlist, queue, cnt, check, topolist>>

-----------------------------------------------------------------------------
Init ==
  /\ wires \in {w \in [Cells -> [Cells -> 0..MaxParallel]] :
                MapThenSumSet(LAMBDA d : FanOut(w, d), Cells) <= MaxWires}
  /\ flops \in SUBSET Cells
  /\ sinks \in {S \in SUBSET Cells : \A c \in Cells : FanIn(wires, c) # 0 => c \in S}
  /\ cnt = [c \in Cells |-> FanIn(wires, c)]
  /\ queue = Sources(cnt)
  /\ check = {c \in Cells : cnt[c] = 0} \cup flops
  /\ topolist = <<>> /\ rtopolist = <<>>
  /\ pc = "fwd"

Next == Fwd \/ FwdDone \/ Bwd \/ BwdDone

Spec == Init /\ [][Next]_vars

-----------------------------------------------------------------------------
(* In the end each list names every cell once, loops or not.  The timers   *)
(* index cells by these lists, and CountPaths tests only their lengths.    *)
EachOnce ==
  pc = "done" => /\ Len(topolist) = N /\ Range(topolist) = Cells
                 /\ Len(rtopolist) = N /\ Range(rtopolist) = Cells

(* Combinational connections, and where they lead: to the cells in every   *)
(* set that contains the cells x drives and what its own cells drive.      *)
Comb(d, c) == d \notin flops /\ c \notin flops /\ wires[d][c] # 0

Reach(x) ==
  {y \in Cells : \A S \in SUBSET Cells :
     (\A d \in S \cup {x}, c \in Cells : Comb(d, c) => c \in S) => y \in S}

Loop == {x \in Cells : x \in Reach(x)}

Before(list, c, d) ==
  \A m, n \in 1..Len(list) : list[m] = c /\ list[n] = d => m < n

(* In topolist a combinational cell comes after all its drivers, in         *)
(* rtopolist after all it drives, except for neighbours that, with the     *)
(* cell, lie on a loop, or behind (ahead of) one.  Without loops this is   *)
(* the order every timing pass and the capacitance repair rely on          *)
(* (OrderAssumption of FixCap).                                            *)
FanOrder ==
  pc = "done" =>
    LET behind == Loop \cup UNION {Reach(x) : x \in Loop}
        ahead == Loop \cup {c \in Cells : Reach(c) \cap Loop # {}}
    IN \A d, c \in Cells :
         wires[d][c] # 0 =>
           /\ c \notin flops => Before(topolist, d, c) \/ {c, d} \subseteq behind
           /\ d \notin flops => Before(rtopolist, c, d) \/ {c, d} \subseteq ahead
=============================================================================
