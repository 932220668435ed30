----------------------------- MODULE SpecialNet -----------------------------
(***************************************************************************)
(* connectMissingWildcardSpecialNetPins (special_net.cpp): a wildcard in   *)
(* DEF connects the power pins of the instances that were there when it    *)
(* was read; after repairs this function connects those inserted since.    *)
(* It goes by the names of the pins that already are on the net, and never *)
(* overrides: one pin of that name elsewhere, or an open one on a          *)
(* dont-touch instance, and the name is left alone.                        *)
(*                                                                         *)
(* The block's nets and the unordered set of names come in any order.      *)
(***************************************************************************)
EXTENDS Naturals

CONSTANTS
  Pins,     \* dbITerms of all instances that may ever exist
  Name,     \* the name of a pin's dbMTerm
  Nets,
  Wild,     \* nets that are special, wild-connected and not dont-touch
  Frozen,   \* pins of dont-touch instances
  None,     \* no net
  MaxCalls  \* bound: calls of the function

ASSUME SpecialNetAssumption ==
  Wild \subseteq Nets /\ Frozen \subseteq Pins /\ None \notin Nets /\ MaxCalls \in Nat

VARIABLES
  present,   \* pins of the instances in the block
  net,       \* getNet of a pin
  special,   \* pins marked isSpecial
  phase,     \* "edit", "call", or "ended"
  netsLeft, cur, names,   \* the loops: nets to come, net at hand, names to come
  start, startSpecial,    \* net and special when the call began
  settled,   \* nothing was inserted since the last call ended
  calls      \* calls so far
vars == <<present, net, special, phase, netsLeft, cur, names, start, startSpecial, settled, calls>>

-----------------------------------------------------------------------------
(* iterms_by_mterm_name *)
Named(m) == {p \in present : Name[p] = m}

Conflict_OtherNets(n, m) == \E p \in Named(m) : net[p] \notin {n, None}

Conflict(n, m) ==
  \E p \in Named(m) : net[p] \notin {n, None} \/ (net[p] = None /\ p \in Frozen)

(* A repair inserts an instance, its pin open or connected.                *)
Insert ==
  /\ phase # "call"
  /\ \E p \in Pins \ present, n \in Nets \cup {None} :
       /\ present' = present \cup {p}
       /\ net' = [net EXCEPT ![p] = n]
  /\ phase' = "edit" /\ settled' = FALSE
  /\ UNCHANGED <<special, netsLeft, cur, names, start, startSpecial, calls>>

Begin ==
  /\ phase # "call" /\ calls < MaxCalls
  /\ phase' = "call" /\ calls' = calls + 1
  /\ netsLeft' = Wild /\ names' = {}
  /\ start' = net /\ startSpecial' = special
  /\ UNCHANGED <<present, net, special, cur, settled>>

\* The names of the next net's special pins, as they are now.
TakeNet ==
  /\ phase = "call" /\ names = {}
  /\ \E n \in netsLeft :
       /\ cur' = n /\ netsLeft' = netsLeft \ {n}
       /\ names' = {Name[p] : p \in {p \in present \cap special : net[p] = n}}
  /\ UNCHANGED <<present, net, special, phase, start, startSpecial, settled, calls>>

TakeName_FirstOpen ==
  /\ phase = "call"
  /\ \E m \in names :
       /\ names' = names \ {m}
       /\ \/ \E p \in Named(m) : net[p] = None /\ net' = [net EXCEPT ![p] = cur]
          \/ UNCHANGED net
  /\ UNCHANGED <<present, special, phase, netsLeft, cur, start, startSpecial, settled, calls>>

TakeName ==
  /\ phase = "call"
  /\ \E m \in names :
       /\ names' = names \ {m}
       /\ IF Conflict(cur, m)
          THEN UNCHANGED <<net, special>>
          ELSE LET open == {p \in Named(m) : net[p] = None}
               IN /\ net' = [p \in Pins |-> IF p \in open THEN cur ELSE net[p]]
                  /\ special' = special \cup open
  /\ UNCHANGED <<present, phase, netsLeft, cur, start, startSpecial, settled, calls>>

End ==
  /\ phase = "call" /\ names = {} /\ netsLeft = {}
  /\ phase' = "ended" /\ settled' = TRUE
  /\ UNCHANGED <<present, net, special, netsLeft, cur, names, start, startSpecial, calls>>

-----------------------------------------------------------------------------
(* The block as read: every instance present or not yet inserted.          *)
Init ==
  /\ present \in SUBSET Pins
  /\ net \in {f \in [Pins -> Nets \cup {None}] : \A p \in Pins \ present : f[p] = None}
  /\ special \in SUBSET {p \in present : net[p] \in Nets}
  /\ phase = "edit"
  /\ netsLeft = {} /\ cur = None /\ names = {}
  /\ start = net /\ startSpecial = special
  /\ settled = FALSE /\ calls = 0

Next == Insert \/ Begin \/ TakeNet \/ TakeName \/ End

Spec == Init /\ [][Next]_vars

-----------------------------------------------------------------------------
TypeOK ==
  /\ present \subseteq Pins
  /\ net \in [Pins -> Nets \cup {None}] /\ start \in [Pins -> Nets \cup {None}]
  /\ special \subseteq Pins /\ startSpecial \subseteq Pins
  /\ phase \in {"edit", "call", "ended"} /\ settled \in BOOLEAN /\ calls \in Nat
  /\ netsLeft \subseteq Wild /\ cur \in Wild \cup {None}
  /\ names \subseteq {Name[p] : p \in Pins}

(* A wildcard net owns a name when a special pin of that name is on it and *)
(* no pin of that name stands in the way: all are on the net, or open on   *)
(* an instance that may be touched.                                        *)
Owns(n, m) ==
  /\ n \in Wild
  /\ \E p \in Named(m) : p \in startSpecial /\ start[p] = n
  /\ \A p \in Named(m) : start[p] = n \/ (start[p] = None /\ p \notin Frozen)

(* A call connects the open pins whose name some net owns to that net and  *)
(* changes nothing else, in whichever order nets and names come: it        *)
(* extends a wildcard "without overriding an explicit connection".         *)
ConnectsExactly ==
  phase = "ended" =>
    \A p \in Pins :
      IF p \in present /\ start[p] = None /\ \E n \in Wild : Owns(n, Name[p])
      THEN Owns(net[p], Name[p])
      ELSE net[p] = start[p]

(* A call right after a call finds nothing to do.                          *)
SecondCallIdle == [][settled /\ phase = "call" => UNCHANGED <<net, special>>]_vars
=============================================================================
