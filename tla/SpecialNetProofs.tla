-------------------------- MODULE SpecialNetProofs --------------------------
(***************************************************************************)
(* What a call connects, for every block: any pins, names and nets.        *)
(***************************************************************************)
EXTENDS SpecialNet, TLAPS

-----------------------------------------------------------------------------
LEMMA InitTypeOK == Init => TypeOK
  <1> SUFFICES ASSUME Init PROVE TypeOK
    OBVIOUS
  <1>1. present \subseteq Pins /\ special \subseteq Pins
    BY DEF Init
  <1>2. net \in [Pins -> Nets \cup {None}]
    BY DEF Init
  <1> QED BY <1>1, <1>2 DEF Init, TypeOK

LEMMA NextTypeOK == TypeOK /\ [Next]_vars => TypeOK'
  <1> SUFFICES ASSUME TypeOK, [Next]_vars PROVE TypeOK'
    OBVIOUS
  <1> USE DEF TypeOK
  <1>1. CASE Insert
    <2>1. PICK p \in Pins \ present, n \in Nets \cup {None} :
            present' = present \cup {p} /\ net' = [net EXCEPT ![p] = n]
      BY <1>1 DEF Insert
    <2>2. present' \subseteq Pins /\ net' \in [Pins -> Nets \cup {None}]
      BY <2>1
    <2>3. /\ phase' = "edit" /\ settled' = FALSE
          /\ UNCHANGED <<special, netsLeft, cur, names, start, startSpecial, calls>>
      BY <1>1 DEF Insert
    <2> QED BY <2>2, <2>3
  <1>2. CASE Begin
    BY <1>2 DEF Begin
  <1>3. CASE TakeNet
    BY <1>3, SpecialNetAssumption DEF TakeNet
  <1>4. CASE TakeName
    <2>1. cur \in Nets \cup {None}
      BY SpecialNetAssumption
    <2>2. PICK m \in names :
            /\ names' = names \ {m}
            /\ IF Conflict(cur, m)
               THEN UNCHANGED <<net, special>>
               ELSE /\ net' = [p \in Pins |-> IF p \in {q \in Named(m) : net[q] = None}
                                              THEN cur ELSE net[p]]
                    /\ special' = special \cup {q \in Named(m) : net[q] = None}
      BY <1>4 DEF TakeName
    <2>3. net' \in [Pins -> Nets \cup {None}] /\ special' \subseteq Pins
      BY <2>1, <2>2 DEF Named
    <2> QED BY <1>4, <2>2, <2>3 DEF TakeName
  <1>5. CASE End
    BY <1>5 DEF End
  <1>6. CASE UNCHANGED vars
    BY <1>6 DEF vars
  <1> QED BY <1>1, <1>2, <1>3, <1>4, <1>5, <1>6 DEF Next

(* Nets, pins and loop variables keep their types.                         *)
THEOREM TypeCorrect == Spec => []TypeOK
  BY InitTypeOK, NextTypeOK, PTL DEF Spec

-----------------------------------------------------------------------------
(* A name has one owner at most: the owner's special pin of that name      *)
(* would stand in another's way.                                           *)
LEMMA OneOwner ==
  ASSUME NEW n, NEW o, NEW m, Owns(n, m), Owns(o, m)
  PROVE  n = o
  <1>1. PICK p \in Named(m) : p \in startSpecial /\ start[p] = n
    BY DEF Owns
  <1>2. n # None
    BY SpecialNetAssumption DEF Owns
  <1> QED BY <1>1, <1>2 DEF Owns

(* What holds in the middle of a call: pins moved so far moved to the      *)
(* owner of their name, and names dealt with are connected throughout.     *)
Moved(p) == p \in present /\ start[p] = None /\ Owns(net[p], Name[p])
OnNet(n, m) == \E p \in Named(m) : p \in special /\ net[p] = n

CallInv ==
  /\ special \subseteq present /\ \A p \in special : net[p] # None
  /\ phase = "call" =>
       /\ \A p \in startSpecial : start[p] # None
       /\ \A p \in Pins : net[p] = start[p] \/ Moved(p)
       /\ startSpecial \subseteq special
       /\ \A p \in special \ startSpecial : Moved(p)
       /\ \A m \in names : OnNet(cur, m)
       /\ names # {} => cur \in Wild /\ cur \notin netsLeft
       /\ \A n \in Wild \ netsLeft : \A m : Owns(n, m) =>
            (n = cur /\ m \in names) \/ \A p \in Named(m) : net[p] = n

(* In a call, a name of the net at hand is free to connect just when the   *)
(* net owns it.                                                            *)
LEMMA FreeIsOwned ==
  ASSUME TypeOK, CallInv, phase = "call", NEW n \in Wild, NEW m, OnNet(n, m)
  PROVE  ~Conflict(n, m) <=> Owns(n, m)
  <1>1. \A p \in Named(m) : p \in Pins /\ p \in present /\ Name[p] = m
    BY DEF Named, TypeOK
  <1>2. n # None
    BY SpecialNetAssumption
  <1>3. \A p \in Named(m) : net[p] = start[p] \/ (start[p] = None /\ Owns(net[p], m))
    <2>1. \A p \in Pins : net[p] = start[p] \/ Moved(p)
      BY DEF CallInv
    <2> QED BY <1>1, <2>1 DEF Moved
  <1>4. \A o : Owns(o, m) => o # None
    BY SpecialNetAssumption DEF Owns
  <1>5. ASSUME Owns(n, m) PROVE ~Conflict(n, m)
    <2>1. ASSUME NEW p \in Named(m) PROVE net[p] = n \/ (net[p] = None /\ p \notin Frozen)
      <3>1. CASE net[p] = start[p]
        BY <1>5, <3>1 DEF Owns
      <3>2. CASE Owns(net[p], m)
        <4>1. n = net[p]
          BY <1>5, <3>2, OneOwner
        <4> QED BY <4>1
      <3> QED BY <1>3, <3>1, <3>2
    <2> QED BY <1>2, <2>1 DEF Conflict
  <1>6. ASSUME ~Conflict(n, m) PROVE Owns(n, m)
    <2>1. PICK q \in Named(m) : q \in special /\ net[q] = n
      BY DEF OnNet
    <2>2. CASE q \in startSpecial
      <3>1. start[q] = n
        BY <1>3, <2>1, <2>2 DEF CallInv
      <3>2. ASSUME NEW p \in Named(m) PROVE start[p] = n \/ (start[p] = None /\ p \notin Frozen)
        <4>1. net[p] = n \/ (net[p] = None /\ p \notin Frozen)
          BY <1>6 DEF Conflict
        <4>2. CASE net[p] = start[p]
          BY <4>1, <4>2
        <4>3. CASE Owns(net[p], m)
          <5>1. net[p] = n
            BY <1>4, <4>1, <4>3
          <5>2. Owns(n, m)
            BY <5>1, <4>3
          <5> QED BY <5>2 DEF Owns
        <4> QED BY <1>3, <4>2, <4>3
      <3> QED BY <2>2, <3>1, <3>2 DEF Owns
    <2>3. CASE q \notin startSpecial
      <3>1. Moved(q) /\ Name[q] = m
        BY <1>1, <2>1, <2>3 DEF CallInv
      <3> QED BY <2>1, <3>1 DEF Moved
    <2> QED BY <2>2, <2>3
  <1> QED BY <1>5, <1>6

LEMMA InitCall == Init => CallInv
  <1> SUFFICES ASSUME Init PROVE CallInv
    OBVIOUS
  <1>1. special \subseteq present /\ \A p \in special : net[p] \in Nets
    BY DEF Init
  <1> QED BY <1>1, SpecialNetAssumption DEF Init, CallInv

LEMMA InsertCall == TypeOK /\ CallInv /\ Insert => CallInv'
  <1> SUFFICES ASSUME TypeOK, CallInv, Insert PROVE CallInv'
    OBVIOUS
  <1>1. PICK p \in Pins \ present, n \in Nets \cup {None} :
          present' = present \cup {p} /\ net' = [net EXCEPT ![p] = n]
    BY DEF Insert
  <1>2. phase' = "edit" /\ special' = special
    BY DEF Insert
  <1>3. \A q \in special : net'[q] = net[q]
    BY <1>1 DEF TypeOK, CallInv
  <1> QED BY <1>1, <1>2, <1>3 DEF CallInv

LEMMA BeginCall == TypeOK /\ CallInv /\ Begin => CallInv'
  BY DEF Begin, CallInv

LEMMA TakeNetCall == TypeOK /\ CallInv /\ TakeNet => CallInv'
  <1> SUFFICES ASSUME TypeOK, CallInv, TakeNet PROVE CallInv'
    OBVIOUS
  <1>1. PICK c \in netsLeft :
          /\ cur' = c /\ netsLeft' = netsLeft \ {c}
          /\ names' = {Name[p] : p \in {p \in present \cap special : net[p] = c}}
    BY DEF TakeNet
  <1>2. /\ UNCHANGED <<present, net, special, phase, start, startSpecial>>
        /\ phase = "call" /\ names = {}
    BY DEF TakeNet
  <1>3. \A n, m : Owns(n, m)' <=> Owns(n, m)
    BY <1>2 DEF Owns, Named
  <1>4. \A p : Moved(p)' <=> Moved(p)
    BY <1>2, <1>3 DEF Moved
  <1>5. \A m : Named(m)' = Named(m)
    BY <1>2 DEF Named
  <1>6. ASSUME NEW m \in names' PROVE OnNet(cur, m)'
    <2>1. PICK p \in present : p \in special /\ net[p] = c /\ Name[p] = m
      BY <1>1
    <2> QED BY <1>1, <1>2, <2>1 DEF OnNet, Named
  <1>7. c \in Wild
    BY DEF TypeOK
  <1>8. ASSUME NEW m, Owns(c, m) PROVE m \in names'
    <2>1. PICK p \in Named(m) : p \in startSpecial /\ start[p] = c
      BY <1>8 DEF Owns
    <2>2. start[p] # None /\ p \in special /\ p \in present /\ p \in Pins
      BY <1>2, <2>1 DEF CallInv, Named, TypeOK
    <2>3. net[p] = c
      BY <1>2, <2>1, <2>2 DEF CallInv, Moved
    <2> QED BY <1>1, <2>1, <2>2, <2>3 DEF Named
  <1>9. ASSUME NEW n \in Wild \ netsLeft', NEW m, Owns(n, m)
        PROVE  (n = cur' /\ m \in names') \/ \A p \in Named(m) : net'[p] = n
    <2>1. CASE n = c
      BY <1>1, <1>8, <1>9, <2>1
    <2>2. CASE n # c
      <3>1. n \in Wild \ netsLeft
        BY <1>1, <2>2
      <3> QED BY <1>2, <1>9, <3>1 DEF CallInv
    <2> QED BY <2>1, <2>2
  <1>10. cur' \in Wild /\ cur' \notin netsLeft'
    BY <1>1, <1>7
  <1> QED BY <1>2, <1>3, <1>4, <1>5, <1>6, <1>9, <1>10 DEF CallInv

(* What a turn of the inner loop does to the pins.                         *)
LEMMA TakeNameStep ==
  ASSUME TypeOK, CallInv, TakeName
  PROVE  \E m \in names :
           /\ names' = names \ {m} /\ OnNet(cur, m) /\ cur \in Wild /\ cur \notin netsLeft
           /\ UNCHANGED <<present, phase, netsLeft, cur, start, startSpecial>> /\ phase = "call"
           /\ \/ ~Owns(cur, m) /\ UNCHANGED <<net, special>>
              \/ /\ Owns(cur, m) /\ ~Conflict(cur, m)
                 /\ net' = [p \in Pins |-> IF p \in Named(m) /\ net[p] = None
                                           THEN cur ELSE net[p]]
                 /\ special' = special \cup {p \in Named(m) : net[p] = None}
  <1>1. PICK m \in names :
          /\ names' = names \ {m}
          /\ IF Conflict(cur, m)
             THEN UNCHANGED <<net, special>>
             ELSE /\ net' = [p \in Pins |-> IF p \in {q \in Named(m) : net[q] = None}
                                            THEN cur ELSE net[p]]
                  /\ special' = special \cup {q \in Named(m) : net[q] = None}
    BY DEF TakeName
  <1>2. /\ UNCHANGED <<present, phase, netsLeft, cur, start, startSpecial>> /\ phase = "call"
    BY DEF TakeName
  <1>3. OnNet(cur, m) /\ cur \in Wild /\ cur \notin netsLeft
    BY <1>1, <1>2 DEF CallInv
  <1>4. ~Conflict(cur, m) <=> Owns(cur, m)
    BY <1>2, <1>3, FreeIsOwned
  <1>5. CASE Conflict(cur, m)
    BY <1>1, <1>2, <1>3, <1>4, <1>5
  <1>6. CASE ~Conflict(cur, m)
    <2>1. net' = [p \in Pins |-> IF p \in Named(m) /\ net[p] = None THEN cur ELSE net[p]]
      BY <1>1, <1>6
    <2> QED BY <1>1, <1>2, <1>3, <1>4, <1>6, <2>1
  <1> QED BY <1>5, <1>6

LEMMA TakeNameCall == TypeOK /\ CallInv /\ TakeName => CallInv'
  <1> SUFFICES ASSUME TypeOK, CallInv, TakeName PROVE CallInv'
    OBVIOUS
  <1>1. PICK m \in names :
           /\ names' = names \ {m} /\ OnNet(cur, m) /\ cur \in Wild /\ cur \notin netsLeft
           /\ UNCHANGED <<present, phase, netsLeft, cur, start, startSpecial>> /\ phase = "call"
           /\ \/ ~Owns(cur, m) /\ UNCHANGED <<net, special>>
              \/ /\ Owns(cur, m) /\ ~Conflict(cur, m)
                 /\ net' = [p \in Pins |-> IF p \in Named(m) /\ net[p] = None
                                           THEN cur ELSE net[p]]
                 /\ special' = special \cup {p \in Named(m) : net[p] = None}
    BY TakeNameStep
  <1>2. \A n, x : Owns(n, x)' <=> Owns(n, x)
    BY <1>1 DEF Owns, Named
  <1>3. \A x : Named(x)' = Named(x)
    BY <1>1 DEF Named
  <1>4. cur # None
    BY <1>1, SpecialNetAssumption
  <1>5. CASE ~Owns(cur, m) /\ UNCHANGED <<net, special>>
    <2>1. \A p : Moved(p)' <=> Moved(p)
      BY <1>1, <1>2, <1>5 DEF Moved
    <2>2. \A x : OnNet(cur, x)' <=> OnNet(cur, x)
      BY <1>1, <1>3, <1>5 DEF OnNet
    <2>3. ASSUME NEW n \in Wild \ netsLeft', NEW x, Owns(n, x)'
          PROVE  (n = cur' /\ x \in names') \/ \A p \in Named(x)' : net'[p] = n
      <3>1. (n = cur /\ x \in names) \/ \A p \in Named(x) : net[p] = n
        BY <1>1, <1>2, <2>3 DEF CallInv
      <3>2. ~(n = cur /\ x = m)
        BY <1>2, <1>5, <2>3
      <3> QED BY <1>1, <1>3, <1>5, <3>1, <3>2
    <2> QED BY <1>1, <1>5, <2>1, <2>2, <2>3 DEF CallInv
  <1>6. CASE /\ Owns(cur, m) /\ ~Conflict(cur, m)
             /\ net' = [p \in Pins |-> IF p \in Named(m) /\ net[p] = None
                                        THEN cur ELSE net[p]]
             /\ special' = special \cup {p \in Named(m) : net[p] = None}
    <2>1. Named(m) \subseteq Pins /\ special \subseteq Pins
      BY DEF Named, TypeOK
    <2>2. \A p \in Pins : net[p] # None => net'[p] = net[p]
      BY <1>6
    <2>3. \A p \in Named(m) : net'[p] = cur
      BY <1>6, <2>1 DEF Conflict
    <2>4. \A p \in Pins : net'[p] = net[p] \/ (p \in Named(m) /\ net[p] = None)
      BY <1>6
    <2>5. ASSUME NEW p \in Named(m), net[p] = None PROVE Moved(p)'
      <3>1. start[p] = None
        <4>1. net[p] = start[p] \/ Owns(net[p], Name[p])
          BY <1>1, <2>1 DEF CallInv, Moved
        <4> QED BY <2>5, <4>1, SpecialNetAssumption DEF Owns
      <3> QED BY <1>1, <1>2, <1>6, <2>3, <3>1 DEF Moved, Named
    <2>6. ASSUME NEW p \in Pins, Moved(p) PROVE Moved(p)'
      <3>1. net[p] # None
        BY <2>6, SpecialNetAssumption DEF Moved, Owns
      <3> QED BY <1>1, <1>2, <2>2, <2>6, <3>1 DEF Moved
    <2>7. \A p \in Pins : net'[p] = start'[p] \/ Moved(p)'
      BY <1>1, <2>4, <2>5, <2>6 DEF CallInv
    <2>8. /\ special' \subseteq present' /\ \A p \in special' : net'[p] # None
      <3>1. \A p \in special : net'[p] # None
        BY <2>1, <2>2 DEF CallInv
      <3> QED BY <1>1, <1>4, <1>6, <2>3, <3>1 DEF CallInv, Named
    <2>9. startSpecial' \subseteq special' /\ \A p \in special' \ startSpecial' : Moved(p)'
      BY <1>1, <1>6, <2>1, <2>5, <2>6 DEF CallInv
    <2>10. ASSUME NEW x, OnNet(cur, x) PROVE OnNet(cur, x)'
      <3>1. PICK p \in Named(x) : p \in special /\ net[p] = cur
        BY <2>10 DEF OnNet
      <3>2. net'[p] = cur
        BY <1>4, <2>1, <2>2, <3>1
      <3> QED BY <1>1, <1>3, <1>6, <3>1, <3>2 DEF OnNet
    <2>11. ASSUME NEW n \in Wild \ netsLeft', NEW x, Owns(n, x)'
           PROVE  (n = cur' /\ x \in names') \/ \A p \in Named(x)' : net'[p] = n
      <3>1. (n = cur /\ x \in names) \/ \A p \in Named(x) : net[p] = n
        BY <1>1, <1>2, <2>11 DEF CallInv
      <3>2. n # None
        BY SpecialNetAssumption
      <3>3. CASE \A p \in Named(x) : net[p] = n
        <4>1. Named(x) \subseteq Pins
          BY DEF Named, TypeOK
        <4> QED BY <1>3, <2>2, <3>2, <3>3, <4>1
      <3>4. CASE n = cur /\ x = m
        BY <1>3, <2>3, <3>4
      <3>5. CASE n = cur /\ x \in names /\ x # m
        BY <1>1, <3>5
      <3> QED BY <3>1, <3>3, <3>4, <3>5
    <2>12. \A p \in startSpecial' : start'[p] # None
      BY <1>1 DEF CallInv
    <2>13. \A x \in names' : OnNet(cur, x)'
      BY <1>1, <2>10 DEF CallInv
    <2> QED BY <1>1, <2>7, <2>8, <2>9, <2>11, <2>12, <2>13 DEF CallInv
  <1> QED BY <1>1, <1>5, <1>6

(* End, and steps that do nothing, leave all this as it is.                *)
LEMMA NextCall == TypeOK /\ CallInv /\ [Next]_vars => CallInv'
  <1> SUFFICES ASSUME TypeOK, CallInv, [Next]_vars PROVE CallInv'
    OBVIOUS
  <1>1. CASE End
    BY <1>1 DEF End, CallInv
  <1>2. CASE UNCHANGED vars
    <2>1. \A m : Named(m)' = Named(m)
      BY <1>2 DEF vars, Named
    <2>2. \A n, m : Owns(n, m)' <=> Owns(n, m)
      BY <1>2, <2>1 DEF vars, Owns
    <2>3. \A n, m : OnNet(n, m)' <=> OnNet(n, m)
      BY <1>2, <2>1 DEF vars, OnNet
    <2>4. \A p : Moved(p)' <=> Moved(p)
      BY <1>2, <2>2 DEF vars, Moved
    <2> QED BY <1>2, <2>1, <2>2, <2>3, <2>4 DEF vars, CallInv
  <1> QED BY <1>1, <1>2, InsertCall, BeginCall, TakeNetCall, TakeNameCall DEF Next

-----------------------------------------------------------------------------
LEMMA NextConnects ==
  TypeOK /\ CallInv /\ ConnectsExactly /\ [Next]_vars => ConnectsExactly'
  <1> SUFFICES ASSUME TypeOK, CallInv, ConnectsExactly, [Next]_vars PROVE ConnectsExactly'
    OBVIOUS
  <1>1. CASE End
    <2>1. /\ UNCHANGED <<present, net, start, startSpecial>>
          /\ phase = "call" /\ names = {} /\ netsLeft = {}
      BY <1>1 DEF End
    <2>2. \A n, m : Owns(n, m)' <=> Owns(n, m)
      BY <2>1 DEF Owns, Named
    <2>3. ASSUME NEW p \in Pins, p \in present, NEW n \in Wild, Owns(n, Name[p])
          PROVE  Owns(net[p], Name[p])
      <3>1. \A q \in Named(Name[p]) : net[q] = n
        BY <2>1, <2>3 DEF CallInv
      <3> QED BY <2>3, <3>1 DEF Named
    <2>4. ASSUME NEW p \in Pins, net[p] # start[p]
          PROVE  p \in present /\ start[p] = None /\ \E n \in Wild : Owns(n, Name[p])
      <3>1. Moved(p)
        BY <2>1, <2>4 DEF CallInv
      <3> QED BY <3>1 DEF Moved, Owns
    <2> QED BY <2>1, <2>2, <2>3, <2>4 DEF ConnectsExactly
  <1>2. CASE Insert \/ Begin \/ TakeNet \/ TakeName
    <2>1. phase' # "ended"
      BY <1>2 DEF Insert, Begin, TakeNet, TakeName
    <2> QED BY <2>1 DEF ConnectsExactly
  <1>3. CASE UNCHANGED vars
    <2>1. \A n, m : Owns(n, m)' <=> Owns(n, m)
      BY <1>3 DEF vars, Owns, Named
    <2> QED BY <1>3, <2>1 DEF vars, ConnectsExactly
  <1> QED BY <1>1, <1>2, <1>3 DEF Next

(* When a call ends, exactly the open pins whose name some wildcard net    *)
(* owns have been connected, each to that net, in whatever order the nets  *)
(* and names came.                                                         *)
THEOREM CallConnects == Spec => []ConnectsExactly
  <1>1. Init => TypeOK /\ CallInv /\ ConnectsExactly
    BY InitTypeOK, InitCall DEF Init, ConnectsExactly
  <1>2. TypeOK /\ CallInv /\ ConnectsExactly /\ [Next]_vars
          => (TypeOK /\ CallInv /\ ConnectsExactly)'
    BY NextTypeOK, NextCall, NextConnects
  <1> QED BY <1>1, <1>2, PTL DEF Spec

-----------------------------------------------------------------------------
(* After a call no name is left that a further call would connect.         *)
Idle ==
  settled => \A n \in Wild : \A m :
               OnNet(n, m) /\ ~Conflict(n, m) => \A p \in Named(m) : net[p] # None

LEMMA NameIdle ==
  ASSUME TypeOK, CallInv, Idle, settled, TakeName
  PROVE  UNCHANGED <<net, special>>
  <1>1. PICK m \in names :
           /\ names' = names \ {m} /\ OnNet(cur, m) /\ cur \in Wild /\ cur \notin netsLeft
           /\ UNCHANGED <<present, phase, netsLeft, cur, start, startSpecial>> /\ phase = "call"
           /\ \/ ~Owns(cur, m) /\ UNCHANGED <<net, special>>
              \/ /\ Owns(cur, m) /\ ~Conflict(cur, m)
                 /\ net' = [p \in Pins |-> IF p \in Named(m) /\ net[p] = None
                                           THEN cur ELSE net[p]]
                 /\ special' = special \cup {p \in Named(m) : net[p] = None}
    BY TakeNameStep
  <1>2. CASE ~Conflict(cur, m)
    <2>1. \A p \in Named(m) : net[p] # None
      BY <1>1, <1>2 DEF Idle
    <2>2. net' = [p \in Pins |-> net[p]] \/ UNCHANGED net
      BY <1>1, <2>1
    <2>3. UNCHANGED net
      BY <2>2 DEF TypeOK
    <2>4. {p \in Named(m) : net[p] = None} = {}
      BY <2>1
    <2> QED BY <1>1, <2>3, <2>4
  <1> QED BY <1>1, <1>2

LEMMA StepIdle ==
  ASSUME TypeOK, CallInv, Idle, [Next]_vars
  PROVE  Idle' /\ (settled /\ phase = "call" => UNCHANGED <<net, special>>)
  <1>1. ASSUME UNCHANGED <<present, net, special, settled>> PROVE Idle'
    BY <1>1 DEF Idle, OnNet, Conflict, Named
  <1>2. CASE Insert
    BY <1>2 DEF Insert, Idle
  <1>3. CASE Begin \/ TakeNet
    BY <1>1, <1>3 DEF Begin, TakeNet
  <1>4. CASE TakeName
    <2>1. UNCHANGED <<present, settled>>
      BY <1>4 DEF TakeName
    <2>2. settled => UNCHANGED <<net, special>>
      BY <1>4, NameIdle
    <2>3. ~settled => Idle'
      BY <2>1 DEF Idle
    <2> QED BY <1>1, <2>1, <2>2, <2>3
  <1>5. CASE End
    <2>1. UNCHANGED <<present, net, special>> /\ phase = "call" /\ names = {} /\ netsLeft = {}
      BY <1>5 DEF End
    <2>2. ASSUME NEW n \in Wild, NEW m, OnNet(n, m), ~Conflict(n, m), NEW p \in Named(m)
          PROVE  net[p] # None
      <3>1. Owns(n, m)
        BY <2>1, <2>2, FreeIsOwned
      <3>2. net[p] = n
        BY <2>1, <3>1, <2>2 DEF CallInv
      <3> QED BY <3>2, SpecialNetAssumption
    <2> QED BY <2>1, <2>2 DEF Idle, OnNet, Conflict, Named
  <1>6. CASE UNCHANGED vars
    BY <1>1, <1>6 DEF vars
  <1> QED BY <1>2, <1>3, <1>4, <1>5, <1>6 DEF Next

(* A call with nothing inserted since the last one changes nothing.        *)
THEOREM SettledStays == Spec => SecondCallIdle
  <1>1. Init => TypeOK /\ CallInv /\ Idle
    BY InitTypeOK, InitCall DEF Init, Idle
  <1>2. TypeOK /\ CallInv /\ Idle /\ [Next]_vars
          => (TypeOK /\ CallInv /\ Idle)'
    BY NextTypeOK, NextCall, StepIdle
  <1>3. TypeOK /\ CallInv /\ Idle /\ [Next]_vars
          => [settled /\ phase = "call" => UNCHANGED <<net, special>>]_vars
    BY StepIdle
  <1> QED BY <1>1, <1>2, <1>3, PTL DEF Spec, SecondCallIdle
=============================================================================
