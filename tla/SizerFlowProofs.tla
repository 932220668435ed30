--------------------------- MODULE SizerFlowProofs ---------------------------
(***************************************************************************)
(* Proofs about what main() exports, for every set of nets, every options  *)
(* and any number of synchronisations.  They follow one scheme: in the     *)
(* flow of a mode each command that spoils something is followed by one    *)
(* that repairs it (a fact about sequences), so that whatever is spoiled   *)
(* has its repair still ahead (the invariant), and after the last command, *)
(* the export, nothing is ahead.                                           *)
(***************************************************************************)
EXTENDS SizerFlow, SequenceTheorems, TLAPS

\* All commands but the export.
Work == {"assertChain", "markPads", "readSpef", "estimate", "routeRc", "seed",
         "startIncremental", "updateRc", "endIncremental", "swap", "repairDesign",
         "repairHold", "repairSetup", "connect", "legalize"}
Commands == Work \cup {"write"}

Has(s, f) == \E j \in 1 .. Len(s) : s[j] = f
Free(s, D) == \A i \in 1 .. Len(s) : s[i] \notin D

\* A command of D is followed by an f.
Follows(s, D, f) ==
  \A i \in 1 .. Len(s) : s[i] \in D => \E j \in i + 1 .. Len(s) : s[j] = f

\* s ends in f, and has it nowhere else.
EndsIn(s, f) == Len(s) > 0 /\ \A i \in 1 .. Len(s) : s[i] = f <=> i = Len(s)

-----------------------------------------------------------------------------
(* Sequences put together.                                                 *)

LEMMA ConcatHas ==
  ASSUME NEW s \in Seq(Commands), NEW t \in Seq(Commands), NEW f, Has(s, f) \/ Has(t, f)
  PROVE  Has(s \o t, f)
  <1>1. /\ Len(s) \in Nat /\ Len(t) \in Nat
        /\ Len(s \o t) = Len(s) + Len(t)
        /\ \A i \in 1 .. Len(s) + Len(t) :
             (s \o t)[i] = IF i <= Len(s) THEN s[i] ELSE t[i - Len(s)]
    BY ConcatProperties, LenProperties
  <1>2. CASE Has(s, f)
    BY <1>1, <1>2 DEF Has
  <1>3. CASE Has(t, f)
    <2>1. PICK j \in 1 .. Len(t) : t[j] = f
      BY <1>3 DEF Has
    <2>2. /\ Len(s) + j \in 1 .. Len(s \o t)
          /\ (s \o t)[Len(s) + j] = f
      BY <1>1, <2>1
    <2> QED BY <2>2 DEF Has
  <1> QED BY <1>2, <1>3

LEMMA ConcatFree ==
  ASSUME NEW s \in Seq(Commands), NEW t \in Seq(Commands), NEW D, Free(s, D), Free(t, D)
  PROVE  Free(s \o t, D)
  <1>1. /\ Len(s) \in Nat /\ Len(t) \in Nat
        /\ Len(s \o t) = Len(s) + Len(t)
        /\ \A i \in 1 .. Len(s) + Len(t) :
             (s \o t)[i] = IF i <= Len(s) THEN s[i] ELSE t[i - Len(s)]
    BY ConcatProperties, LenProperties
  <1> SUFFICES ASSUME NEW i \in 1 .. Len(s \o t) PROVE (s \o t)[i] \notin D
    BY DEF Free
  <1>2. CASE i <= Len(s)
    BY <1>1, <1>2 DEF Free
  <1>3. CASE ~(i <= Len(s))
    <2>1. i - Len(s) \in 1 .. Len(t) /\ (s \o t)[i] = t[i - Len(s)]
      BY <1>1, <1>3
    <2> QED BY <2>1 DEF Free
  <1> QED BY <1>2, <1>3

LEMMA FreeFollows ==
  ASSUME NEW s, NEW D, NEW f, Free(s, D) PROVE Follows(s, D, f)
  BY DEF Free, Follows

(* What s spoils, t repairs, if it has the repair at all.                  *)
LEMMA ConcatFollows ==
  ASSUME NEW s \in Seq(Commands), NEW t \in Seq(Commands), NEW D, NEW f,
         Follows(s, D, f) \/ Has(t, f), Follows(t, D, f)
  PROVE  Follows(s \o t, D, f)
  <1>1. /\ Len(s) \in Nat /\ Len(t) \in Nat
        /\ Len(s \o t) = Len(s) + Len(t)
        /\ \A i \in 1 .. Len(s) + Len(t) :
             (s \o t)[i] = IF i <= Len(s) THEN s[i] ELSE t[i - Len(s)]
    BY ConcatProperties, LenProperties
  <1> SUFFICES ASSUME NEW i \in 1 .. Len(s \o t), (s \o t)[i] \in D
               PROVE  \E j \in i + 1 .. Len(s \o t) : (s \o t)[j] = f
    BY DEF Follows
  <1>2. CASE i <= Len(s) /\ Follows(s, D, f)
    <2>1. PICK j \in i + 1 .. Len(s) : s[j] = f
      BY <1>1, <1>2 DEF Follows
    <2> QED BY <1>1, <1>2, <2>1
  <1>3. CASE i <= Len(s) /\ Has(t, f)
    <2>1. PICK j \in 1 .. Len(t) : t[j] = f
      BY <1>3 DEF Has
    <2>2. Len(s) + j \in i + 1 .. Len(s \o t) /\ (s \o t)[Len(s) + j] = f
      BY <1>1, <1>3, <2>1
    <2> QED BY <2>2
  <1>4. CASE ~(i <= Len(s))
    <2>1. i - Len(s) \in 1 .. Len(t) /\ t[i - Len(s)] \in D
      BY <1>1, <1>4
    <2>2. PICK j \in i - Len(s) + 1 .. Len(t) : t[j] = f
      BY <2>1 DEF Follows
    <2>3. Len(s) + j \in i + 1 .. Len(s \o t) /\ (s \o t)[Len(s) + j] = f
      BY <1>1, <1>4, <2>2
    <2> QED BY <2>3
  <1> QED BY <1>2, <1>3, <1>4

LEMMA ConcatEnds ==
  ASSUME NEW s \in Seq(Work), NEW t \in Seq(Commands), EndsIn(t, "write")
  PROVE  s \o t \in Seq(Commands) /\ EndsIn(s \o t, "write")
  <1>1. s \in Seq(Commands)
    BY DEF Commands
  <1>2. /\ Len(s) \in Nat /\ Len(t) \in Nat
        /\ Len(s \o t) = Len(s) + Len(t)
        /\ \A i \in 1 .. Len(s) + Len(t) :
             (s \o t)[i] = IF i <= Len(s) THEN s[i] ELSE t[i - Len(s)]
    BY <1>1, ConcatProperties, LenProperties
  <1>3. \A i \in 1 .. Len(s) : s[i] # "write"
    <2>1. \A i \in 1 .. Len(s) : s[i] \in Work
      BY ElementOfSeq
    <2> QED BY <2>1 DEF Work
  <1>4. Len(t) > 0 /\ \A i \in 1 .. Len(t) : t[i] = "write" <=> i = Len(t)
    BY DEF EndsIn
  <1>5. ASSUME NEW i \in 1 .. Len(s) + Len(t)
        PROVE  (s \o t)[i] = "write" <=> i = Len(s) + Len(t)
    <2>1. CASE i <= Len(s)
      BY <1>2, <1>3, <1>4, <2>1
    <2>2. CASE ~(i <= Len(s))
      <3>1. i - Len(s) \in 1 .. Len(t) /\ (s \o t)[i] = t[i - Len(s)]
        BY <1>2, <2>2
      <3> QED BY <1>2, <1>4, <3>1
    <2> QED BY <2>1, <2>2
  <1> QED BY <1>1, <1>2, <1>4, <1>5, ConcatProperties DEF EndsIn

-----------------------------------------------------------------------------
(* The parts of the flow.                                                  *)

\* What makes the RC the selected kind, and what makes it another or old.
Fresh(o) == IF UseGr(o) THEN "routeRc" ELSE "estimate"
Spoils(o) ==
  {"readSpef", "estimate", "routeRc", "seed", "updateRc", "swap", "legalize"} \ {Fresh(o)}
Moves == Repairs \cup {"swap"}

LEMMA RefreshFacts ==
  ASSUME NEW o \in Options
  PROVE  /\ Refresh(o) \in Seq(Work)
         /\ Has(Refresh(o), Fresh(o))
         /\ Follows(Refresh(o), Spoils(o), Fresh(o))
         /\ Free(Refresh(o), Moves)
  <1>1. <<"estimate">> \in Seq(Work) /\ <<"routeRc">> \in Seq(Work)
    BY DEF Work
  <1>2. CASE UseGr(o)
    <2>1. Refresh(o) = <<"estimate">> \o <<"routeRc">>
      BY <1>2 DEF Refresh, When
    <2>2. <<"estimate">> \in Seq(Commands) /\ <<"routeRc">> \in Seq(Commands)
      BY <1>1 DEF Commands
    <2>3. Has(<<"routeRc">>, "routeRc") /\ Follows(<<"routeRc">>, Spoils(o), "routeRc")
      BY <1>2 DEF Has, Follows, Spoils, Fresh
    <2>4. Free(<<"estimate">>, Moves) /\ Free(<<"routeRc">>, Moves)
      BY DEF Free, Moves, Repairs
    <2> QED BY <1>1, <1>2, <2>1, <2>2, <2>3, <2>4, ConcatProperties, ConcatHas,
               ConcatFollows, ConcatFree DEF Fresh
  <1>3. CASE ~UseGr(o)
    <2>1. Refresh(o) = <<"estimate">>
      BY <1>1, <1>3, ConcatEmptySeq DEF Refresh, When
    <2>2. Has(<<"estimate">>, "estimate")
      BY DEF Has
    <2>3. \A D : Follows(<<"estimate">>, D \ {"estimate"}, "estimate")
      BY DEF Follows
    <2>4. Free(<<"estimate">>, Moves)
      BY DEF Free, Moves, Repairs
    <2> QED BY <1>1, <1>3, <2>1, <2>2, <2>3, <2>4 DEF Fresh, Spoils
  <1> QED BY <1>2, <1>3

LEMMA ApplyWork ==
  ASSUME NEW o \in Options, NEW s \in Seq(Work)
  PROVE  Apply(o, s) \in Seq(Work) /\ Len(Apply(o, s)) \in Nat \ {0}
  <1>1. /\ <<"seed", "startIncremental">> \in Seq(Work)
        /\ <<"updateRc", "endIncremental">> \in Seq(Work)
        /\ <<"estimate">> \in Seq(Work)
    BY DEF Work
  <1>2. Len(s) \in Nat
    BY LenProperties
  <1>3. CASE UseGr(o)
    <2>1. /\ <<"seed", "startIncremental">> \o s \in Seq(Work)
          /\ Len(<<"seed", "startIncremental">> \o s) = 2 + Len(s)
      BY <1>1, ConcatProperties
    <2> QED BY <1>1, <1>2, <1>3, <2>1, ConcatProperties DEF Apply
  <1>4. CASE ~UseGr(o)
    BY <1>1, <1>2, <1>4, ConcatProperties DEF Apply
  <1> QED BY <1>3, <1>4

LEMMA LauncherWork ==
  ASSUME NEW o \in Options, MaxSyncs \in Nat
  PROVE  Launcher(o) \in Seq(Work)
  <1> DEFINE sync == Apply(o, <<"swap">>)
  <1>1. <<"swap">> \in Seq(Work)
    BY DEF Work
  <1>2. sync \in Seq(Work) /\ Len(sync) \in Nat \ {0}
    BY <1>1, ApplyWork
  <1>3. o.syncs \in Nat
    BY DEF Options
  <1>4. o.syncs * Len(sync) \in Nat
    BY <1>2, <1>3
  <1> HIDE DEF sync
  <1>5. ASSUME NEW i \in 1 .. o.syncs * Len(sync)
        PROVE  sync[((i - 1) % Len(sync)) + 1] \in Work
    <2>1. \A a \in Int, b \in Nat \ {0} : a % b \in 0 .. b - 1
      BY SMT
    <2>2. i - 1 \in Int
      BY <1>4
    <2>3. (i - 1) % Len(sync) \in 0 .. Len(sync) - 1
      BY <1>2, <2>1, <2>2
    <2>4. ((i - 1) % Len(sync)) + 1 \in 1 .. Len(sync)
      BY <1>2, <2>3
    <2> QED BY <1>2, <2>4, ElementOfSeq
  <1>6. [i \in 1 .. o.syncs * Len(sync) |-> sync[((i - 1) % Len(sync)) + 1]] \in Seq(Work)
    BY <1>4, <1>5, IsASeq
  <1> QED BY <1>6 DEF Launcher, sync

LEMMA PartsWork ==
  ASSUME NEW o \in Options
  PROVE  /\ LoadDesign(o) \in Seq(Work)
         /\ HoldPass(o) \in Seq(Work)
         /\ FinalReport(o) \in Seq(Work)
         /\ RunOrdTO(o) \in Seq(Work)
  <1>1. /\ << >> \in Seq(Work)
        /\ <<"assertChain", "markPads">> \in Seq(Work)
        /\ <<"readSpef">> \in Seq(Work) /\ <<"estimate">> \in Seq(Work)
        /\ <<"legalize", "routeRc">> \in Seq(Work)
        /\ <<"repairHold", "connect", "legalize">> \in Seq(Work)
        /\ <<"swap">> \in Seq(Work) /\ <<"swap", "legalize">> \in Seq(Work)
        /\ <<"assertChain">> \in Seq(Work)
    BY DEF Work
  <1>2. <<"assertChain", "repairDesign", "repairHold", "repairSetup", "connect", "legalize">>
          \in Seq(Work)
    BY DEF Work
  <1>3. \A s, t \in Seq(Work) : s \o t \in Seq(Work)
    BY ConcatProperties
  <1>4. LoadDesign(o) \in Seq(Work)
    <2>1. /\ When(o.spef, <<"readSpef">>) \in Seq(Work)
          /\ When(~o.preplace, <<"estimate">>) \in Seq(Work)
          /\ When(UseGr(o) /\ ~o.spef /\ ~o.preplace, <<"legalize", "routeRc">>) \in Seq(Work)
      BY <1>1 DEF When
    <2> QED BY <1>1, <1>3, <2>1 DEF LoadDesign
  <1>5. HoldPass(o) \in Seq(Work)
    BY <1>1, <1>3, RefreshFacts DEF HoldPass
  <1>6. FinalReport(o) \in Seq(Work)
    BY <1>1, <1>3, RefreshFacts, ApplyWork DEF FinalReport
  <1>7. RunOrdTO(o) \in Seq(Work)
    BY <1>1, <1>2, <1>3, RefreshFacts DEF RunOrdTO
  <1> QED BY <1>4, <1>5, <1>6, <1>7

-----------------------------------------------------------------------------
(* What is spoiled in a flow is repaired in it.                            *)

\* A flow that ends in the export and repairs what it spoils.
Repaired(s, D, f) == Follows(s, D, f) /\ Has(s, f)

LEMMA HoldFacts ==
  ASSUME NEW o \in Options
  PROVE  /\ RunHoldOnly(o) \in Seq(Commands)
         /\ EndsIn(RunHoldOnly(o), "write")
         /\ Repaired(RunHoldOnly(o), Repairs, "connect")
         /\ Repaired(RunHoldOnly(o), Moves, "legalize")
         /\ Repaired(RunHoldOnly(o), Spoils(o), Fresh(o))
  <1> DEFINE R == Refresh(o)
             L == <<"repairHold", "connect", "legalize">>
             P == L \o R
             W == <<"write">>
  <1>1. /\ L \in Seq(Commands) /\ R \in Seq(Commands) /\ P \in Seq(Commands)
        /\ P \in Seq(Work) /\ P \o P \in Seq(Work) /\ P \o P \in Seq(Commands)
        /\ W \in Seq(Commands)
    <2>1. L \in Seq(Work) /\ R \in Seq(Work) /\ W \in Seq(Commands)
      BY RefreshFacts DEF Work, Commands
    <2>2. P \in Seq(Work) /\ P \o P \in Seq(Work)
      BY <2>1, ConcatProperties
    <2>3. \A s \in Seq(Work) : s \in Seq(Commands)
      BY DEF Commands
    <2> QED BY <2>1, <2>2, <2>3
  <1>2. RunHoldOnly(o) = (P \o P) \o W
    BY DEF RunHoldOnly, HoldPass
  <1>3. EndsIn(W, "write")
    BY DEF EndsIn
  <1>4. ASSUME NEW D, NEW f, Repaired(P, D, f), Free(W, D)
        PROVE  Repaired((P \o P) \o W, D, f)
    <2>1. Follows(P \o P, D, f) /\ Has(P \o P, f)
      BY <1>1, <1>4, ConcatFollows, ConcatHas DEF Repaired
    <2> QED BY <1>1, <1>4, <2>1, FreeFollows, ConcatFollows, ConcatHas DEF Repaired
  <1>5. Free(W, Repairs) /\ Free(W, Moves) /\ Free(W, Spoils(o))
    BY DEF Free, Repairs, Moves, Spoils
  <1>6. /\ Has(L, "connect") /\ Follows(L, Repairs, "connect")
        /\ Has(L, "legalize") /\ Follows(L, Moves, "legalize")
    BY DEF Has, Follows, Moves, Repairs
  <1>7. /\ Free(R, Moves) /\ Free(R, Repairs)
        /\ Has(R, Fresh(o)) /\ Follows(R, Spoils(o), Fresh(o))
    BY RefreshFacts DEF Free, Moves
  <1> HIDE DEF R, L
  <1>8. Repaired(P, Repairs, "connect")
    BY <1>1, <1>6, <1>7, FreeFollows, ConcatFollows, ConcatHas DEF Repaired
  <1>9. Repaired(P, Moves, "legalize")
    BY <1>1, <1>6, <1>7, FreeFollows, ConcatFollows, ConcatHas DEF Repaired
  <1>10. Repaired(P, Spoils(o), Fresh(o))
    BY <1>1, <1>7, ConcatFollows, ConcatHas DEF Repaired
  <1> HIDE DEF P, W
  <1> QED BY <1>1, <1>2, <1>3, <1>4, <1>5, <1>8, <1>9, <1>10, ConcatEnds

LEMMA OrdFacts ==
  ASSUME NEW o \in Options
  PROVE  /\ Repaired(RunOrdTO(o), Repairs, "connect")
         /\ Repaired(RunOrdTO(o), Moves, "legalize")
         /\ Repaired(RunOrdTO(o), Spoils(o), Fresh(o))
  <1> DEFINE R == Refresh(o)
             L == <<"assertChain", "repairDesign", "repairHold", "repairSetup", "connect",
                    "legalize">>
             A == <<"assertChain">>
  <1>1. L \in Seq(Commands) /\ R \in Seq(Commands) /\ A \in Seq(Commands)
    <2>1. L \in Seq(Commands)
      BY DEF Commands, Work
    <2>2. A \in Seq(Commands)
      BY DEF Commands, Work
    <2> QED BY <2>1, <2>2, RefreshFacts DEF Commands
  <1>2. RunOrdTO(o) = (L \o R) \o A /\ L \o R \in Seq(Commands)
    BY <1>1, ConcatProperties DEF RunOrdTO
  <1>3. Free(A, Repairs) /\ Free(A, Moves) /\ Free(A, Spoils(o))
    BY DEF Free, Repairs, Moves, Spoils
  <1>4. Has(L, "connect") /\ Follows(L, Repairs, "connect")
    BY DEF Has, Follows, Repairs
  <1>5. Has(L, "legalize") /\ Follows(L, Moves, "legalize")
    BY DEF Has, Follows, Moves, Repairs
  <1>6. /\ Free(R, Moves) /\ Free(R, Repairs)
        /\ Has(R, Fresh(o)) /\ Follows(R, Spoils(o), Fresh(o))
    BY RefreshFacts DEF Free, Moves
  <1> HIDE DEF R, L, A
  <1>7. Repaired(L \o R, Repairs, "connect")
    BY <1>1, <1>4, <1>6, FreeFollows, ConcatFollows, ConcatHas DEF Repaired
  <1>8. Repaired(L \o R, Moves, "legalize")
    BY <1>1, <1>5, <1>6, FreeFollows, ConcatFollows, ConcatHas DEF Repaired
  <1>9. Repaired(L \o R, Spoils(o), Fresh(o))
    BY <1>1, <1>6, ConcatFollows, ConcatHas DEF Repaired
  <1> QED BY <1>1, <1>2, <1>3, <1>7, <1>8, <1>9, FreeFollows, ConcatFollows, ConcatHas
          DEF Repaired

\* Whatever comes before a part that repairs everything is repaired too.
LEMMA Prefixed ==
  ASSUME NEW s \in Seq(Commands), NEW t \in Seq(Commands), NEW D, NEW f, Repaired(t, D, f)
  PROVE  Repaired(s \o t, D, f)
  BY ConcatFollows, ConcatHas DEF Repaired

LEMMA SizeFacts ==
  ASSUME NEW o \in Options, MaxSyncs \in Nat
  PROVE  LET S == Launcher(o) \o FinalReport(o) \o RunOrdTO(o) \o <<"write">>
         IN  /\ S \in Seq(Commands)
             /\ EndsIn(S, "write")
             /\ Repaired(S, Repairs, "connect")
             /\ Repaired(S, Moves, "legalize")
             /\ Repaired(S, Spoils(o), Fresh(o))
  <1> DEFINE P == Launcher(o) \o FinalReport(o)
             T == RunOrdTO(o)
             W == <<"write">>
  <1>1. /\ P \in Seq(Work) /\ T \in Seq(Work) /\ P \o T \in Seq(Work)
    BY LauncherWork, PartsWork, ConcatProperties
  <1>2. /\ P \in Seq(Commands) /\ T \in Seq(Commands) /\ P \o T \in Seq(Commands)
    BY <1>1 DEF Commands
  <1>3. W \in Seq(Commands) /\ EndsIn(W, "write")
    BY DEF Commands, EndsIn
  <1>4. Free(W, Repairs) /\ Free(W, Moves) /\ Free(W, Spoils(o))
    BY DEF Free, Repairs, Moves, Spoils
  <1> HIDE DEF P, W
  <1>5. ASSUME NEW D, NEW f, Repaired(T, D, f), Free(W, D)
        PROVE  Repaired(P \o T \o W, D, f)
    <2>1. Repaired(P \o T, D, f)
      BY <1>2, <1>5, Prefixed
    <2> QED BY <1>2, <1>3, <1>5, <2>1, FreeFollows, ConcatFollows, ConcatHas DEF Repaired
  <1>6. P \o T \o W \in Seq(Commands) /\ EndsIn(P \o T \o W, "write")
    BY <1>1, <1>3, ConcatEnds
  <1>7. /\ Repaired(T, Repairs, "connect")
        /\ Repaired(T, Moves, "legalize")
        /\ Repaired(T, Spoils(o), Fresh(o))
    BY OrdFacts
  <1> QED BY <1>4, <1>5, <1>6, <1>7 DEF P, W

LEMMA FlowFacts ==
  ASSUME NEW o \in Options, MaxSyncs \in Nat
  PROVE  /\ Flow(o) \in Seq(Commands)
         /\ EndsIn(Flow(o), "write")
         /\ Follows(Flow(o), Repairs, "connect")
         /\ Mode(o) # "preplace" => Repaired(Flow(o), Moves, "legalize")
         /\ Mode(o) \in {"hold", "size"} => Repaired(Flow(o), Spoils(o), Fresh(o))
  <1> DEFINE A == LoadDesign(o)
  <1>1. A \in Seq(Work) /\ A \in Seq(Commands)
    BY PartsWork DEF Commands
  <1>2. Free(A, Repairs)
    <2>1. A \in Seq(Work)
      BY <1>1
    <2>2. /\ Free(<<"assertChain", "markPads">>, Repairs)
          /\ Free(When(o.spef, <<"readSpef">>), Repairs)
          /\ Free(When(~o.preplace, <<"estimate">>), Repairs)
          /\ Free(When(UseGr(o) /\ ~o.spef /\ ~o.preplace, <<"legalize", "routeRc">>), Repairs)
      BY DEF Free, When, Repairs
    <2>3. /\ <<"assertChain", "markPads">> \in Seq(Commands)
          /\ When(o.spef, <<"readSpef">>) \in Seq(Commands)
          /\ When(~o.preplace, <<"estimate">>) \in Seq(Commands)
          /\ When(UseGr(o) /\ ~o.spef /\ ~o.preplace, <<"legalize", "routeRc">>) \in Seq(Commands)
      <3>1. /\ << >> \in Seq(Commands)
            /\ <<"assertChain", "markPads">> \in Seq(Commands)
            /\ <<"readSpef">> \in Seq(Commands) /\ <<"estimate">> \in Seq(Commands)
            /\ <<"legalize", "routeRc">> \in Seq(Commands)
        BY DEF Commands, Work
      <3> QED BY <3>1 DEF When
    <2> QED BY <2>2, <2>3, ConcatFree, ConcatProperties DEF LoadDesign
  <1> HIDE DEF A
  <1>3. ASSUME NEW t \in Seq(Commands), EndsIn(t, "write"), Flow(o) = A \o t
        PROVE  /\ Flow(o) \in Seq(Commands)
               /\ EndsIn(Flow(o), "write")
               /\ Follows(t, Repairs, "connect") => Follows(Flow(o), Repairs, "connect")
               /\ \A D, f : Repaired(t, D, f) => Repaired(Flow(o), D, f)
    <2>1. Flow(o) \in Seq(Commands) /\ EndsIn(Flow(o), "write")
      BY <1>1, <1>3, ConcatEnds
    <2>2. Follows(A, Repairs, "connect")
      BY <1>2, FreeFollows
    <2>3. Follows(t, Repairs, "connect") => Follows(Flow(o), Repairs, "connect")
      BY <1>1, <1>3, <2>2, ConcatFollows
    <2>4. \A D, f : Repaired(t, D, f) => Repaired(Flow(o), D, f)
      BY <1>1, <1>3, Prefixed
    <2> QED BY <2>1, <2>3, <2>4
  <1>4. CASE Mode(o) = "preplace"
    <2>1. RunPreplace \in Seq(Commands)
      BY DEF RunPreplace, Commands, Work
    <2>2. EndsIn(RunPreplace, "write") /\ Follows(RunPreplace, Repairs, "connect")
      BY DEF RunPreplace, EndsIn, Follows, Repairs
    <2>3. Flow(o) = A \o RunPreplace
      BY <1>4 DEF Flow, A
    <2> QED BY <1>3, <1>4, <2>1, <2>2, <2>3
  <1>5. CASE Mode(o) = "hold"
    <2>1. Flow(o) = A \o RunHoldOnly(o)
      BY <1>5 DEF Flow, A
    <2> QED BY <1>3, <1>5, <2>1, HoldFacts DEF Repaired
  <1>6. CASE Mode(o) = "legalize"
    <2>1. RunLegalizeOnly \in Seq(Commands)
      BY DEF RunLegalizeOnly, Commands, Work
    <2>2. /\ EndsIn(RunLegalizeOnly, "write") /\ Follows(RunLegalizeOnly, Repairs, "connect")
          /\ Repaired(RunLegalizeOnly, Moves, "legalize")
      BY DEF RunLegalizeOnly, EndsIn, Follows, Has, Repaired, Repairs, Moves
    <2>3. Flow(o) = A \o RunLegalizeOnly
      BY <1>6 DEF Flow, A
    <2> QED BY <1>3, <1>6, <2>1, <2>2, <2>3
  <1>7. CASE Mode(o) = "size"
    <2>1. Flow(o) = A \o (Launcher(o) \o FinalReport(o) \o RunOrdTO(o) \o <<"write">>)
      BY <1>7 DEF Flow, A
    <2> QED BY <1>3, <1>7, <2>1, SizeFacts DEF Repaired
  <1> QED BY <1>4, <1>5, <1>6, <1>7 DEF Mode

-----------------------------------------------------------------------------
(* The invariant: what is spoiled has its repair ahead.                    *)

Ahead(f) == \E j \in step .. Len(Flow(opts)) : Flow(opts)[j] = f

Position ==
  /\ outcome = "running" => step \in 1 .. Len(Flow(opts))
  /\ outcome = "written" => step = Len(Flow(opts)) + 1

Pending ==
  outcome # "aborted" =>
    /\ powered # buffers => Ahead("connect")
    /\ Mode(opts) # "preplace" /\ LegalizerSound /\ ~legal => Ahead("legalize")
    /\ Mode(opts) \in {"hold", "size"} /\ rc # Rc(Selected, TRUE) => Ahead(Fresh(opts))

IInv == TypeOK /\ Position /\ Pending

LEMMA FlowOf ==
  ASSUME TypeOK
  PROVE  /\ opts \in Options
         /\ Flow(opts) \in Seq(Commands) /\ Len(Flow(opts)) \in Nat
         /\ EndsIn(Flow(opts), "write")
         /\ Follows(Flow(opts), Repairs, "connect")
         /\ Mode(opts) # "preplace" => Repaired(Flow(opts), Moves, "legalize")
         /\ Mode(opts) \in {"hold", "size"} =>
              Repaired(Flow(opts), Spoils(opts), Fresh(opts))
  <1>1. opts \in Options /\ MaxSyncs \in Nat
    BY FlowAssumption DEF TypeOK
  <1> QED BY <1>1, FlowFacts, LenProperties

(* The program starts in its types, with every repair ahead.               *)
LEMMA InitIInv == Init => IInv
  <1> SUFFICES ASSUME Init PROVE IInv
    OBVIOUS
  <1>1. opts \in Options /\ MaxSyncs \in Nat
    BY FlowAssumption DEF Init
  <1>2. /\ Flow(opts) \in Seq(Commands) /\ Len(Flow(opts)) \in Nat
        /\ Len(Flow(opts)) > 0
        /\ Mode(opts) # "preplace" => Has(Flow(opts), "legalize")
        /\ Mode(opts) \in {"hold", "size"} => Has(Flow(opts), Fresh(opts))
    BY <1>1, FlowFacts, LenProperties DEF EndsIn, Repaired
  <1>3. TypeOK
    <2>1. \A n \in Nets : powered[n] <= buffers[n]
      BY FlowAssumption DEF Init
    <2>2. step \in 1 .. Len(Flow(opts)) + 1
      BY <1>2 DEF Init
    <2> QED BY <2>1, <2>2 DEF Init, TypeOK, Rc, Sources
  <1>4. Position
    BY <1>2 DEF Init, Position
  <1>5. Pending
    BY <1>2 DEF Init, Pending, Ahead, Has
  <1> QED BY <1>3, <1>4, <1>5 DEF IInv

(* One step of the flow: a repair that is ahead stays ahead unless it is   *)
(* the step itself, and what the step spoils is repaired later.            *)
LEMMA Advance ==
  ASSUME TypeOK, Position, outcome = "running",
         NEW D, NEW f, Follows(Flow(opts), D, f),
         \/ Ahead(f) /\ Flow(opts)[step] # f
         \/ Flow(opts)[step] \in D,
         step' = step + 1, opts' = opts
  PROVE  Ahead(f)'
  <1>1. step \in 1 .. Len(Flow(opts)) /\ Len(Flow(opts)) \in Nat
    BY FlowOf DEF Position
  <1>2. CASE Ahead(f) /\ Flow(opts)[step] # f
    <2>1. PICK j \in step .. Len(Flow(opts)) : Flow(opts)[j] = f
      BY <1>2 DEF Ahead
    <2>2. j \in step + 1 .. Len(Flow(opts))
      BY <1>1, <1>2, <2>1
    <2> QED BY <2>1, <2>2 DEF Ahead
  <1>3. CASE Flow(opts)[step] \in D
    BY <1>1, <1>3 DEF Follows, Ahead
  <1> QED BY <1>2, <1>3

LEMMA TypeStep == TypeOK /\ Position /\ [Next]_vars => TypeOK' /\ Position'
  <1> SUFFICES ASSUME TypeOK, Position, [Next]_vars PROVE TypeOK' /\ Position'
    OBVIOUS
  <1> DEFINE n == Len(Flow(opts))
  <1>1. /\ n \in Nat
        /\ \A i \in 1 .. n : Flow(opts)[i] = "write" <=> i = n
    BY FlowOf DEF EndsIn
  <1>2. ASSUME outcome = "running", step' = step + 1, opts' = opts,
               \/ outcome' \in {"running", "aborted"} /\ Flow(opts)[step] # "write"
               \/ outcome' = "written" /\ Flow(opts)[step] = "write"
        PROVE  step' \in 1 .. n + 1 /\ Position'
    BY <1>1, <1>2 DEF Position
  <1> HIDE DEF n
  <1>3. CASE AssertChain
    BY <1>2, <1>3 DEF AssertChain, Runs, TypeOK, n
  <1>4. CASE MarkPads
    BY <1>2, <1>4, FlowAssumption DEF MarkPads, Runs, Then, TypeOK, n
  <1>5. CASE ReadSpef
    BY <1>2, <1>5 DEF ReadSpef, Runs, Then, TypeOK, Rc, Sources, n
  <1>6. CASE Estimate
    BY <1>2, <1>6 DEF Estimate, Runs, Then, TypeOK, Rc, Sources, n
  <1>7. CASE RouteRc
    BY <1>2, <1>7 DEF RouteRc, Runs, Then, TypeOK, Rc, Sources, n
  <1>8. CASE Seed
    BY <1>2, <1>8 DEF Seed, Runs, Then, TypeOK, Rc, Sources, n
  <1>9. CASE StartIncremental
    BY <1>2, <1>9 DEF StartIncremental, Runs, Then, TypeOK, n
  <1>10. CASE UpdateRc
    BY <1>2, <1>10 DEF UpdateRc, Runs, Then, TypeOK, n
  <1>11. CASE EndIncremental
    BY <1>2, <1>11 DEF EndIncremental, Runs, Then, TypeOK, n
  <1>12. CASE Swap
    BY <1>2, <1>12 DEF Swap, Runs, Then, TypeOK, n
  <1>13. CASE Connect
    <2>1. \A m \in Nets : buffers[m] <= buffers[m]
      BY FlowAssumption DEF TypeOK
    <2> QED BY <1>2, <1>13, <2>1 DEF Connect, Runs, Then, TypeOK, n
  <1>14. CASE Legalize
    BY <1>2, <1>14 DEF Legalize, Delivers, Runs, Then, TypeOK, n
  <1>15. CASE Write
    BY <1>2, <1>15 DEF Write, Runs, TypeOK, n
  <1>16. ASSUME NEW B \in SUBSET Nets, Repair(B)
         PROVE  TypeOK' /\ Position'
    <2>1. /\ buffers' \in [Nets -> 0 .. MaxChain]
          /\ \A m \in Nets : powered[m] <= buffers'[m]
      BY <1>16, FlowAssumption DEF Repair, TypeOK
    <2>2. Flow(opts)[step] # "write"
      BY <1>16 DEF Repair, Repairs
    <2> QED BY <1>2, <1>16, <2>1, <2>2 DEF Repair, Then, TypeOK, n
  <1>17. CASE LegalizeAborts
    BY <1>2, <1>17 DEF LegalizeAborts, Runs, TypeOK, n
  <1>18. CASE UNCHANGED vars
    BY <1>18 DEF vars, TypeOK, Position
  <1> QED BY <1>3, <1>4, <1>5, <1>6, <1>7, <1>8, <1>9, <1>10, <1>11, <1>12, <1>13, <1>14,
            <1>15, <1>16, <1>17, <1>18 DEF Next

(* Each command that spoils the connections, the placement or the RC has   *)
(* their repair ahead, and each other leaves them alone or repairs them.   *)
LEMMA PendingStep == TypeOK /\ Position /\ Pending /\ [Next]_vars => Pending'
  <1> SUFFICES ASSUME TypeOK, Position, Pending, [Next]_vars, outcome' # "aborted"
               PROVE  Pending'
    BY DEF Pending
  <1>1. CASE UNCHANGED vars
    BY <1>1 DEF vars, Pending, Ahead, Selected, LegalizerSound
  <1>2. CASE Next
    <2> DEFINE c == Flow(opts)[step]
               o == opts
    <2>1. /\ outcome = "running" /\ step' = step + 1 /\ opts' = opts /\ onSites' = onSites
          /\ outcome # "aborted"
      BY <1>2 DEF Next, AssertChain, MarkPads, ReadSpef, Estimate, RouteRc, Seed,
                  StartIncremental, UpdateRc, EndIncremental, Swap, Connect, Legalize, LegalizeAborts, Write,
                  Repair, Runs, Then
    <2>2. /\ powered' = buffers' \/ (Ahead("connect") /\ c # "connect")
               \/ c \in Repairs
          /\ legal' \/ Mode(o) = "preplace" \/ ~LegalizerSound
               \/ (Ahead("legalize") /\ c # "legalize") \/ c \in Moves
          /\ rc' = Rc(Selected, TRUE) \/ Mode(o) \notin {"hold", "size"}
               \/ (Ahead(Fresh(o)) /\ c # Fresh(o)) \/ c \in Spoils(o)
      <3>1. /\ powered = buffers \/ Ahead("connect")
            /\ legal \/ Mode(o) = "preplace" \/ ~LegalizerSound \/ Ahead("legalize")
            /\ rc = Rc(Selected, TRUE) \/ Mode(o) \notin {"hold", "size"} \/ Ahead(Fresh(o))
        BY <2>1 DEF Pending
      <3>2. Selected = IF Fresh(o) = "routeRc" THEN "routed" ELSE "placement"
        BY DEF Selected, Fresh
      <3>3. Fresh(o) \in {"routeRc", "estimate"}
        BY DEF Fresh
      <3> HIDE DEF o, c
      <3> USE DEF Runs, Then, Moves, Spoils, Repairs
      <3>4. CASE AssertChain
        BY <3>1, <3>3, <3>4 DEF AssertChain, c
      <3>5. CASE MarkPads
        BY <3>1, <3>3, <3>5 DEF MarkPads, c
      <3>6. CASE ReadSpef
        BY <3>1, <3>3, <3>6 DEF ReadSpef, c
      <3>7. CASE Estimate
        BY <3>1, <3>2, <3>3, <3>7 DEF Estimate, c, Rc
      <3>8. CASE RouteRc
        BY <3>1, <3>2, <3>3, <3>8 DEF RouteRc, c, Rc
      <3>9. CASE Seed
        BY <3>1, <3>3, <3>9 DEF Seed, c
      <3>10. CASE StartIncremental
        BY <3>1, <3>3, <3>10 DEF StartIncremental, c
      <3>11. CASE UpdateRc
        BY <3>1, <3>3, <3>11 DEF UpdateRc, c
      <3>12. CASE EndIncremental
        BY <3>1, <3>3, <3>12 DEF EndIncremental, c
      <3>13. CASE Swap
        BY <3>1, <3>3, <3>13 DEF Swap, c
      <3>14. CASE Connect
        BY <3>1, <3>3, <3>14 DEF Connect, c
      <3>15. CASE Legalize
        BY <3>1, <3>3, <3>15 DEF Legalize, Delivers, LegalizerSound, c
      <3>16. CASE Write
        BY <3>1, <3>3, <3>16 DEF Write, c
      <3>17. ASSUME NEW B \in SUBSET Nets, Repair(B)
             PROVE  <2>2!1 /\ <2>2!2 /\ <2>2!3
        BY <3>1, <3>3, <3>17 DEF Repair, c
      <3>18. ~LegalizeAborts
        BY DEF LegalizeAborts
      <3> QED BY <1>2, <3>4, <3>5, <3>6, <3>7, <3>8, <3>9, <3>10, <3>11, <3>12, <3>13, <3>14,
                <3>15, <3>16, <3>17, <3>18 DEF Next
    <2>3. powered' # buffers' => Ahead("connect")'
      BY <2>1, <2>2, FlowOf, Advance
    <2>4. Mode(o) # "preplace" /\ LegalizerSound /\ ~legal' => Ahead("legalize")'
      BY <2>1, <2>2, FlowOf, Advance DEF Repaired
    <2>5. Mode(o) \in {"hold", "size"} /\ rc' # Rc(Selected, TRUE) => Ahead(Fresh(o))'
      BY <2>1, <2>2, FlowOf, Advance DEF Repaired
    <2> QED BY <2>1, <2>3, <2>4, <2>5 DEF Pending, Selected, LegalizerSound
  <1> QED BY <1>1, <1>2

(* Every variable keeps its type, whatever the options: no call of main()  *)
(* connects an instance that the design does not have.                     *)
THEOREM TypeCorrect == Spec => []TypeOK
  <1>1. IInv /\ [Next]_vars => IInv'
    BY TypeStep, PendingStep DEF IInv
  <1>2. IInv => TypeOK
    BY DEF IInv
  <1> QED BY InitIInv, <1>1, <1>2, PTL DEF Spec

LEMMA Invariance == Spec => []IInv
  <1>1. IInv /\ [Next]_vars => IInv'
    BY TypeStep, PendingStep DEF IInv
  <1> QED BY InitIInv, <1>1, PTL DEF Spec

\* After the export nothing is ahead.
LEMMA NothingAhead ==
  ASSUME IInv, outcome = "written", NEW f
  PROVE  ~Ahead(f)
  <1>1. step = Len(Flow(opts)) + 1 /\ Len(Flow(opts)) \in Nat
    BY FlowOf DEF IInv, Position
  <1> QED BY <1>1 DEF Ahead

(* In all modes every buffer that a repair inserted is on the special nets *)
(* when the DEF is written: each mode's own connect call comes after its   *)
(* last repair (sizer.cpp runPreplace, runHoldOnlyPass, runOrdTO).         *)
THEOREM AllConnected == Spec => []ExportPowered
  <1>1. IInv => ExportPowered
    BY NothingAhead DEF IInv, Pending, ExportPowered
  <1> QED BY Invariance, <1>1, PTL

(* Hold-only, legalize-only and sizing mode export a legal placement where *)
(* the legalizer in use delivers one (detailed_placement always, the       *)
(* native one over obstacles on sites, see LegalizeProofs!LegalPlacement): *)
(* a legalization follows the last repair and the last swap.               *)
THEOREM LegalInTheEnd == Spec => []ExportLegal
  <1>1. IInv => ExportLegal
    BY NothingAhead DEF IInv, Pending, ExportLegal, Written
  <1> QED BY Invariance, <1>1, PTL

(* The RC behind the last report is of the selected kind and describes the *)
(* exported design: nothing after the last refresh moves or swaps a cell.  *)
THEOREM ReportIsCurrent == Spec => []ReportFitsExport
  <1>1. IInv => ReportFitsExport
    BY NothingAhead DEF IInv, Pending, ReportFitsExport, Written
  <1> QED BY Invariance, <1>1, PTL

-----------------------------------------------------------------------------
(* The boundary check brackets the flow: at its start PAD nets are marked  *)
(* before any repair, in sizing mode it is run again right before export.  *)

Starts(s) == Len(s) >= 2 /\ s[1] = "assertChain" /\ s[2] = "markPads"

\* The k-th command from the end.
FromEnd(s, k, f) == Len(s) > k /\ s[Len(s) - k] = f

LEMMA ConcatStarts ==
  ASSUME NEW s \in Seq(Commands), NEW t \in Seq(Commands), Starts(s)
  PROVE  Starts(s \o t)
  BY ConcatProperties, LenProperties DEF Starts

LEMMA ConcatFromEnd ==
  ASSUME NEW s \in Seq(Commands), NEW t \in Seq(Commands), NEW k \in Nat, NEW f,
         FromEnd(t, k, f)
  PROVE  FromEnd(s \o t, k, f)
  <1>1. /\ Len(s) \in Nat /\ Len(t) \in Nat /\ Len(s \o t) = Len(s) + Len(t)
        /\ \A i \in 1 .. Len(s) + Len(t) :
             (s \o t)[i] = IF i <= Len(s) THEN s[i] ELSE t[i - Len(s)]
    BY ConcatProperties, LenProperties
  <1> DEFINE i == Len(s) + Len(t) - k
  <1>2. i \in 1 .. Len(s) + Len(t) /\ ~(i <= Len(s)) /\ i - Len(s) = Len(t) - k
    BY <1>1 DEF FromEnd
  <1> QED BY <1>1, <1>2 DEF FromEnd

LEMMA FlowStarts ==
  ASSUME NEW o \in Options, MaxSyncs \in Nat
  PROVE  Starts(Flow(o))
  <1> DEFINE A == <<"assertChain", "markPads">>
             B == When(o.spef, <<"readSpef">>)
             C == When(~o.preplace, <<"estimate">>)
             D == When(UseGr(o) /\ ~o.spef /\ ~o.preplace, <<"legalize", "routeRc">>)
  <1>1. A \in Seq(Commands) /\ B \in Seq(Commands) /\ C \in Seq(Commands) /\ D \in Seq(Commands)
    <2>1. /\ << >> \in Seq(Commands)
          /\ <<"assertChain", "markPads">> \in Seq(Commands)
          /\ <<"readSpef">> \in Seq(Commands) /\ <<"estimate">> \in Seq(Commands)
          /\ <<"legalize", "routeRc">> \in Seq(Commands)
      BY DEF Commands, Work
    <2> QED BY <2>1 DEF When
  <1>2. LoadDesign(o) = ((A \o B) \o C) \o D
    BY DEF LoadDesign
  <1>3. Starts(A)
    BY DEF Starts
  <1> HIDE DEF A, B, C, D
  <1>4. Starts(LoadDesign(o)) /\ LoadDesign(o) \in Seq(Commands)
    <2>1. A \o B \in Seq(Commands) /\ (A \o B) \o C \in Seq(Commands)
          /\ ((A \o B) \o C) \o D \in Seq(Commands)
      BY <1>1, ConcatProperties
    <2>2. Starts(A \o B)
      BY <1>1, <1>3, ConcatStarts
    <2>3. Starts((A \o B) \o C)
      BY <1>1, <2>1, <2>2, ConcatStarts
    <2> QED BY <1>1, <1>2, <2>1, <2>3, ConcatStarts
  <1>5. /\ RunPreplace \in Seq(Commands) /\ RunLegalizeOnly \in Seq(Commands)
        /\ RunHoldOnly(o) \in Seq(Commands)
        /\ Launcher(o) \o FinalReport(o) \o RunOrdTO(o) \o <<"write">> \in Seq(Commands)
    <2>1. RunPreplace \in Seq(Commands) /\ RunLegalizeOnly \in Seq(Commands)
      BY DEF RunPreplace, RunLegalizeOnly, Commands, Work
    <2> QED BY <2>1, HoldFacts, SizeFacts
  <1>6. \A t \in Seq(Commands) : Starts(LoadDesign(o) \o t)
    BY <1>4, ConcatStarts
  <1>7. Mode(o) \in {"preplace", "hold", "legalize", "size"}
    BY DEF Mode
  <1> QED BY <1>5, <1>6, <1>7 DEF Flow

LEMMA SizeFlowEnds ==
  ASSUME NEW o \in Options, MaxSyncs \in Nat, Mode(o) = "size"
  PROVE  FromEnd(Flow(o), 1, "assertChain")
  <1> DEFINE P == Launcher(o) \o FinalReport(o)
             L == <<"assertChain", "repairDesign", "repairHold", "repairSetup", "connect",
                    "legalize">> \o Refresh(o)
             A == <<"assertChain">>
             W == <<"write">>
  <1>1. P \in Seq(Commands) /\ L \in Seq(Commands) /\ A \in Seq(Commands)
        /\ W \in Seq(Commands) /\ LoadDesign(o) \in Seq(Commands)
    <2>1. P \in Seq(Work) /\ LoadDesign(o) \in Seq(Work)
      BY LauncherWork, PartsWork, ConcatProperties
    <2>2. <<"assertChain", "repairDesign", "repairHold", "repairSetup", "connect",
            "legalize">> \in Seq(Work)
      BY DEF Work
    <2>3. L \in Seq(Work)
      BY <2>2, RefreshFacts, ConcatProperties
    <2>4. A \in Seq(Commands) /\ W \in Seq(Commands)
      BY DEF Commands, Work
    <2>5. \A s \in Seq(Work) : s \in Seq(Commands)
      BY DEF Commands
    <2> QED BY <2>1, <2>3, <2>4, <2>5
  <1>2. Flow(o) = LoadDesign(o) \o ((P \o (L \o A)) \o W)
    BY DEF Flow, RunOrdTO
  <1>3. FromEnd(A, 0, "assertChain") /\ Len(W) = 1
    BY DEF FromEnd
  <1> HIDE DEF P, L, A, W
  <1>4. /\ P \o (L \o A) \in Seq(Commands)
        /\ FromEnd(P \o (L \o A), 0, "assertChain")
    BY <1>1, <1>3, ConcatProperties, ConcatFromEnd
  <1> DEFINE Q == P \o (L \o A)
  <1> HIDE DEF Q
  <1>5. FromEnd(Q \o W, 1, "assertChain") /\ Q \o W \in Seq(Commands)
    <2>1. Q \in Seq(Commands) /\ Len(Q) \in Nat /\ Len(Q) > 0 /\ Q[Len(Q)] = "assertChain"
      BY <1>4, LenProperties DEF Q, FromEnd
    <2>2. Q \o W \in Seq(Commands) /\ Len(Q \o W) = Len(Q) + Len(W)
      BY <1>1, <2>1, ConcatProperties
    <2>3. \A i \in 1 .. Len(Q) + Len(W) :
            (Q \o W)[i] = IF i <= Len(Q) THEN Q[i] ELSE W[i - Len(Q)]
      BY <1>1, <2>1, ConcatProperties
    <2>4. (Q \o W)[Len(Q)] = Q[Len(Q)]
      BY <1>3, <2>1, <2>3
    <2>5. Len(Q \o W) > 1 /\ Len(Q \o W) - 1 = Len(Q)
      BY <1>3, <2>1, <2>2
    <2>6. (Q \o W)[Len(Q \o W) - 1] = "assertChain"
      BY <2>1, <2>4, <2>5
    <2> QED BY <2>2, <2>5, <2>6 DEF FromEnd
  <1>6. Flow(o) = LoadDesign(o) \o (Q \o W)
    BY <1>2 DEF Q
  <1> HIDE DEF Q
  <1> QED BY <1>1, <1>5, <1>6, ConcatFromEnd

Guarded ==
  /\ \A n \in PadOnly : buffers[n] = 0
  /\ step > 2 => dontTouch = PadOnly
  /\ Mode(opts) = "size" /\ outcome # "aborted" /\ step >= Len(Flow(opts)) => ~Chained

LEMMA GuardedStep == TypeOK /\ Position /\ Guarded /\ [Next]_vars => Guarded'
  <1> SUFFICES ASSUME TypeOK, Position, Guarded, [Next]_vars PROVE Guarded'
    OBVIOUS
  <1> DEFINE n == Len(Flow(opts))
             c == Flow(opts)[step]
  <1>1. /\ opts \in Options /\ MaxSyncs \in Nat /\ n \in Nat /\ step \in Nat
        /\ EndsIn(Flow(opts), "write") /\ Starts(Flow(opts))
        /\ Mode(opts) = "size" => FromEnd(Flow(opts), 1, "assertChain")
    BY FlowOf, FlowAssumption, FlowStarts, SizeFlowEnds DEF TypeOK
  <1>2. CASE UNCHANGED vars
    BY <1>2 DEF vars, Guarded, Chained
  <1>3. CASE Next
    <2>1. /\ outcome = "running" /\ step' = step + 1 /\ opts' = opts
          /\ c # "markPads" => dontTouch' = dontTouch
          /\ c = "markPads" => dontTouch' \in {PadOnly, dontTouch}
          /\ c \in Repairs \/ buffers' = buffers
      BY <1>3 DEF Next, AssertChain, MarkPads, ReadSpef, Estimate, RouteRc, Seed,
                  StartIncremental, UpdateRc, EndIncremental, Swap, Connect, Legalize, LegalizeAborts, Write,
                  Repair, Runs, Then
    <2>2. /\ step \in 1 .. n
          /\ step = 1 => c = "assertChain"
          /\ step = 2 => c = "markPads"
          /\ step = n => c = "write"
          /\ Mode(opts) = "size" /\ step = n - 1 => c = "assertChain"
      BY <1>1, <2>1 DEF Position, EndsIn, Starts, FromEnd
    <2>3. c = "markPads" => dontTouch' = PadOnly
      BY <1>3 DEF Next, AssertChain, MarkPads, ReadSpef, Estimate, RouteRc, Seed,
                  StartIncremental, UpdateRc, EndIncremental, Swap, Connect, Legalize, LegalizeAborts, Write,
                  Repair, Repairs, Runs, Then
    <2>4. step' > 2 => dontTouch' = PadOnly
      BY <1>1, <2>1, <2>2, <2>3 DEF Guarded
    <2>5. \A m \in PadOnly : buffers'[m] = 0
      <3>1. CASE c \in Repairs
        <4>1. PICK B \in SUBSET Nets : Repair(B)
          BY <1>3, <3>1 DEF Next, AssertChain, MarkPads, ReadSpef, Estimate, RouteRc, Seed,
                  StartIncremental, UpdateRc, EndIncremental, Swap, Connect, Legalize, LegalizeAborts, Write,
                  Repairs, Runs
        <4>2. step > 2
          BY <1>1, <2>2, <3>1 DEF Repairs
        <4>3. dontTouch = PadOnly
          BY <4>2 DEF Guarded
        <4> QED BY <4>1, <4>3, FlowAssumption DEF Repair, Guarded
      <3> QED BY <2>1, <3>1 DEF Guarded
    <2>6. Mode(opts) = "size" /\ outcome' # "aborted" /\ step' >= n => ~Chained'
      <3> SUFFICES ASSUME Mode(opts) = "size", outcome' # "aborted", step' >= n
                   PROVE  ~Chained'
        OBVIOUS
      <3>1. CASE step = n
        <4>1. buffers' = buffers /\ ~Chained
          BY <1>1, <2>1, <2>2, <3>1 DEF Guarded, Repairs
        <4> QED BY <4>1 DEF Chained
      <3>2. CASE step = n - 1
        <4>1. AssertChain
          BY <1>3, <2>2, <3>2 DEF Next, MarkPads, ReadSpef, Estimate, RouteRc, Seed,
                  StartIncremental, UpdateRc, EndIncremental, Swap, Connect, Legalize, LegalizeAborts, Write,
                  Repair, Repairs, Runs
        <4> QED BY <4>1 DEF AssertChain, Chained
      <3> QED BY <1>1, <2>1, <2>2, <3>1, <3>2
    <2> QED BY <2>1, <2>4, <2>5, <2>6 DEF Guarded
  <1> QED BY <1>2, <1>3

(* A net of a port and PADs only is never exported with a boundary buffer: *)
(* it is marked do-not-touch before the first repair of any mode; and in   *)
(* sizing mode no net is exported with exactly one, because the scan runs  *)
(* once more between the last repair and the export.                       *)
THEOREM NoChainExported == Spec => []ExportChainFree
  <1>1. Init => Guarded
    <2> SUFFICES ASSUME Init PROVE Guarded
      OBVIOUS
    <2>1. Len(Flow(opts)) \in Nat /\ Len(Flow(opts)) >= 2
      <3>1. opts \in Options /\ MaxSyncs \in Nat
        BY FlowAssumption DEF Init
      <3> QED BY <3>1, FlowFacts, FlowStarts, LenProperties DEF Starts
    <2> QED BY <2>1 DEF Init, Guarded
  <1>2. IInv /\ Guarded /\ [Next]_vars => Guarded'
    BY GuardedStep DEF IInv
  <1>3. IInv /\ Guarded => ExportChainFree
    <2> SUFFICES ASSUME IInv, Guarded, outcome = "written"
                 PROVE  /\ \A m \in PadOnly : buffers[m] = 0
                        /\ Mode(opts) = "size" => \A m \in PadMixed : buffers[m] # 1
      BY DEF ExportChainFree
    <2>1. step >= Len(Flow(opts))
      BY FlowOf DEF IInv, Position
    <2> QED BY <2>1 DEF Guarded, Chained
  <1> QED BY Invariance, <1>1, <1>2, <1>3, PTL DEF Spec

-----------------------------------------------------------------------------
(* What holds of the RC before and after each command: a proof outline of  *)
(* the flow.  A mark is an assertion about rc and incr; Leads says which   *)
(* mark a command leads to from which.                                     *)

Marks == {"old", "seedable", "selected", "on", "updated"}
Off   == {"old", "seedable", "selected"}

Meets(mark) ==
  /\ mark \in Off => incr = "off"
  /\ mark = "seedable" => (rc.src = "routed" => rc.fresh)
  /\ mark = "selected" => rc = Rc(Selected, TRUE)
  /\ mark = "on" => incr = "seeded" /\ rc.src = "routed"
  /\ mark = "updated" => incr = "seeded" /\ rc = Rc("routed", TRUE)

\* The flows whose first repair does not see the selected RC.
Exempt(o) == Mode(o) = "preplace" \/ (Mode(o) = "hold" /\ o.spef /\ UseGr(o))

Leads(o, a, c, b) ==
  \/ c \in {"assertChain", "markPads", "connect", "write"} /\ b = a
  \/ c \in Repairs /\ b = a /\ (a = "selected" \/ Exempt(o))
  \/ c = "readSpef" /\ a \in Off /\ b = "seedable"
  \/ c = "estimate" /\ a \in Off /\ b = IF UseGr(o) THEN "seedable" ELSE "selected"
  \/ c = "routeRc" /\ a \in Off /\ UseGr(o) /\ b = "selected"
  \/ c = "seed" /\ a \in {"seedable", "selected"} /\ UseGr(o) /\ b = "selected"
  \/ c = "startIncremental" /\ a = "selected" /\ UseGr(o) /\ b = "on"
  \/ c \in {"swap", "legalize"} /\ a = "on" /\ b = "on"
  \/ c \in {"swap", "legalize"} /\ a \in Off /\ b = "old"
  \/ c = "updateRc" /\ a = "on" /\ b = "updated"
  \/ c = "endIncremental" /\ a = "updated" /\ UseGr(o) /\ b = "selected"

Outlines(o, s) ==
  {h \in [0 .. Len(s) -> Marks] : \A i \in 1 .. Len(s) : Leads(o, h[i - 1], s[i], h[i])}

\* Started at a the commands of s end at b.
Outlined(o, s, a, b) == \E h \in Outlines(o, s) : h[0] = a /\ h[Len(s)] = b

LEMMA EmptyOutlined ==
  ASSUME NEW o, NEW a \in Marks
  PROVE  Outlined(o, << >>, a, a)
  <1> DEFINE h == [i \in 0 .. 0 |-> a]
  <1>1. h \in Outlines(o, << >>) /\ h[0] = a
    BY DEF Outlines
  <1> QED BY <1>1 DEF Outlined

LEMMA OneOutlined ==
  ASSUME NEW o, NEW a \in Marks, NEW b \in Marks, NEW c, Leads(o, a, c, b)
  PROVE  Outlined(o, <<c>>, a, b)
  <1> DEFINE h == [i \in 0 .. 1 |-> IF i = 0 THEN a ELSE b]
  <1>1. /\ h \in [0 .. 1 -> Marks] /\ h[0] = a /\ h[1] = b
        /\ Len(<<c>>) = 1 /\ <<c>>[1] = c
    OBVIOUS
  <1> HIDE DEF h
  <1>2. \A i \in 1 .. 1 : Leads(o, h[i - 1], <<c>>[i], h[i])
    BY <1>1
  <1> QED BY <1>1, <1>2 DEF Outlined, Outlines

(* The outlines of two sequences make one of both.                         *)
LEMMA ConcatOutlined ==
  ASSUME NEW o, NEW s \in Seq(Commands), NEW t \in Seq(Commands),
         NEW a, NEW b, NEW c, Outlined(o, s, a, b), Outlined(o, t, b, c)
  PROVE  Outlined(o, s \o t, a, c)
  <1> DEFINE m == Len(s)
             n == Len(t)
  <1>1. /\ m \in Nat /\ n \in Nat /\ Len(s \o t) = m + n
        /\ \A i \in 1 .. m + n : (s \o t)[i] = IF i <= m THEN s[i] ELSE t[i - m]
    BY ConcatProperties, LenProperties
  <1>2. PICK g \in [0 .. m -> Marks] :
          /\ \A i \in 1 .. m : Leads(o, g[i - 1], s[i], g[i])
          /\ g[0] = a /\ g[m] = b
    BY DEF Outlined, Outlines
  <1>3. PICK k \in [0 .. n -> Marks] :
          /\ \A i \in 1 .. n : Leads(o, k[i - 1], t[i], k[i])
          /\ k[0] = b /\ k[n] = c
    BY DEF Outlined, Outlines
  <1> HIDE DEF m, n
  <1> DEFINE h == [i \in 0 .. m + n |-> IF i <= m THEN g[i] ELSE k[i - m]]
  <1>4. /\ h \in [0 .. m + n -> Marks]
        /\ \A j \in 0 .. m + n : h[j] = IF j <= m THEN g[j] ELSE k[j - m]
    BY <1>1, <1>2, <1>3
  <1> HIDE DEF h
  <1>5. h[0] = a /\ h[m + n] = c
    <2>1. h[0] = a
      BY <1>1, <1>2, <1>4
    <2>2. CASE n = 0
      BY <1>1, <1>2, <1>3, <1>4, <2>2
    <2>3. CASE n # 0
      <3>1. ~(m + n <= m) /\ (m + n) - m = n /\ m + n \in 0 .. m + n
        BY <1>1, <2>3
      <3> QED BY <1>3, <1>4, <2>1, <3>1
    <2> QED BY <2>1, <2>2, <2>3
  <1>6. ASSUME NEW i \in 1 .. m + n
        PROVE  Leads(o, h[i - 1], (s \o t)[i], h[i])
    <2>1. CASE i <= m
      <3>1. h[i] = g[i] /\ h[i - 1] = g[i - 1] /\ (s \o t)[i] = s[i] /\ i \in 1 .. m
        BY <1>1, <1>4, <2>1
      <3> QED BY <1>2, <3>1
    <2>2. CASE i = m + 1
      <3>1. i - m = 1 /\ ~(i <= m) /\ i - 1 = m /\ 1 \in 1 .. n
        BY <1>1, <2>2
      <3>2. h[i] = k[1] /\ h[i - 1] = g[m] /\ (s \o t)[i] = t[1]
        BY <1>1, <1>4, <3>1
      <3>3. Leads(o, k[1 - 1], t[1], k[1]) /\ k[1 - 1] = g[m]
        BY <1>2, <1>3, <3>1
      <3> QED BY <3>2, <3>3
    <2>3. CASE i > m + 1
      <3>1. /\ i - m \in 1 .. n /\ ~(i <= m) /\ ~(i - 1 <= m)
            /\ (i - 1) - m = (i - m) - 1
        BY <1>1, <2>3
      <3>2. h[i] = k[i - m] /\ h[i - 1] = k[(i - m) - 1] /\ (s \o t)[i] = t[i - m]
        BY <1>1, <1>4, <3>1
      <3> QED BY <1>3, <3>1, <3>2
    <2> QED BY <1>1, <2>1, <2>2, <2>3
  <1> QED BY <1>1, <1>4, <1>5, <1>6 DEF Outlined, Outlines, m, n

LEMMA RefreshOutlined ==
  ASSUME NEW o \in Options, NEW a \in Off
  PROVE  Outlined(o, Refresh(o), a, "selected")
  <1>1. <<"estimate">> \in Seq(Commands) /\ <<"routeRc">> \in Seq(Commands)
    BY DEF Commands, Work
  <1>2. a \in Marks /\ "seedable" \in Marks /\ "selected" \in Marks
    BY DEF Off, Marks
  <1>3. CASE UseGr(o)
    <2>1. Refresh(o) = <<"estimate">> \o <<"routeRc">>
      BY <1>3 DEF Refresh, When
    <2>2. Leads(o, a, "estimate", "seedable") /\ Leads(o, "seedable", "routeRc", "selected")
      BY <1>3 DEF Leads, Off
    <2>3. /\ Outlined(o, <<"estimate">>, a, "seedable")
          /\ Outlined(o, <<"routeRc">>, "seedable", "selected")
      BY <1>2, <2>2, OneOutlined
    <2> QED BY <1>1, <2>1, <2>3, ConcatOutlined
  <1>4. CASE ~UseGr(o)
    <2>1. Refresh(o) = <<"estimate">>
      BY <1>1, <1>4, ConcatEmptySeq DEF Refresh, When
    <2>2. Leads(o, a, "estimate", "selected")
      BY <1>4 DEF Leads
    <2> QED BY <1>2, <2>1, <2>2, OneOutlined
  <1> QED BY <1>3, <1>4

\* Where applyOpenStaDbChanges may be entered, and what its changes do there.
Entry(o) == IF UseGr(o) THEN {"seedable", "selected"} ELSE Off

LEMMA ApplyOutlined ==
  ASSUME NEW o \in Options, NEW a \in Entry(o), NEW s \in Seq(Work),
         UseGr(o) => Outlined(o, s, "on", "on"),
         ~UseGr(o) => \E b \in Off : Outlined(o, s, a, b)
  PROVE  Outlined(o, Apply(o, s), a, "selected")
  <1>1. s \in Seq(Commands)
    BY DEF Commands
  <1>2. CASE UseGr(o)
    <2>1. /\ Leads(o, a, "seed", "selected") /\ Leads(o, "selected", "startIncremental", "on")
          /\ Leads(o, "on", "updateRc", "updated")
          /\ Leads(o, "updated", "endIncremental", "selected")
      BY <1>2 DEF Leads, Entry
    <2>2. a \in Marks /\ {"selected", "on", "updated"} \subseteq Marks
      BY <1>2 DEF Entry, Marks
    <2>3. /\ Outlined(o, <<"seed">>, a, "selected")
          /\ Outlined(o, <<"startIncremental">>, "selected", "on")
          /\ Outlined(o, <<"updateRc">>, "on", "updated")
          /\ Outlined(o, <<"endIncremental">>, "updated", "selected")
      BY <2>1, <2>2, OneOutlined
    <2>4. /\ <<"seed">> \in Seq(Commands) /\ <<"startIncremental">> \in Seq(Commands)
          /\ <<"updateRc">> \in Seq(Commands) /\ <<"endIncremental">> \in Seq(Commands)
      BY DEF Commands, Work
    <2>5. /\ <<"seed", "startIncremental">> = <<"seed">> \o <<"startIncremental">>
          /\ <<"updateRc", "endIncremental">> = <<"updateRc">> \o <<"endIncremental">>
      OBVIOUS
    <2>6. /\ Outlined(o, <<"seed", "startIncremental">>, a, "on")
          /\ Outlined(o, <<"updateRc", "endIncremental">>, "on", "selected")
          /\ <<"seed", "startIncremental">> \in Seq(Commands)
          /\ <<"updateRc", "endIncremental">> \in Seq(Commands)
      BY <2>3, <2>4, <2>5, ConcatOutlined, ConcatProperties
    <2>7. /\ Outlined(o, <<"seed", "startIncremental">> \o s, a, "on")
          /\ <<"seed", "startIncremental">> \o s \in Seq(Commands)
      BY <1>1, <1>2, <2>6, ConcatOutlined, ConcatProperties
    <2>8. Outlined(o, (<<"seed", "startIncremental">> \o s) \o <<"updateRc", "endIncremental">>,
                   a, "selected")
      BY <2>6, <2>7, ConcatOutlined
    <2> QED BY <1>2, <2>8 DEF Apply
  <1>3. CASE ~UseGr(o)
    <2>1. PICK b \in Off : Outlined(o, s, a, b)
      BY <1>3
    <2>2. Leads(o, b, "estimate", "selected") /\ b \in Marks /\ "selected" \in Marks
      BY <1>3 DEF Leads, Off, Marks
    <2>3. Outlined(o, <<"estimate">>, b, "selected") /\ <<"estimate">> \in Seq(Commands)
      BY <2>2, OneOutlined DEF Commands, Work
    <2> QED BY <1>1, <1>3, <2>1, <2>3, ConcatOutlined DEF Apply
  <1> QED BY <1>2, <1>3

LEMMA ChangesOutlined ==
  ASSUME NEW o \in Options
  PROVE  /\ \A s \in {<<"swap">>, <<"swap", "legalize">>} :
              /\ s \in Seq(Work)
              /\ Outlined(o, s, "on", "on")
              /\ \A a \in Off : Outlined(o, s, a, "old")
         /\ \A a \in Entry(o) : Outlined(o, Apply(o, <<"swap">>), a, "selected")
         /\ \A a \in Entry(o) : Outlined(o, Apply(o, <<"swap", "legalize">>), a, "selected")
  <1>1. <<"swap">> \in Seq(Work) /\ <<"swap", "legalize">> \in Seq(Work)
    BY DEF Work
  <1>2. <<"swap">> \in Seq(Commands) /\ <<"legalize">> \in Seq(Commands)
        /\ <<"swap", "legalize">> = <<"swap">> \o <<"legalize">>
    BY DEF Commands, Work
  <1>3. /\ Leads(o, "on", "swap", "on") /\ Leads(o, "on", "legalize", "on")
        /\ \A a \in Off : Leads(o, a, "swap", "old")
        /\ Leads(o, "old", "legalize", "old")
    BY DEF Leads, Off
  <1>4. {"on", "old"} \subseteq Marks /\ Off \subseteq Marks
    BY DEF Marks, Off
  <1>5. /\ Outlined(o, <<"swap">>, "on", "on") /\ Outlined(o, <<"legalize">>, "on", "on")
        /\ \A a \in Off : Outlined(o, <<"swap">>, a, "old")
        /\ Outlined(o, <<"legalize">>, "old", "old")
    BY <1>3, <1>4, OneOutlined
  <1>6. /\ Outlined(o, <<"swap", "legalize">>, "on", "on")
        /\ \A a \in Off : Outlined(o, <<"swap", "legalize">>, a, "old")
    BY <1>2, <1>5, ConcatOutlined
  <1>7. "old" \in Off /\ (~UseGr(o) => Entry(o) = Off)
    BY DEF Off, Entry
  <1>8. ASSUME NEW a \in Entry(o)
        PROVE  /\ Outlined(o, Apply(o, <<"swap">>), a, "selected")
               /\ Outlined(o, Apply(o, <<"swap", "legalize">>), a, "selected")
    BY <1>1, <1>5, <1>6, <1>7, ApplyOutlined
  <1> QED BY <1>1, <1>5, <1>6, <1>8

\* One UpdatePTSizes call, command by command.
SyncMarks(o) ==
  IF UseGr(o) THEN <<"selected", "on", "on", "updated", "selected">> ELSE <<"old", "selected">>

(* Any number of UpdatePTSizes calls keeps the selected RC.                *)
LEMMA LauncherOutlined ==
  ASSUME NEW o \in Options, MaxSyncs \in Nat, NEW a \in Entry(o)
  PROVE  \E b \in {a, "selected"} : Outlined(o, Launcher(o), a, b)
  <1> DEFINE sync == Apply(o, <<"swap">>)
             n == Len(sync)
             N == o.syncs * n
             g == SyncMarks(o)
             at(i) == ((i - 1) % n) + 1
             h == [i \in 0 .. N |-> IF i = 0 THEN a ELSE g[at(i)]]
  <1>1. /\ UseGr(o) =>
             sync = <<"seed", "startIncremental", "swap", "updateRc", "endIncremental">>
        /\ ~UseGr(o) => sync = <<"swap", "estimate">>
    <2>1. <<"seed", "startIncremental", "swap">> = <<"seed", "startIncremental">> \o <<"swap">>
      OBVIOUS
    <2>2. <<"seed", "startIncremental", "swap", "updateRc", "endIncremental">>
            = <<"seed", "startIncremental", "swap">> \o <<"updateRc", "endIncremental">>
      OBVIOUS
    <2>3. <<"swap", "estimate">> = <<"swap">> \o <<"estimate">>
      OBVIOUS
    <2> QED BY <2>1, <2>2, <2>3 DEF Apply
  <1>2. /\ n = IF UseGr(o) THEN 5 ELSE 2
        /\ \A i \in 1 .. n : g[i] \in Marks
        /\ g[n] = "selected"
    <2>1. CASE UseGr(o)
      <3>1. n = 5
        BY <1>1, <2>1
      <3> HIDE DEF n
      <3> QED BY <2>1, <3>1 DEF SyncMarks, Marks
    <2>2. CASE ~UseGr(o)
      <3>1. n = 2
        BY <1>1, <2>2
      <3> HIDE DEF n
      <3> QED BY <2>2, <3>1 DEF SyncMarks, Marks
    <2> QED BY <2>1, <2>2
  <1>3. /\ a \in Off /\ a \in Marks
        /\ Leads(o, a, sync[1], g[1]) /\ Leads(o, "selected", sync[1], g[1])
    <2>1. a \in Off /\ a \in Marks /\ (UseGr(o) => a \in {"seedable", "selected"})
      BY DEF Entry, Off, Marks
    <2>2. UseGr(o) => sync[1] = "seed" /\ g[1] = "selected"
      BY <1>1 DEF SyncMarks
    <2>3. ~UseGr(o) => sync[1] = "swap" /\ g[1] = "old"
      BY <1>1 DEF SyncMarks
    <2> QED BY <2>1, <2>2, <2>3 DEF Leads, Off
  <1>4. \A i \in 2 .. n : Leads(o, g[i - 1], sync[i], g[i])
    <2>1. CASE UseGr(o)
      <3>1. /\ g[1] = "selected" /\ g[2] = "on" /\ g[3] = "on" /\ g[4] = "updated"
            /\ g[5] = "selected"
            /\ sync[2] = "startIncremental" /\ sync[3] = "swap" /\ sync[4] = "updateRc"
            /\ sync[5] = "endIncremental"
        BY <1>1, <2>1 DEF SyncMarks
      <3> HIDE DEF sync, g
      <3> QED BY <1>2, <2>1, <3>1 DEF Leads
    <2>2. CASE ~UseGr(o)
      <3>1. g[1] = "old" /\ g[2] = "selected" /\ sync[2] = "estimate"
        BY <1>1, <2>2 DEF SyncMarks
      <3> HIDE DEF sync, g
      <3> QED BY <1>2, <2>2, <3>1 DEF Leads, Off
    <2> QED BY <2>1, <2>2
  <1> HIDE DEF sync, g
  <1>5. n \in {2, 5} /\ N \in Nat /\ (N = 0 \/ ((N - 1) % n) + 1 = n)
    <2>1. o.syncs \in Nat
      BY DEF Options
    <2> QED BY <1>2, <2>1
  <1> HIDE DEF n, N
  <1>6. \A i \in 1 .. N : /\ at(i) \in 1 .. n
                          /\ at(i) = 1 => i = 1 \/ at(i - 1) = n
                          /\ at(i) # 1 => at(i - 1) = at(i) - 1 /\ i # 1
    BY <1>5
  <1> HIDE DEF at
  <1>7. /\ h \in [0 .. N -> Marks]
        /\ h[0] = a
        /\ \A i \in 1 .. N : h[i] = g[at(i)]
    BY <1>2, <1>3, <1>5, <1>6
  <1> HIDE DEF h
  <1>8. ASSUME NEW i \in 1 .. N
        PROVE  Leads(o, h[i - 1], sync[at(i)], h[i])
    <2>1. CASE i = 1
      <3>1. at(1) = 1
        BY <1>5 DEF at
      <3> QED BY <1>3, <1>5, <1>7, <2>1, <3>1
    <2>2. CASE i # 1
      <3>1. i - 1 \in 1 .. N /\ h[i - 1] = g[at(i - 1)] /\ h[i] = g[at(i)]
        BY <1>5, <1>7, <2>2
      <3>2. CASE at(i) = 1
        BY <1>2, <1>3, <1>6, <2>2, <3>1, <3>2
      <3>3. CASE at(i) # 1
        BY <1>4, <1>5, <1>6, <3>1, <3>3
      <3> QED BY <3>2, <3>3
    <2> QED BY <2>1, <2>2
  <1>9. /\ Len(Launcher(o)) = N
        /\ \A i \in 1 .. N : Launcher(o)[i] = sync[at(i)]
    BY <1>5 DEF Launcher, N, n, sync, at
  <1>10. h[N] \in {a, "selected"}
    BY <1>2, <1>5, <1>7 DEF at
  <1> QED BY <1>7, <1>8, <1>9, <1>10 DEF Outlined, Outlines

LEMMA HoldOutlined ==
  ASSUME NEW o \in Options, NEW a \in Off, a = "selected" \/ Exempt(o)
  PROVE  Outlined(o, HoldPass(o), a, "selected")
  <1> DEFINE L == <<"repairHold", "connect", "legalize">>
             h == [i \in 0 .. 3 |-> IF i = 3 THEN "old" ELSE a]
  <1>1. L \in Seq(Commands) /\ Refresh(o) \in Seq(Commands)
    BY RefreshFacts DEF Commands, Work
  <1>2. Outlined(o, L, a, "old")
    <2>1. h \in [0 .. 3 -> Marks] /\ h[0] = a /\ h[1] = a /\ h[2] = a /\ h[3] = "old"
      BY DEF Marks, Off
    <2>2. Len(L) = 3 /\ L[1] = "repairHold" /\ L[2] = "connect" /\ L[3] = "legalize"
      OBVIOUS
    <2> HIDE DEF h, L
    <2>3. \A i \in 1 .. 3 : Leads(o, h[i - 1], L[i], h[i])
      BY <2>1, <2>2 DEF Leads, Repairs
    <2> QED BY <2>1, <2>2, <2>3 DEF Outlined, Outlines
  <1>3. Outlined(o, Refresh(o), "old", "selected")
    BY RefreshOutlined DEF Off
  <1> HIDE DEF L
  <1> QED BY <1>1, <1>2, <1>3, ConcatOutlined DEF HoldPass, L

LEMMA OrdOutlined ==
  ASSUME NEW o \in Options
  PROVE  Outlined(o, RunOrdTO(o), "selected", "selected")
  <1> DEFINE L == <<"assertChain", "repairDesign", "repairHold", "repairSetup", "connect",
                    "legalize">>
             A == <<"assertChain">>
             h == [i \in 0 .. 6 |-> IF i = 6 THEN "old" ELSE "selected"]
  <1>1. L \in Seq(Commands) /\ A \in Seq(Commands) /\ Refresh(o) \in Seq(Commands)
    <2>1. L \in Seq(Commands)
      BY DEF Commands, Work
    <2> QED BY <2>1, RefreshFacts DEF Commands, Work
  <1>2. Outlined(o, L, "selected", "old")
    <2>1. /\ h \in [0 .. 6 -> Marks]
          /\ h[0] = "selected" /\ h[1] = "selected" /\ h[2] = "selected" /\ h[3] = "selected"
          /\ h[4] = "selected" /\ h[5] = "selected" /\ h[6] = "old"
      BY DEF Marks
    <2>2. /\ Len(L) = 6 /\ L[1] = "assertChain" /\ L[2] = "repairDesign"
          /\ L[3] = "repairHold" /\ L[4] = "repairSetup" /\ L[5] = "connect"
          /\ L[6] = "legalize"
      OBVIOUS
    <2> HIDE DEF h, L
    <2>3. \A i \in 1 .. 6 : Leads(o, h[i - 1], L[i], h[i])
      BY <2>1, <2>2 DEF Leads, Repairs, Off
    <2> QED BY <2>1, <2>2, <2>3 DEF Outlined, Outlines
  <1>3. Outlined(o, Refresh(o), "old", "selected")
    BY RefreshOutlined DEF Off
  <1>4. Outlined(o, A, "selected", "selected")
    BY OneOutlined DEF Marks, Leads
  <1> HIDE DEF L, A
  <1>5. Outlined(o, L \o Refresh(o), "selected", "selected") /\ L \o Refresh(o) \in Seq(Commands)
    BY <1>1, <1>2, <1>3, ConcatOutlined, ConcatProperties
  <1>6. Outlined(o, (L \o Refresh(o)) \o A, "selected", "selected")
    BY <1>1, <1>4, <1>5, ConcatOutlined
  <1> QED BY <1>6 DEF RunOrdTO, L, A

LEMMA ReportOutlined ==
  ASSUME NEW o \in Options, NEW a \in Entry(o)
  PROVE  Outlined(o, FinalReport(o), a, "selected")
  <1> DEFINE S == Apply(o, <<"swap">>)
             T == Apply(o, <<"swap", "legalize">>)
  <1>1. S \in Seq(Commands) /\ T \in Seq(Commands) /\ Refresh(o) \in Seq(Commands)
    <2>1. <<"swap">> \in Seq(Work) /\ <<"swap", "legalize">> \in Seq(Work)
      BY DEF Work
    <2>2. S \in Seq(Work) /\ T \in Seq(Work)
      BY <2>1, ApplyWork
    <2> HIDE DEF S, T
    <2> QED BY <2>2, RefreshFacts DEF Commands
  <1>2. "selected" \in Entry(o) /\ "selected" \in Off
    BY DEF Entry, Off
  <1>3. /\ Outlined(o, S, a, "selected") /\ Outlined(o, S, "selected", "selected")
        /\ Outlined(o, T, a, "selected") /\ Outlined(o, Refresh(o), "selected", "selected")
    BY <1>2, ChangesOutlined, RefreshOutlined
  <1> HIDE DEF S, T
  <1>4. Outlined(o, T \o Refresh(o), a, "selected") /\ T \o Refresh(o) \in Seq(Commands)
    BY <1>1, <1>3, ConcatOutlined, ConcatProperties
  <1>5. Outlined(o, (T \o Refresh(o)) \o S, a, "selected")
    BY <1>1, <1>3, <1>4, ConcatOutlined
  <1> QED BY <1>3, <1>5 DEF FinalReport, S, T

\* The RC that reading the design leaves.
Loaded(o) ==
  IF Mode(o) = "preplace" \/ (UseGr(o) /\ o.spef) THEN "seedable" ELSE "selected"

LEMMA LoadOutlined ==
  ASSUME NEW o \in Options
  PROVE  Outlined(o, LoadDesign(o), "seedable", Loaded(o))
  <1> DEFINE A == <<"assertChain", "markPads">>
             B == When(o.spef, <<"readSpef">>)
             C == When(~o.preplace, <<"estimate">>)
             D == When(UseGr(o) /\ ~o.spef /\ ~o.preplace, <<"legalize", "routeRc">>)
             c == IF o.preplace \/ UseGr(o) THEN "seedable" ELSE "selected"
  <1>1. /\ << >> \in Seq(Commands)
        /\ <<"assertChain">> \in Seq(Commands) /\ <<"markPads">> \in Seq(Commands)
        /\ <<"readSpef">> \in Seq(Commands) /\ <<"estimate">> \in Seq(Commands)
        /\ <<"legalize">> \in Seq(Commands) /\ <<"routeRc">> \in Seq(Commands)
    BY DEF Commands, Work
  <1>2. {"seedable", "selected", "old", c, Loaded(o)} \subseteq Marks
    BY DEF Marks, Loaded
  <1>3. A = <<"assertChain">> \o <<"markPads">>
        /\ <<"legalize", "routeRc">> = <<"legalize">> \o <<"routeRc">>
    OBVIOUS
  <1>4. /\ A \in Seq(Commands) /\ <<"legalize", "routeRc">> \in Seq(Commands)
        /\ B \in Seq(Commands) /\ C \in Seq(Commands) /\ D \in Seq(Commands)
    BY <1>1, <1>3, ConcatProperties DEF When
  <1>5. Outlined(o, A, "seedable", "seedable")
    <2>1. Leads(o, "seedable", "assertChain", "seedable")
          /\ Leads(o, "seedable", "markPads", "seedable")
      BY DEF Leads
    <2> QED BY <1>1, <1>2, <1>3, <2>1, OneOutlined, ConcatOutlined
  <1>6. Outlined(o, B, "seedable", "seedable")
    <2>1. Leads(o, "seedable", "readSpef", "seedable")
      BY DEF Leads, Off
    <2> QED BY <1>2, <2>1, OneOutlined, EmptyOutlined DEF When
  <1>7. Outlined(o, C, "seedable", c)
    <2>1. ~o.preplace => Leads(o, "seedable", "estimate", c)
      BY DEF Leads, Off
    <2> QED BY <1>2, <2>1, OneOutlined, EmptyOutlined DEF When
  <1>8. Outlined(o, D, c, Loaded(o))
    <2>1. CASE UseGr(o) /\ ~o.spef /\ ~o.preplace
      <3>1. /\ c = "seedable" /\ Loaded(o) = "selected"
            /\ Leads(o, c, "legalize", "old") /\ Leads(o, "old", "routeRc", "selected")
        BY <2>1 DEF Leads, Off, Loaded, Mode
      <3>2. /\ Outlined(o, <<"legalize">>, c, "old")
            /\ Outlined(o, <<"routeRc">>, "old", Loaded(o))
        BY <1>2, <3>1, OneOutlined
      <3>3. Outlined(o, <<"legalize">> \o <<"routeRc">>, c, Loaded(o))
        BY <1>1, <3>2, ConcatOutlined
      <3> QED BY <1>3, <2>1, <3>3 DEF When
    <2>2. CASE ~(UseGr(o) /\ ~o.spef /\ ~o.preplace)
      <3>1. D = << >> /\ c = Loaded(o)
        BY <2>2 DEF When, Loaded, Mode, Options
      <3> QED BY <1>2, <3>1, EmptyOutlined
    <2> QED BY <2>1, <2>2
  <1> HIDE DEF A, B, C, D, c
  <1>9. Outlined(o, A \o B, "seedable", "seedable") /\ A \o B \in Seq(Commands)
    BY <1>4, <1>5, <1>6, ConcatOutlined, ConcatProperties
  <1>10. Outlined(o, (A \o B) \o C, "seedable", c) /\ (A \o B) \o C \in Seq(Commands)
    BY <1>4, <1>7, <1>9, ConcatOutlined, ConcatProperties
  <1>11. Outlined(o, ((A \o B) \o C) \o D, "seedable", Loaded(o))
    BY <1>4, <1>8, <1>10, ConcatOutlined
  <1> QED BY <1>11 DEF LoadDesign, A, B, C, D

(* The whole flow has a proof outline, in every mode, with every options   *)
(* and after any number of UpdatePTSizes calls.                            *)
LEMMA FlowOutlined ==
  ASSUME NEW o \in Options, MaxSyncs \in Nat
  PROVE  \E b \in Marks : Outlined(o, Flow(o), "seedable", b)
  <1> DEFINE A == LoadDesign(o)
             W == <<"write">>
  <1>1. A \in Seq(Commands) /\ Outlined(o, A, "seedable", Loaded(o))
    BY PartsWork, LoadOutlined DEF Commands
  <1>2. /\ W \in Seq(Commands)
        /\ \A a \in Marks : Outlined(o, W, a, a)
    <2>1. \A a \in Marks : Leads(o, a, "write", a)
      BY DEF Leads
    <2> QED BY <2>1, OneOutlined DEF Commands, Work
  <1>3. Off \subseteq Marks /\ "selected" \in Off /\ "old" \in Off /\ Loaded(o) \in Off
    BY DEF Off, Marks, Loaded
  <1> HIDE DEF A, W
  <1>4. ASSUME NEW t \in Seq(Commands), NEW b \in Marks, Outlined(o, t, Loaded(o), b),
               Flow(o) = A \o t
        PROVE  Outlined(o, Flow(o), "seedable", b)
    BY <1>1, <1>4, ConcatOutlined
  <1>5. CASE Mode(o) = "preplace"
    <2> DEFINE L == <<"repairDesign", "connect", "write">>
               h == [i \in 0 .. 3 |-> "seedable"]
    <2>1. Len(L) = 3 /\ L[1] = "repairDesign" /\ L[2] = "connect" /\ L[3] = "write"
          /\ L \in Seq(Commands)
      BY DEF Commands, Work
    <2>2. h \in [0 .. 3 -> Marks] /\ \A i \in 0 .. 3 : h[i] = "seedable"
      BY DEF Marks
    <2>3. Flow(o) = A \o L /\ Loaded(o) = "seedable"
      BY <1>5 DEF Flow, RunPreplace, Loaded, A
    <2> HIDE DEF L, h
    <2>4. \A i \in 1 .. 3 : Leads(o, h[i - 1], L[i], h[i])
      BY <1>5, <2>1, <2>2 DEF Leads, Exempt, Repairs
    <2>5. Outlined(o, L, "seedable", "seedable")
      BY <2>1, <2>2, <2>4 DEF Outlined, Outlines
    <2> QED BY <1>3, <1>4, <2>1, <2>3, <2>5
  <1>6. CASE Mode(o) = "hold"
    <2> DEFINE P == HoldPass(o)
    <2>1. P \in Seq(Commands)
      BY PartsWork DEF Commands
    <2>2. Loaded(o) = "selected" \/ Exempt(o)
      BY <1>6 DEF Loaded, Exempt
    <2>3. Outlined(o, P, Loaded(o), "selected") /\ Outlined(o, P, "selected", "selected")
      BY <1>3, <2>2, HoldOutlined
    <2>4. Flow(o) = A \o ((P \o P) \o W)
      BY <1>6 DEF Flow, RunHoldOnly, A, W
    <2> HIDE DEF P
    <2>5. P \o P \in Seq(Commands) /\ Outlined(o, P \o P, Loaded(o), "selected")
      BY <2>1, <2>3, ConcatOutlined, ConcatProperties
    <2>6. /\ (P \o P) \o W \in Seq(Commands)
          /\ Outlined(o, (P \o P) \o W, Loaded(o), "selected")
      BY <1>2, <1>3, <2>5, ConcatOutlined, ConcatProperties
    <2> QED BY <1>3, <1>4, <2>4, <2>6
  <1>7. CASE Mode(o) = "legalize"
    <2>1. Flow(o) = A \o (<<"legalize">> \o W) /\ <<"legalize">> \in Seq(Commands)
      <3>1. RunLegalizeOnly = <<"legalize">> \o W
        BY DEF RunLegalizeOnly, W
      <3> QED BY <1>7, <3>1 DEF Flow, A, Commands, Work
    <2>2. Leads(o, Loaded(o), "legalize", "old")
      BY <1>3 DEF Leads
    <2>3. Outlined(o, <<"legalize">>, Loaded(o), "old")
      BY <1>3, <2>2, OneOutlined
    <2>4. /\ <<"legalize">> \o W \in Seq(Commands)
          /\ Outlined(o, <<"legalize">> \o W, Loaded(o), "old")
      BY <1>2, <1>3, <2>1, <2>3, ConcatOutlined, ConcatProperties
    <2> QED BY <1>3, <1>4, <2>1, <2>4
  <1>8. CASE Mode(o) = "size"
    <2> DEFINE L == Launcher(o)
               F == FinalReport(o)
               R == RunOrdTO(o)
    <2>1. L \in Seq(Commands) /\ F \in Seq(Commands) /\ R \in Seq(Commands)
      BY LauncherWork, PartsWork DEF Commands
    <2>2. Loaded(o) \in Entry(o) /\ "selected" \in Entry(o)
      BY <1>3 DEF Entry, Loaded
    <2>3. PICK b \in Entry(o) : Outlined(o, L, Loaded(o), b)
      BY <2>2, LauncherOutlined
    <2>4. Outlined(o, F, b, "selected") /\ Outlined(o, R, "selected", "selected")
      BY ReportOutlined, OrdOutlined
    <2>5. Flow(o) = A \o (((L \o F) \o R) \o W)
      BY <1>8 DEF Flow, A, W
    <2> HIDE DEF L, F, R
    <2>6. L \o F \in Seq(Commands) /\ Outlined(o, L \o F, Loaded(o), "selected")
      BY <2>1, <2>3, <2>4, ConcatOutlined, ConcatProperties
    <2>7. /\ (L \o F) \o R \in Seq(Commands)
          /\ Outlined(o, (L \o F) \o R, Loaded(o), "selected")
      BY <2>1, <2>4, <2>6, ConcatOutlined, ConcatProperties
    <2>8. /\ ((L \o F) \o R) \o W \in Seq(Commands)
          /\ Outlined(o, ((L \o F) \o R) \o W, Loaded(o), "selected")
      BY <1>2, <1>3, <2>7, ConcatOutlined, ConcatProperties
    <2> QED BY <1>3, <1>4, <2>5, <2>8
  <1>9. Mode(o) \in {"preplace", "hold", "legalize", "size"}
    BY DEF Mode
  <1> QED BY <1>3, <1>5, <1>6, <1>7, <1>8, <1>9

\* Some outline of the flow describes the RC before the next command.
OnOutline == \E h \in Outlines(opts, Flow(opts)) : Meets(h[step - 1])

(* Each command leads from the mark before it to the mark behind it.       *)
LEMMA OutlineStep == TypeOK /\ Position /\ OnOutline /\ [Next]_vars => OnOutline'
  <1> SUFFICES ASSUME TypeOK, Position, OnOutline, [Next]_vars PROVE OnOutline'
    OBVIOUS
  <1> DEFINE n == Len(Flow(opts))
             c == Flow(opts)[step]
  <1>1. PICK h \in Outlines(opts, Flow(opts)) : Meets(h[step - 1])
    BY DEF OnOutline
  <1>2. CASE UNCHANGED vars
    BY <1>1, <1>2 DEF vars, OnOutline, Meets, Selected
  <1>3. CASE Next
    <2>1. outcome = "running" /\ step' = step + 1 /\ opts' = opts
      BY <1>3 DEF Next, AssertChain, MarkPads, ReadSpef, Estimate, RouteRc, Seed,
                  StartIncremental, UpdateRc, EndIncremental, Swap, Connect, Legalize, LegalizeAborts, Write,
                  Repair, Runs, Then
    <2>2. step \in 1 .. n /\ n \in Nat /\ step' - 1 = step
      BY <2>1, FlowOf DEF Position
    <2>3. PICK a \in Marks, b \in Marks : a = h[step - 1] /\ b = h[step]
      BY <1>1, <2>2 DEF Outlines
    <2>4. Leads(opts, a, c, b) /\ Meets(a)
      BY <1>1, <2>2, <2>3 DEF Outlines
    <2>5. Meets(b)'
      <3> USE <2>1, <2>4 DEF Runs, Then, Leads, Meets, Off, Rc, Marks
      <3> HIDE DEF n
      <3>1. CASE AssertChain
        BY <3>1 DEF AssertChain, Repairs, Selected
      <3>2. CASE MarkPads
        BY <3>2 DEF MarkPads, Repairs, Selected
      <3>3. CASE ReadSpef
        BY <3>3 DEF ReadSpef, Repairs
      <3>4. CASE Estimate
        BY <3>4 DEF Estimate, Repairs, Selected
      <3>5. CASE RouteRc
        BY <3>5 DEF RouteRc, Repairs, Selected
      <3>6. CASE Seed
        <4>1. b = "selected" /\ a \in {"seedable", "selected"} /\ UseGr(opts)
          BY <3>6 DEF Seed, Repairs
        <4>2. incr' = "off" /\ Selected' = "routed" /\ (rc.src = "routed" => rc.fresh)
          BY <3>6, <4>1 DEF Seed, Selected
        <4>3. rc' = [src |-> "routed", fresh |-> TRUE]
          BY <3>6, <4>2 DEF Seed, TypeOK
        <4> QED BY <4>1, <4>2, <4>3
      <3>7. CASE StartIncremental
        BY <3>7 DEF StartIncremental, Repairs, Selected
      <3>8. CASE UpdateRc
        BY <3>8 DEF UpdateRc, Repairs, TypeOK
      <3>9. CASE EndIncremental
        BY <3>9 DEF EndIncremental, Repairs, Selected
      <3>10. CASE Swap
        BY <3>10 DEF Swap, Repairs, TypeOK
      <3>11. CASE Connect
        BY <3>11 DEF Connect, Repairs, Selected
      <3>12. CASE Legalize
        BY <3>12 DEF Legalize, Delivers, Repairs, TypeOK
      <3>13. CASE Write
        BY <3>13 DEF Write, Repairs, Selected
      <3>14. ASSUME NEW B \in SUBSET Nets, Repair(B)
             PROVE  Meets(b)'
        BY <3>14 DEF Repair, Repairs, Selected
      <3>15. CASE LegalizeAborts
        BY <3>15 DEF LegalizeAborts, Repairs, TypeOK
      <3> QED BY <1>3, <3>1, <3>2, <3>3, <3>4, <3>5, <3>6, <3>7, <3>8, <3>9, <3>10, <3>11,
                <3>12, <3>13, <3>14, <3>15 DEF Next
    <2>6. h[step' - 1] = b
      BY <2>2, <2>3
    <2> QED BY <1>1, <2>1, <2>5, <2>6 DEF OnOutline
  <1> QED BY <1>2, <1>3

LEMMA AlwaysOnOutline == Spec => [](TypeOK /\ Position /\ OnOutline)
  <1>1. Init => OnOutline
    <2> SUFFICES ASSUME Init PROVE OnOutline
      OBVIOUS
    <2>1. opts \in Options /\ MaxSyncs \in Nat
      BY FlowAssumption DEF Init
    <2>2. PICK h \in Outlines(opts, Flow(opts)) : h[0] = "seedable"
      BY <2>1, FlowOutlined DEF Outlined
    <2>3. step - 1 = 0 /\ Meets("seedable")
      BY DEF Init, Meets, Rc
    <2> QED BY <2>2, <2>3 DEF OnOutline
  <1>2. IInv /\ OnOutline /\ [Next]_vars => OnOutline'
    BY OutlineStep DEF IInv
  <1>3. IInv /\ OnOutline => TypeOK /\ Position /\ OnOutline
    BY DEF IInv
  <1> QED BY Invariance, <1>1, <1>2, <1>3, PTL DEF Spec

(* In hold-only and sizing mode every repair works on wire RC of the       *)
(* selected kind that describes the design at that moment, in any number   *)
(* of rounds (runHoldOnlyPass, runOrdTO, refreshOpenStaParasitics); the    *)
(* one exception, hold-only with a SPEF file and routed RC, is in the      *)
(* property.                                                               *)
THEOREM RepairsOnSelectedRc == Spec => []RepairSeesRc
  <1>1. TypeOK /\ Position /\ OnOutline => RepairSeesRc
    <2> SUFFICES ASSUME TypeOK, Position, OnOutline, outcome = "running",
                        Flow(opts)[step] \in Repairs, ~Exempt(opts)
                 PROVE  rc = Rc(Selected, TRUE)
      BY DEF RepairSeesRc, Exempt
    <2>1. PICK h \in Outlines(opts, Flow(opts)) : Meets(h[step - 1])
      BY DEF OnOutline
    <2>2. step \in 1 .. Len(Flow(opts))
      BY DEF Position
    <2>3. Leads(opts, h[step - 1], Flow(opts)[step], h[step])
      BY <2>1, <2>2 DEF Outlines
    <2>4. h[step - 1] = "selected"
      BY <2>3 DEF Leads, Repairs
    <2> QED BY <2>1, <2>4 DEF Meets
  <1> QED BY AlwaysOnOutline, <1>1, PTL

(* Incremental routing is never started over a design that was not routed  *)
(* as it stands: applyOpenStaDbChanges seeds it first, and nothing between *)
(* the seed and the start changes the design.                              *)
THEOREM SeedBeforeIncremental == Spec => []IncrementalSeeded
  <1>1. TypeOK /\ Position /\ OnOutline => IncrementalSeeded
    <2> SUFFICES ASSUME TypeOK, Position, OnOutline PROVE IncrementalSeeded
      OBVIOUS
    <2>1. PICK h \in Outlines(opts, Flow(opts)) : Meets(h[step - 1])
      BY DEF OnOutline
    <2>2. step - 1 \in 0 .. Len(Flow(opts))
      BY FlowOf DEF TypeOK
    <2>3. h[step - 1] \in Marks
      BY <2>1, <2>2 DEF Outlines
    <2> QED BY <2>1, <2>3 DEF Meets, Marks, Off, IncrementalSeeded
  <1> QED BY AlwaysOnOutline, <1>1, PTL
=============================================================================
