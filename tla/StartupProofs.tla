--------------------------- MODULE StartupProofs ---------------------------
(***************************************************************************)
(* The startup, for every command and environment file and every set of    *)
(* views: how the threads are split, and what the lists of views hold.     *)
(***************************************************************************)
EXTENDS DesignReader, SequenceTheorems, TLAPS

-----------------------------------------------------------------------------
(* The settings of the threads, and that no option of the tables has one   *)
(* of them: only the branches of Threads assign them.                      *)

ThreadSettings == {"MAX_THREAD", "GWTW_DIV", "GWTW_NUM_START", "GWTW_flag", "thread_flag"}
Spare(ts) == \A t \in ts : t.var \notin ThreadSettings
SparePair(p) == p[2] \notin ThreadSettings
SparePairs(ps) == \A p \in ps : SparePair(p)

LEMMA PairsSpare == \A key, var : var \notin ThreadSettings => SparePair(<<key, var>>)
  BY DEF SparePair

LEMMA SwitchesSpare ==
  /\ SparePairs(InputSwitches) /\ SparePairs(SensitivitySwitches) /\ SparePairs(SearchSwitches)
  /\ SparePairs(TimerSwitches) /\ SparePairs(MarginSwitches) /\ SparePairs(LimitSwitches)
  <1> USE PairsSpare DEF SparePairs, ThreadSettings
  <1>1. SparePairs(InputSwitches) BY Zenon DEF InputSwitches
  <1>2. SparePairs(SensitivitySwitches) BY Zenon DEF SensitivitySwitches
  <1>3. SparePairs(SearchSwitches) BY Zenon DEF SearchSwitches
  <1>4. SparePairs(TimerSwitches) BY Zenon DEF TimerSwitches
  <1>5. SparePairs(MarginSwitches) BY Zenon DEF MarginSwitches
  <1>6. SparePairs(LimitSwitches) BY Zenon DEF LimitSwitches
  <1> HIDE DEF SparePairs
  <1> QED BY <1>1, <1>2, <1>3, <1>4, <1>5, <1>6

LEMMA ValuesSpare ==
  /\ SparePairs(InputValues) /\ SparePairs(SensitivityValues) /\ SparePairs(SearchValues)
  /\ SparePairs(TimerValues) /\ SparePairs(MarginValues) /\ SparePairs(LimitValues)
  <1> USE PairsSpare DEF SparePairs, ThreadSettings
  <1>1. SparePairs(InputValues) BY Zenon DEF InputValues
  <1>2. SparePairs(SensitivityValues) BY Zenon DEF SensitivityValues
  <1>3. SparePairs(SearchValues) BY Zenon DEF SearchValues
  <1>4. SparePairs(TimerValues) BY Zenon DEF TimerValues
  <1>5. SparePairs(MarginValues) BY Zenon DEF MarginValues
  <1>6. SparePairs(LimitValues) BY Zenon DEF LimitValues
  <1> HIDE DEF SparePairs
  <1> QED BY <1>1, <1>2, <1>3, <1>4, <1>5, <1>6

LEMMA ListsSpare ==
  /\ SparePairs(TimerClears) /\ SparePairs(MarginClears)
  /\ SparePairs(SearchLists) /\ SparePairs(TimerLists)
  <1> USE PairsSpare DEF SparePairs, ThreadSettings
  <1>1. SparePairs(TimerClears) BY Zenon DEF TimerClears
  <1>2. SparePairs(MarginClears) BY Zenon DEF MarginClears
  <1>3. SparePairs(SearchLists) BY Zenon DEF SearchLists
  <1>4. SparePairs(TimerLists) BY Zenon DEF TimerLists
  <1> HIDE DEF SparePairs
  <1> QED BY <1>1, <1>2, <1>3, <1>4

LEMMA EnvPairsSpare == SparePairs(EnvValues) /\ SparePairs(EnvLists)
  <1> USE PairsSpare DEF SparePairs, ThreadSettings
  <1>1. SparePairs(EnvValues) BY Zenon DEF EnvValues
  <1>2. SparePairs(EnvLists) BY Zenon DEF EnvLists
  <1> QED BY <1>1, <1>2

LEMMA OptionsSpare == Spare(Options) /\ Spare(EnvOptions)
  BY SwitchesSpare, ValuesSpare, ListsSpare, EnvPairsSpare
  DEF Options, EnvOptions, Spare, SparePairs, SparePair, On, Off, Value, Append1

-----------------------------------------------------------------------------
(* What an assignment leaves of the settings; Kept: those of the threads.  *)

Kept(o, q) == \A s \in ThreadSettings : Get(q, s) = Get(o, s)

LEMMA SetFacts ==
  ASSUME NEW o, NEW new, NEW s
  PROVE  Get(Set(o, new), s) = IF s \in DOMAIN new THEN new[s] ELSE Get(o, s)
  BY DEF Get, Set

LEMMA AssignFacts ==
  ASSUME NEW o, NEW s, NEW val, NEW x
  PROVE  Get(Assign(o, s, val), x) = IF x = s THEN val ELSE Get(o, x)
  BY DEF Get, Set, Assign

LEMMA SetKeeps ==
  \A o, new : DOMAIN new \cap ThreadSettings = {} => Kept(o, Set(o, new))
  BY SetFacts DEF Kept

LEMMA AssignKeeps ==
  \A o, s, val : s \notin ThreadSettings => Kept(o, Assign(o, s, val))
  BY AssignFacts DEF Kept

LEMMA KeptFacts ==
  /\ \A o : Kept(o, o)
  /\ \A o, p, q : Kept(o, p) /\ Kept(p, q) => Kept(o, q)
  BY DEF Kept

\* What a line does besides splitting the threads.
LEMMA OthersKeep ==
  ASSUME NEW o, NEW line
  PROVE  /\ Kept(o, ByTables(o, line))
         /\ Kept(o, Margin(o, line))
         /\ Kept(o, Alpha(o, line))
         /\ Kept(o, Repair(o, line))
  <1>1. Kept(o, ByTables(o, line))
    <2> DEFINE ts == {t \in Options : Finds(line, t.key)}
               new == [s \in {t.var : t \in ts} |-> Assigned(o, CHOOSE t \in ts : t.var = s, line)]
    <2>1. Spare(ts)
      BY OptionsSpare DEF Spare
    <2> HIDE DEF ts
    <2>2. DOMAIN new \cap ThreadSettings = {}
      BY <2>1 DEF Spare
    <2> HIDE DEF new
    <2>3. Kept(o, Set(o, new))
      BY <2>2, SetKeeps
    <2> QED BY <2>3, Zenon DEF ByTables, new, ts
  <1>2. \A p, val : /\ Kept(p, Assign(p, "STA_MARGIN", val)) /\ Kept(p, Assign(p, "set_margin", val))
                     /\ Kept(p, Assign(p, "ALPHA", val))
    BY AssignKeeps DEF ThreadSettings
  <1>3. Kept(o, Margin(o, line))
    BY <1>2, KeptFacts, Zenon DEF Margin
  <1>4. Kept(o, Alpha(o, line))
    BY <1>2, KeptFacts, Zenon DEF Alpha
  <1>5. Kept(o, Repair(o, line))
    <2> DEFINE found == {p \in Repairs : Finds(line, p[1])}
               new == [s \in {p[2] : p \in found} |-> ~\E p \in found : line.key = p[1] \o " " /\ line.val = 0]
    <2>1. SparePairs(Repairs)
      BY PairsSpare, Zenon DEF Repairs, SparePairs, ThreadSettings
    <2>2. \A p \in found : p[2] \notin ThreadSettings
      BY <2>1 DEF SparePairs, SparePair
    <2> HIDE DEF found
    <2>3. DOMAIN new = {p[2] : p \in found}
      BY Zenon
    <2> HIDE DEF new
    <2>4. DOMAIN new \cap ThreadSettings = {}
      BY <2>2, <2>3
    <2>5. Kept(o, Set(o, new))
      BY <2>4, SetKeeps
    <2> QED BY <2>5, Zenon DEF Repair, new, found
  <1> QED BY <1>1, <1>3, <1>4, <1>5

\* The key words of the options that split the threads.
DivKey == "-GWTW_div "
NumKey == "-GWTW_num_start "
ThreadKey == "-thread "

LEMMA KeysDiffer == DivKey # NumKey /\ DivKey # ThreadKey /\ NumKey # ThreadKey
  BY Zenon DEF DivKey, NumKey, ThreadKey

LEMMA ThreadsCases ==
  ASSUME NEW o, NEW line
  PROVE  /\ line.key = DivKey => Threads(o, line) = Split(o, "GWTW_DIV", "GWTW_NUM_START", line.val)
         /\ line.key = NumKey => Threads(o, line) = Split(o, "GWTW_NUM_START", "GWTW_DIV", line.val)
         /\ line.key = ThreadKey =>
              Threads(o, line) = Assign(Assign(o, "MAX_THREAD", line.val), "thread_flag", TRUE)
         /\ line.key \notin {DivKey, NumKey, ThreadKey} => Threads(o, line) = o
  BY KeysDiffer, Zenon DEF Threads, DivKey, NumKey, ThreadKey

LEMMA NoCrash ==
  ASSUME NEW o, NEW line, ~DividesByZero(o, line), line.key \in {DivKey, NumKey}
  PROVE  /\ ~Get(o, "GWTW_flag") => line.val # 0
         /\ Get(o, "GWTW_flag") /\ Get(o, "thread_flag") =>
              Get(o, IF line.key = DivKey THEN "GWTW_NUM_START" ELSE "GWTW_DIV") # 0
  BY KeysDiffer, Zenon DEF DividesByZero, DivKey, NumKey

-----------------------------------------------------------------------------
(* ThreadsSplit: the split fits the threads there are when it is made, and *)
(* a later -thread is what the property excludes.                          *)

Numbers(o) == {Get(o, "MAX_THREAD"), Get(o, "GWTW_DIV"), Get(o, "GWTW_NUM_START")} \subseteq Nat
Fits(o) == Get(o, "GWTW_DIV") * Get(o, "GWTW_NUM_START") <= Get(o, "MAX_THREAD")

LEMMA Quotients ==
  \A m \in Nat, v \in Nat \ {0} : m \div v \in Nat /\ v * (m \div v) <= m /\ (m \div v) * v <= m
  OBVIOUS

LEMMA SplitFits ==
  ASSUME NEW o, Numbers(o), NEW val \in Nat, NEW mine, NEW other,
         {mine, other} = {"GWTW_DIV", "GWTW_NUM_START"}, mine # other,
         ~Get(o, "GWTW_flag") => val # 0,
         Get(o, "GWTW_flag") /\ Get(o, "thread_flag") => Get(o, other) # 0
  PROVE  LET q == Split(o, mine, other, val)
         IN Numbers(q) /\ Fits(q) /\ (Get(q, "GWTW_flag") <=> TRUE)
  <1> DEFINE q == Split(o, mine, other, val)
             max == Get(o, "MAX_THREAD")
             left == Get(o, other)
  <1>1. max \in Nat /\ left \in Nat
    BY DEF Numbers
  <1>2. /\ "MAX_THREAD" \notin {mine, other} /\ "GWTW_flag" \notin {mine, other, "MAX_THREAD"}
        /\ (mine = "GWTW_DIV" /\ other = "GWTW_NUM_START") \/ (mine = "GWTW_NUM_START" /\ other = "GWTW_DIV")
    OBVIOUS
  <1>3. ASSUME Get(q, "MAX_THREAD") \in Nat, Get(q, mine) \in Nat, Get(q, other) \in Nat,
               Get(q, mine) * Get(q, other) <= Get(q, "MAX_THREAD")
        PROVE  Numbers(q) /\ Fits(q)
    <2> HIDE DEF q
    <2>1. CASE mine = "GWTW_DIV" /\ other = "GWTW_NUM_START"
      BY <1>3, <2>1 DEF Numbers, Fits
    <2>2. CASE mine = "GWTW_NUM_START" /\ other = "GWTW_DIV"
      <3> DEFINE a == Get(q, "GWTW_DIV")
                 b == Get(q, "GWTW_NUM_START")
      <3>1. a \in Nat /\ b \in Nat /\ b * a <= Get(q, "MAX_THREAD")
        BY <1>3, <2>2
      <3> HIDE DEF a, b
      <3>2. a * b = b * a
        BY <3>1
      <3>3. a * b <= Get(q, "MAX_THREAD")
        BY <3>1, <3>2
      <3> QED BY <1>3, <2>2, <3>3 DEF Numbers, Fits, a, b
    <2> QED BY <1>2, <2>1, <2>2
  <1>4. CASE ~Get(o, "GWTW_flag")
    <2>1. q = Assign(Assign(Assign(o, mine, val), other, max \div val), "GWTW_flag", TRUE)
      BY <1>4 DEF Split
    <2> HIDE DEF q, max
    <2>2. /\ Get(q, mine) = val /\ Get(q, other) = max \div val
          /\ Get(q, "MAX_THREAD") = max /\ Get(q, "GWTW_flag") = TRUE
      <3> DEFINE p1 == Assign(o, mine, val)
                 p2 == Assign(p1, other, max \div val)
      <3>1. \A x : Get(p1, x) = IF x = mine THEN val ELSE Get(o, x)
        BY AssignFacts
      <3> HIDE DEF p1
      <3>2. \A x : Get(p2, x) = IF x = other THEN max \div val ELSE Get(p1, x)
        BY AssignFacts
      <3>3. q = Assign(p2, "GWTW_flag", TRUE)
        BY <2>1 DEF p1
      <3> HIDE DEF p2
      <3>4. \A x : Get(q, x) = IF x = "GWTW_flag" THEN TRUE ELSE Get(p2, x)
        BY <3>3 DEF Get, Set, Assign
      <3> QED BY <1>2, <3>1, <3>2, <3>4 DEF max
    <2>3. max \div val \in Nat /\ val * (max \div val) <= max
      BY <1>1, <1>4, Quotients
    <2> QED BY <1>1, <1>3, <2>2, <2>3 DEF q
  <1>5. CASE Get(o, "GWTW_flag") /\ Get(o, "thread_flag")
    <2>1. q = Assign(o, mine, max \div left)
      BY <1>5 DEF Split
    <2> HIDE DEF q
    <2>2. /\ Get(q, mine) = max \div left /\ Get(q, other) = left
          /\ Get(q, "MAX_THREAD") = max /\ Get(q, "GWTW_flag") = Get(o, "GWTW_flag")
      BY <1>2, <2>1, AssignFacts
    <2> HIDE DEF max, left
    <2>3. max \div left \in Nat /\ (max \div left) * left <= max
      BY <1>1, <1>5, Quotients DEF left
    <2>4. Numbers(q) /\ Fits(q)
      BY <1>1, <1>3, <2>2, <2>3
    <2> QED BY <1>5, <2>2, <2>4 DEF q
  <1>6. CASE Get(o, "GWTW_flag") /\ ~Get(o, "thread_flag")
    <2>1. q = Assign(Assign(o, mine, val), "MAX_THREAD", val * left)
      BY <1>6 DEF Split
    <2> HIDE DEF q
    <2>2. /\ Get(q, mine) = val /\ Get(q, other) = left
          /\ Get(q, "MAX_THREAD") = val * left /\ Get(q, "GWTW_flag") = Get(o, "GWTW_flag")
      BY <1>2, <2>1, AssignFacts
    <2> HIDE DEF left
    <2>3. val * left \in Nat /\ val * left <= val * left
      BY <1>1
    <2>4. Numbers(q) /\ Fits(q)
      BY <1>1, <1>3, <2>2, <2>3
    <2> QED BY <1>6, <2>2, <2>4 DEF q
  <1> QED BY <1>4, <1>5, <1>6

Flagged == Get(opt, "GWTW_flag")
SplitLine(i) == file[i].key \in {DivKey, NumKey}

\* No -thread after a line that splits the threads.
Ordered ==
  \A i, j \in 1 .. Len(file) : file[i].key = ThreadKey /\ SplitLine(j) => i < j

LEMMA ThreadsSplitIs == ThreadsSplit = (Flagged /\ Ordered => Fits(opt))
  <1>1. (\A i \in Own(ThreadKey) : \A j \in Own(DivKey) \cup Own(NumKey) : i < j) = Ordered
    BY DEF Own, Ordered, SplitLine
  <1> QED BY <1>1, Zenon DEF ThreadsSplit, Flagged, Fits, ThreadKey, DivKey, NumKey

SplitInv ==
  /\ Len(file) \in Nat
  /\ \A i \in 1 .. Len(file) : file[i].key \in {DivKey, NumKey, ThreadKey} => file[i].val \in Nat
  /\ Numbers(opt)
  /\ pc = "cmd" => n \in 0 .. Len(file) /\ (Flagged => \E j \in 1 .. n : SplitLine(j))
  /\ Flagged /\ Ordered => Fits(opt)

LEMMA SplitStarts == Init => SplitInv
  <1> SUFFICES ASSUME Init PROVE SplitInv
    OBVIOUS
  <1>1. PICK c \in Cases : file = c.cmd
    BY DEF Init, CmdInit
  <1>2. Len(file) \in Nat
    <2>1. file \in Seq(Range(file))
      BY <1>1, CasesAssumption, Zenon
    <2> QED BY <2>1, LenProperties
  <1>3. \A i \in 1 .. Len(file) : file[i].key \in {DivKey, NumKey, ThreadKey} => file[i].val \in Nat
    BY <1>1, CasesAssumption, Zenon DEF DivKey, NumKey, ThreadKey
  <1>4. opt = << >> /\ pc = "cmd" /\ n = 0
    BY DEF Init, CmdInit
  <1>5. \A s : Get(opt, s) = Default[s]
    BY <1>4 DEF Get
  <1>6. /\ Default["MAX_THREAD"] = 1 /\ Default["GWTW_DIV"] = 4 /\ Default["GWTW_NUM_START"] = 4
        /\ Default["GWTW_flag"] = FALSE
    BY DEF Default
  <1> QED BY <1>2, <1>3, <1>4, <1>5, <1>6 DEF SplitInv, Numbers, Flagged

\* What a line makes of the settings.
Turned(o, line) == Repair(Alpha(Margin(Threads(ByTables(o, line), line), line), line), line)

LEMMA TurnKeeps ==
  ASSUME NEW o, NEW line
  PROVE  /\ Kept(o, ByTables(o, line))
         /\ Kept(Threads(ByTables(o, line), line), Turned(o, line))
  <1> DEFINE q == Threads(ByTables(o, line), line)
             r == Margin(q, line)
             s == Alpha(r, line)
  <1>1. Kept(o, ByTables(o, line)) /\ Kept(q, r) /\ Kept(r, s) /\ Kept(s, Repair(s, line))
    BY OthersKeep
  <1>2. Turned(o, line) = Repair(s, line)
    BY DEF Turned
  <1> HIDE DEF q, r, s
  <1> QED BY <1>1, <1>2, KeptFacts DEF q

LEMMA KeptMeans ==
  ASSUME NEW o, NEW q, Kept(o, q)
  PROVE  /\ Numbers(q) <=> Numbers(o)
         /\ Fits(q) <=> Fits(o)
         /\ Get(q, "GWTW_flag") = Get(o, "GWTW_flag")
         /\ Get(q, "thread_flag") = Get(o, "thread_flag")
         /\ Get(q, "GWTW_DIV") = Get(o, "GWTW_DIV")
         /\ Get(q, "GWTW_NUM_START") = Get(o, "GWTW_NUM_START")
  BY DEF Kept, ThreadSettings, Numbers, Fits

\* A line that splits the threads leaves a split that fits.
LEMMA SplitTurn ==
  ASSUME NEW o, Numbers(o), NEW line, line.key \in {DivKey, NumKey}, line.val \in Nat,
         ~DividesByZero(o, line)
  PROVE  Numbers(Turned(o, line)) /\ Fits(Turned(o, line))
  <1> DEFINE p == ByTables(o, line)
             q == Threads(p, line)
             r == Turned(o, line)
  <1>1. Kept(o, p) /\ Kept(q, r)
    BY TurnKeeps
  <1> HIDE DEF p
  <1>2. /\ Numbers(p)
        /\ ~Get(p, "GWTW_flag") => line.val # 0
        /\ Get(p, "GWTW_flag") /\ Get(p, "thread_flag") =>
              Get(p, IF line.key = DivKey THEN "GWTW_NUM_START" ELSE "GWTW_DIV") # 0
    BY <1>1, KeptMeans, NoCrash
  <1>3. CASE line.key = DivKey
    <2>1. q = Split(p, "GWTW_DIV", "GWTW_NUM_START", line.val)
      BY <1>3, ThreadsCases
    <2> HIDE DEF q, r
    <2>2. Numbers(q) /\ Fits(q)
      BY <1>2, <1>3, <2>1, SplitFits
    <2> QED BY <1>1, <2>2, KeptMeans DEF r
  <1>4. CASE line.key = NumKey
    <2>1. q = Split(p, "GWTW_NUM_START", "GWTW_DIV", line.val)
      BY <1>4, ThreadsCases
    <2>2. line.key # DivKey
      BY <1>4, KeysDiffer
    <2> HIDE DEF q, r
    <2>3. Numbers(q) /\ Fits(q)
      BY <1>2, <2>1, <2>2, SplitFits
    <2> QED BY <1>1, <2>3, KeptMeans DEF r
  <1> QED BY <1>3, <1>4

\* Any other line leaves the split, -thread the parts of it.
LEMMA OtherTurn ==
  ASSUME NEW o, Numbers(o), NEW line, line.key \notin {DivKey, NumKey},
         line.key = ThreadKey => line.val \in Nat
  PROVE  /\ Numbers(Turned(o, line))
         /\ Get(Turned(o, line), "GWTW_flag") = Get(o, "GWTW_flag")
         /\ line.key # ThreadKey => (Fits(Turned(o, line)) <=> Fits(o))
  <1> DEFINE p == ByTables(o, line)
             q == Threads(p, line)
             r == Turned(o, line)
  <1>1. Kept(o, p) /\ Kept(q, r)
    BY TurnKeeps
  <1> HIDE DEF p
  <1>2. CASE line.key = ThreadKey
    <2>1. q = Assign(Assign(p, "MAX_THREAD", line.val), "thread_flag", TRUE)
      BY <1>2, ThreadsCases
    <2> HIDE DEF q, r
    <2>2. \A x : Get(q, x) = IF x = "thread_flag" THEN TRUE ELSE
                              IF x = "MAX_THREAD" THEN line.val ELSE Get(p, x)
      <3> DEFINE p1 == Assign(p, "MAX_THREAD", line.val)
      <3>1. \A x : Get(p1, x) = IF x = "MAX_THREAD" THEN line.val ELSE Get(p, x)
        BY AssignFacts
      <3>2. q = Assign(p1, "thread_flag", TRUE)
        BY <2>1
      <3> HIDE DEF p1
      <3>3. \A x : Get(q, x) = IF x = "thread_flag" THEN TRUE ELSE Get(p1, x)
        BY <3>2 DEF Get, Set, Assign
      <3> QED BY <3>1, <3>3
    <2>3. Numbers(p) /\ Get(p, "GWTW_flag") = Get(o, "GWTW_flag")
      BY <1>1, KeptMeans
    <2>4. Numbers(q) /\ Get(q, "GWTW_flag") = Get(o, "GWTW_flag")
      BY <1>2, <2>2, <2>3 DEF Numbers
    <2> QED BY <1>1, <1>2, <2>4, KeptMeans DEF r
  <1>3. CASE line.key # ThreadKey
    <2>1. q = p
      BY <1>3, ThreadsCases
    <2> HIDE DEF q, r
    <2>2. Kept(o, r)
      BY <1>1, <2>1, KeptFacts
    <2> QED BY <2>2, KeptMeans DEF r
  <1> QED BY <1>2, <1>3

-----------------------------------------------------------------------------
(* The other steps up to a loaded design leave these settings alone.       *)

LEMMA ExtendedKeeps == \A o : Kept(o, Set(o, Extended(o)))
  <1>1. \A o : DOMAIN Extended(o) = {"dontTouchInst", "dontUseCell", "dontTouchCell"}
    BY DEF Extended, ListFiles
  <1>2. {"dontTouchInst", "dontUseCell", "dontTouchCell"} \cap ThreadSettings = {}
    BY DEF ThreadSettings
  <1> QED BY <1>1, <1>2, SetKeeps

LEMMA ClearedKeeps == \A o : Kept(o, Set(o, EnvCleared))
  <1>1. DOMAIN EnvCleared \cap ThreadSettings = {}
    BY DEF EnvCleared, ThreadSettings
  <1> QED BY <1>1, SetKeeps

LEMMA CompletedKeeps == \A o : Kept(o, Completed(o))
  <1> TAKE o
  <1> DEFINE new == [s \in DOMAIN Named \ DOMAIN o |-> Get(o, "benchname") \o Named[s]]
             named == Set(o, new)
             stepped == IF Get(o, "swapstep") = 0 THEN Assign(named, "swapstep", 10000) ELSE named
             viewed == IF Get(o, "mmmcOn") THEN stepped ELSE Assign(stepped, "mmmcFiles", <<>>)
             last == IF Get(o, "noSPEF") THEN Assign(viewed, "WIRE_METRIC", "ND") ELSE viewed
  <1>1. DOMAIN Named \cap ThreadSettings = {}
    BY DEF Named, ThreadSettings
  <1>2. DOMAIN new \cap ThreadSettings = {}
    BY <1>1
  <1> HIDE DEF new
  <1>3. Kept(o, named)
    BY <1>2, SetKeeps
  <1>4. \A p, val : /\ Kept(p, Assign(p, "swapstep", val)) /\ Kept(p, Assign(p, "mmmcFiles", val))
                     /\ Kept(p, Assign(p, "WIRE_METRIC", val))
    BY AssignKeeps DEF ThreadSettings
  <1> HIDE DEF named
  <1>5. Kept(named, stepped)
    BY <1>4, KeptFacts
  <1> HIDE DEF stepped
  <1>6. Kept(stepped, viewed)
    BY <1>4, KeptFacts, Zenon
  <1> HIDE DEF viewed
  <1>7. Kept(viewed, last)
    BY <1>4, KeptFacts, Zenon
  <1> HIDE DEF last
  <1>8. Kept(o, last)
    BY <1>3, <1>5, <1>6, <1>7, KeptFacts
  <1>9. Completed(o) = last
    BY DEF Completed, last, viewed, stepped, named, new
  <1> QED BY <1>8, <1>9

\* A step that reads no line of the command file.
LEMMA KeptStep ==
  ASSUME SplitInv, Kept(opt, opt'), file' = file, pc' = "cmd" => pc = "cmd" /\ n' = n
  PROVE  SplitInv'
  <1>1. /\ Numbers(opt') /\ (Fits(opt') <=> Fits(opt))
        /\ Get(opt', "GWTW_flag") = Get(opt, "GWTW_flag")
    BY KeptMeans DEF SplitInv
  <1>2. Flagged' = Flagged
    BY <1>1 DEF Flagged
  <1>3. Ordered' = Ordered /\ \A j : SplitLine(j)' = SplitLine(j)
    BY DEF Ordered, SplitLine
  <1>4. Flagged' /\ Ordered' => Fits(opt')
    BY <1>1, <1>2, <1>3 DEF SplitInv
  <1>5. pc' = "cmd" => n' \in 0 .. Len(file') /\ (Flagged' => \E j \in 1 .. n' : SplitLine(j)')
    BY <1>2, <1>3 DEF SplitInv
  <1>6. \A i \in 1 .. Len(file') : file'[i].key \in {DivKey, NumKey, ThreadKey} => file'[i].val \in Nat
    BY DEF SplitInv
  <1>7. Len(file') \in Nat
    BY DEF SplitInv
  <1> QED BY <1>1, <1>4, <1>5, <1>6, <1>7 DEF SplitInv

LEMMA ReadCmdSplit == SplitInv /\ ReadCmd => SplitInv'
  <1> SUFFICES ASSUME SplitInv, ReadCmd PROVE SplitInv'
    OBVIOUS
  <1> DEFINE line == file[n + 1]
  <1>1. /\ pc = "cmd" /\ n < Len(file) /\ file' = file
        /\ \/ Stop("exit")
           \/ Stop("crash")
           \/ ~DividesByZero(opt, line) /\ opt' = Turned(opt, line) /\ n' = n + 1 /\ pc' = pc
    BY Zenon DEF ReadCmd, Turned
  <1>2. CASE Stop("exit") \/ Stop("crash")
    BY <1>1, <1>2, KeptStep, KeptFacts DEF Stop
  <1>3. CASE ~DividesByZero(opt, line) /\ opt' = Turned(opt, line) /\ n' = n + 1 /\ pc' = pc
    <2> DEFINE m == n + 1
    <2>1. /\ Len(file) \in Nat /\ n \in 0 .. Len(file) /\ m \in 1 .. Len(file) /\ n' = m /\ m = n + 1
          /\ Numbers(opt)
      BY <1>1, <1>3 DEF SplitInv
    <2>2. line = file[m]
      OBVIOUS
    <2> HIDE DEF m, line
    <2>3. line.key \in {DivKey, NumKey, ThreadKey} => line.val \in Nat
      BY <2>1, <2>2 DEF SplitInv
    <2>4. Ordered' = Ordered /\ \A j : SplitLine(j)' = SplitLine(j)
      BY <1>1 DEF Ordered, SplitLine
    <2>5. CASE line.key \in {DivKey, NumKey}
      <3>1. Numbers(opt') /\ Fits(opt')
        BY <1>3, <2>1, <2>3, <2>5, SplitTurn
      <3>2. SplitLine(m) /\ m \in 1 .. n'
        BY <2>1, <2>2, <2>5 DEF SplitLine
      <3> QED BY <1>1, <1>3, <2>1, <2>4, <3>1, <3>2 DEF SplitInv
    <2>6. CASE line.key \notin {DivKey, NumKey}
      <3>1. /\ Numbers(opt') /\ Get(opt', "GWTW_flag") = Get(opt, "GWTW_flag")
            /\ line.key # ThreadKey => (Fits(opt') <=> Fits(opt))
        BY <1>3, <2>1, <2>3, <2>6, OtherTurn
      <3>2. Flagged' = Flagged
        BY <3>1 DEF Flagged
      <3>3. Flagged => \E j \in 1 .. n : SplitLine(j)
        BY <1>1 DEF SplitInv
      <3>4. line.key = ThreadKey /\ Flagged => ~Ordered
        BY <2>1, <2>2, <3>3 DEF Ordered
      <3>5. Flagged' => \E j \in 1 .. n' : SplitLine(j)'
        BY <2>1, <2>4, <3>2, <3>3
      <3>6. Flagged' /\ Ordered' => Fits(opt')
        BY <2>4, <3>1, <3>2, <3>4 DEF SplitInv
      <3> QED BY <1>1, <1>3, <2>1, <3>1, <3>5, <3>6 DEF SplitInv
    <2> QED BY <2>5, <2>6
  <1> QED BY <1>1, <1>2, <1>3

LEMMA EndCmdSplit == SplitInv /\ EndCmd => SplitInv'
  <1> SUFFICES ASSUME SplitInv, EndCmd PROVE SplitInv'
    OBVIOUS
  <1> DEFINE longer == Set(opt, Extended(opt))
             done == Completed(longer)
  <1>1. /\ file' = file
        /\ Stop("exit") \/ (opt' = Set(done, EnvCleared) /\ pc' = "env")
    BY Zenon DEF EndCmd
  <1>2. CASE Stop("exit")
    BY <1>1, <1>2, KeptStep, KeptFacts DEF Stop
  <1>3. CASE opt' = Set(done, EnvCleared) /\ pc' = "env"
    <2>1. Kept(opt, longer) /\ Kept(longer, done) /\ Kept(done, Set(done, EnvCleared))
      BY ExtendedKeeps, CompletedKeeps, ClearedKeeps
    <2> HIDE DEF longer, done
    <2>2. Kept(opt, opt')
      BY <1>3, <2>1, KeptFacts
    <2> QED BY <1>1, <1>3, <2>2, KeptStep
  <1> QED BY <1>1, <1>2, <1>3

LEMMA ReadEnvSplit == SplitInv /\ ReadEnv => SplitInv'
  <1> SUFFICES ASSUME SplitInv, ReadEnv PROVE SplitInv'
    OBVIOUS
  <1> DEFINE line == envFile[n + 1]
             found == {t \in EnvOptions : Finds(line, t.key)}
             new == [s \in {t.var : t \in found} |-> Assigned(opt, CHOOSE t \in found : t.var = s, line)]
  <1>1. /\ pc = "env" /\ file' = file
        /\ Stop("exit") \/ (opt' = Set(opt, new) /\ pc' = pc)
    BY Zenon DEF ReadEnv
  <1>2. CASE Stop("exit")
    BY <1>1, <1>2, KeptStep, KeptFacts DEF Stop
  <1>3. CASE opt' = Set(opt, new) /\ pc' = pc
    <2>1. Spare(found)
      BY OptionsSpare DEF Spare
    <2> HIDE DEF found
    <2>2. DOMAIN new \cap ThreadSettings = {}
      BY <2>1 DEF Spare
    <2> HIDE DEF new
    <2>3. Kept(opt, opt')
      BY <1>3, <2>2, SetKeeps
    <2> QED BY <1>1, <1>3, <2>3, KeptStep
  <1> QED BY <1>1, <1>2, <1>3

LEMMA ViewSplit == SplitInv /\ (EndEnv \/ ReadView \/ EndViews \/ SingleMode) => SplitInv'
  <1> SUFFICES ASSUME SplitInv PROVE EndEnv \/ ReadView \/ EndViews \/ SingleMode => SplitInv'
    OBVIOUS
  <1>1. CASE EndEnv
    BY <1>1, KeptStep, KeptFacts DEF EndEnv
  <1>2. CASE ReadView
    <2>1. opt' = opt /\ file' = file /\ pc' \in {"mmmc", "exit"}
      BY <1>2 DEF ReadView, Stop
    <2> QED BY <2>1, KeptStep, KeptFacts
  <1>3. ASSUME NEW new, DOMAIN new = {"numCorners", "numModes"}, opt' = Set(opt, new),
               file' = file, pc' = "parse"
        PROVE  SplitInv'
    <2>1. DOMAIN new \cap ThreadSettings = {}
      BY <1>3 DEF ThreadSettings
    <2> QED BY <1>3, <2>1, SetKeeps, KeptStep
  <1>4. CASE EndViews
    BY <1>3, <1>4 DEF EndViews
  <1>5. CASE SingleMode
    BY <1>3, <1>5 DEF SingleMode
  <1> QED BY <1>1, <1>2, <1>4, <1>5

LEMMA LoadSplit ==
  SplitInv /\ (\/ LibNext \/ ReadGates \/ ReadNet \/ EndNets \/ AssignCell \/ EndCells
               \/ ReadSpefNet \/ LinkSinks) => SplitInv'
  <1> SUFFICES ASSUME SplitInv
               PROVE  (\/ LibNext \/ ReadGates \/ ReadNet \/ EndNets \/ AssignCell \/ EndCells
                       \/ ReadSpefNet \/ LinkSinks) => SplitInv'
    OBVIOUS
  <1>1. ASSUME opt' = opt, file' = file, pc' # "cmd" \/ (pc' = pc /\ n' = n) PROVE SplitInv'
    BY <1>1, KeptStep, KeptFacts
  <1>2. CASE StartLibs BY <1>1, <1>2 DEF StartLibs
  <1>3. CASE ReadLib
    <2>1. file' = file /\ pc' = pc /\ n' = n /\ opt' \in {opt, Set(opt, Ics55)}
      BY <1>3 DEF ReadLib
    <2>2. DOMAIN Ics55 \cap ThreadSettings = {}
      BY DEF Ics55, ThreadSettings
    <2>3. Kept(opt, opt')
      BY <2>1, <2>2, SetKeeps, KeptFacts
    <2> QED BY <2>1, <2>3, KeptStep
  <1>4. CASE NextCorner BY <1>1, <1>4 DEF NextCorner
  <1>5. CASE MakeTable BY <1>1, <1>5 DEF MakeTable, cmdVars
  <1>6. CASE NextTables BY <1>1, <1>6 DEF NextTables
  <1>7. CASE ReadGates BY <1>1, <1>7 DEF ReadGates, fileVars
  <1>8. CASE ReadNet BY <1>1, <1>8 DEF ReadNet, cmdVars
  <1>9. CASE EndNets
    <2> DEFINE seq == FoldSet(LAMBDA k, s : s \o SelectSeq(cands[1][k], LAMBDA c : CellDb[c].sequential),
                              <<>>, Classes)
    <2>1. /\ file' = file /\ pc' = "tables"
          /\ opt' = Assign(opt, "dontTouchCell", Get(opt, "dontTouchCell") \o seq)
      BY <1>9, Zenon DEF EndNets, fileVars
    <2> HIDE DEF seq
    <2>2. "dontTouchCell" \notin ThreadSettings
      BY DEF ThreadSettings
    <2>3. Kept(opt, opt')
      BY <2>1, <2>2, AssignKeeps
    <2> QED BY <2>1, <2>3, KeptStep
  <1>10. CASE AssignCell BY <1>1, <1>10 DEF AssignCell, cmdVars
  <1>11. CASE EndCells BY <1>1, <1>11 DEF EndCells, fileVars
  <1>12. CASE ReadSpefNet BY <1>1, <1>12 DEF ReadSpefNet, cmdVars
  <1>13. CASE LinkSinks BY <1>1, <1>13 DEF LinkSinks, fileVars
  <1> QED BY <1>2, <1>3, <1>4, <1>5, <1>6, <1>7, <1>8, <1>9, <1>10, <1>11, <1>12, <1>13 DEF LibNext

LEMMA SplitStep == SplitInv /\ [Next]_<<cmdVars, libVars, desVars>> => SplitInv'
  <1>1. SplitInv /\ UNCHANGED <<cmdVars, libVars, desVars>> => SplitInv'
    BY KeptStep, KeptFacts DEF cmdVars
  <1> QED BY <1>1, ReadCmdSplit, EndCmdSplit, ReadEnvSplit, ViewSplit, LoadSplit DEF Next, CmdNext

(* The threads are split into as many starts of as many threads as there   *)
(* are, whatever the command file: readCmdFile divides what there is, no   *)
(* other option writes one of the three numbers, and a later -thread is    *)
(* what the property excludes.                                             *)
THEOREM SplitFitsThreads == Spec => []ThreadsSplit
  <1>1. Spec => []SplitInv
    BY SplitStarts, SplitStep, PTL DEF Spec
  <1>2. SplitInv => ThreadsSplit
    BY ThreadsSplitIs DEF SplitInv
  <1> QED BY <1>1, <1>2, PTL

-----------------------------------------------------------------------------
(* ViewsFit: the lists of the views grow together, a mode is made with the *)
(* SDC that is its own, and nothing but a file of a view makes either.     *)

List(s, k) == k \in Nat /\ s = [i \in 1 .. k |-> s[i]]

LEMMA ListFacts ==
  ASSUME NEW s, NEW k, List(s, k)
  PROVE  Len(s) = k /\ DOMAIN s = 1 .. k /\ k \in Nat
  BY DEF List

LEMMA EmptyList == List(<< >>, 0)
  BY DEF List

Longer(s, t, k, x) ==
  /\ List(t, k + 1)
  /\ \A i \in 1 .. k : t[i] = s[i]
  /\ t[k + 1] = x

LEMMA AppendLonger ==
  ASSUME NEW s, NEW k, List(s, k), NEW x
  PROVE  Longer(s, Append(s, x), k, x)
  <1> DEFINE S == {s[i] : i \in 1 .. k} \cup {x}
             t == Append(s, x)
  <1>1. k \in Nat /\ Len(s) = k
    BY ListFacts
  <1>2. s \in Seq(S)
    <2>1. [i \in 1 .. k |-> s[i]] \in [1 .. k -> S]
      OBVIOUS
    <2>2. s \in [1 .. k -> S]
      BY <2>1 DEF List
    <2> QED BY <1>1, <2>2
  <1>3. x \in S
    OBVIOUS
  <1> HIDE DEF S
  <1>4. /\ t \in Seq(S) /\ Len(t) = k + 1
        /\ \A i \in 1 .. k : t[i] = s[i]
        /\ t[k + 1] = x
    BY <1>1, <1>2, <1>3, AppendProperties
  <1> HIDE DEF t
  <1>5. t = [i \in 1 .. (k + 1) |-> t[i]]
    BY <1>1, <1>4
  <1> QED BY <1>1, <1>4, <1>5 DEF Longer, List, t

Fields == {"views", "libs", "spefs", "sdcs", "weight", "slack", "tns", "tran", "score"}

NoViews ==
  [views |-> <<>>, libs |-> <<>>, spefs |-> <<>>, sdcs |-> <<>>, weight |-> <<>>,
   slack |-> <<>>, tns |-> <<>>, tran |-> <<>>, score |-> <<>>]

\* The file of the i-th view.
FileOf(i) == ViewFiles[Get(opt, "mmmcFiles")[i]]
Modes == Len(view.sdcs)

\* k views were read.
Lengths(k) ==
  /\ List(view.views, k) /\ List(view.spefs, k) /\ List(view.weight, k)
  /\ List(view.slack, k) /\ List(view.tns, k)
  /\ List(view.sdcs, Modes)
  /\ view.score = <<>>
Apart == \A a, b \in 1 .. Modes : view.sdcs[a] = view.sdcs[b] => a = b
FromFile(i) ==
  /\ view.views[i].corner = i
  /\ view.views[i].mode \in 1 .. Modes
  /\ view.sdcs[view.views[i].mode] = FileOf(i).sdc
  /\ view.spefs[i] = FileOf(i).spef
ViewsRead(k) == DOMAIN view = Fields /\ Lengths(k) /\ Apart /\ \A i \in 1 .. k : FromFile(i)

ViewInv ==
  /\ pc \in {"cmd", "env"} => view = NoViews
  /\ pc = "single" => view = NoViews /\ ~Get(opt, "mmmcOn")
  /\ pc = "mmmc" => Get(opt, "mmmcOn") /\ ViewsRead(n)
  /\ ViewsFit

LEMMA NoViewsRead == view = NoViews => ViewsRead(0)
  <1> SUFFICES ASSUME view = NoViews PROVE ViewsRead(0)
    OBVIOUS
  <1>1. /\ view.views = <<>> /\ view.spefs = <<>> /\ view.weight = <<>> /\ view.slack = <<>>
        /\ view.tns = <<>> /\ view.sdcs = <<>> /\ view.score = <<>> /\ DOMAIN view = Fields
    BY DEF NoViews, Fields
  <1>2. Modes = 0
    BY <1>1 DEF Modes
  <1> QED BY <1>1, <1>2, EmptyList DEF ViewsRead, Lengths, Apart

LEMMA ViewStarts == Init => ViewInv
  BY DEF Init, CmdInit, ViewInv, ViewsFit, NoViews

LEMMA ModeFacts ==
  ASSUME NEW s, NEW k, List(s, k), NEW x
  PROVE  /\ ModeOf(s, x) \in 1 .. (k + 1)
         /\ ModeOf(s, x) <= k => s[ModeOf(s, x)] = x
         /\ ModeOf(s, x) = k + 1 => \A i \in 1 .. k : s[i] # x
  <1>1. Len(s) = k /\ DOMAIN s = 1 .. k /\ k \in Nat
    BY ListFacts
  <1>2. CASE \E i \in DOMAIN s : s[i] = x
    <2> DEFINE c == CHOOSE i \in DOMAIN s : s[i] = x
    <2>1. c \in DOMAIN s /\ s[c] = x
      BY <1>2
    <2>2. ModeOf(s, x) = c
      BY <1>2 DEF ModeOf
    <2> HIDE DEF c
    <2> QED BY <1>1, <2>1, <2>2
  <1>3. CASE ~\E i \in DOMAIN s : s[i] = x
    BY <1>1, <1>3 DEF ModeOf
  <1> QED BY <1>2, <1>3

\* The modes after one more file: those before it, and its own.
Grown(s, t, m, x, mode) ==
  \E k \in Nat :
    /\ List(t, k) /\ m <= k /\ Len(t) = k
    /\ \A a \in 1 .. m : t[a] = s[a]
    /\ mode \in 1 .. k /\ t[mode] = x
    /\ \A a, b \in 1 .. k : t[a] = t[b] => a = b

LEMMA ModesGrow ==
  ASSUME NEW s, NEW m, List(s, m), NEW x, \A a, b \in 1 .. m : s[a] = s[b] => a = b
  PROVE  Grown(s, IF ModeOf(s, x) > Len(s) THEN Append(s, x) ELSE s, m, x, ModeOf(s, x))
  <1> DEFINE mode == ModeOf(s, x)
             t == IF mode > Len(s) THEN Append(s, x) ELSE s
  <1>1. Len(s) = m /\ m \in Nat
    BY ListFacts
  <1>2. /\ mode \in 1 .. (m + 1)
        /\ mode <= m => s[mode] = x
        /\ mode = m + 1 => \A i \in 1 .. m : s[i] # x
    BY ModeFacts
  <1> HIDE DEF mode
  <1>3. CASE mode <= m
    <2>1. t = s
      BY <1>1, <1>2, <1>3
    <2> QED BY <1>1, <1>2, <1>3, <2>1 DEF Grown, mode
  <1>4. CASE mode = m + 1
    <2>1. t = Append(s, x)
      BY <1>1, <1>4
    <2>2. Longer(s, t, m, x)
      BY <2>1, AppendLonger
    <2> HIDE DEF t
    <2>3. List(t, m + 1) /\ (\A i \in 1 .. m : t[i] = s[i]) /\ t[m + 1] = x
      BY <2>2 DEF Longer
    <2>4. Len(t) = m + 1
      BY <2>3, ListFacts
    <2>5. ASSUME NEW a \in 1 .. (m + 1), NEW b \in 1 .. (m + 1), t[a] = t[b] PROVE a = b
      <3>1. a \in 1 .. m \/ a = m + 1
        BY <1>1
      <3>2. b \in 1 .. m \/ b = m + 1
        BY <1>1
      <3>3. \A i \in 1 .. m : t[i] # x
        BY <1>2, <1>4, <2>3
      <3>4. a \in 1 .. m /\ b \in 1 .. m => a = b
        BY <2>3, <2>5
      <3> QED BY <2>3, <2>5, <3>1, <3>2, <3>3, <3>4
    <2>6. Grown(s, t, m, x, mode)
      BY <1>1, <1>4, <2>3, <2>4, <2>5 DEF Grown
    <2> QED BY <2>6 DEF t, mode
  <1> QED BY <1>1, <1>2, <1>3, <1>4

LEMMA ReadViewFits == ViewInv /\ ReadView => ViewInv'
  <1> SUFFICES ASSUME ViewInv, ReadView PROVE ViewInv'
    OBVIOUS
  <1> DEFINE f == FileOf(n + 1)
             mode == ModeOf(view.sdcs, f.sdc)
             corner == Len(view.spefs) + 1
  <1>1. /\ pc = "mmmc" /\ ViewsRead(n) /\ Get(opt, "mmmcOn")
        /\ \/ Stop("exit")
           \/ /\ view' = [view EXCEPT
                   !.views = Append(@, [corner |-> corner, mode |-> mode]),
                   !.libs = Append(@, f.libs), !.spefs = Append(@, f.spef),
                   !.sdcs = IF mode > Len(@) THEN Append(@, f.sdc) ELSE @,
                   !.weight = Append(@, f.weight),
                   !.slack = Append(@, Given(f.slack, Get(opt, "slack_margin"))),
                   !.tns = Append(@, Given(f.iso, Get(opt, "ISO_TNS"))),
                   !.tran = Append(@, f.tran)]
              /\ n' = n + 1 /\ UNCHANGED <<pc, opt>>
    BY Zenon DEF ReadView, ViewInv, FileOf
  <1>2. CASE Stop("exit")
    BY <1>2 DEF Stop, ViewInv, ViewsFit
  <1>3. CASE ~Stop("exit")
    <2> DEFINE new == [corner |-> corner, mode |-> mode]
               slk == Given(f.slack, Get(opt, "slack_margin"))
               iso == Given(f.iso, Get(opt, "ISO_TNS"))
    <2>1. /\ DOMAIN view = Fields /\ Lengths(n) /\ Apart /\ (\A i \in 1 .. n : FromFile(i))
          /\ n \in Nat /\ corner = n + 1
      BY <1>1, ListFacts DEF ViewsRead, Lengths
    <2>2. new.corner = corner /\ new.mode = mode
      OBVIOUS
    <2> HIDE DEF f, mode, corner, new, slk, iso
    <2>3. /\ n' = n + 1 /\ pc' = pc /\ opt' = opt /\ DOMAIN view' = Fields
          /\ view'.views = Append(view.views, new) /\ view'.spefs = Append(view.spefs, f.spef)
          /\ view'.sdcs = IF mode > Len(view.sdcs) THEN Append(view.sdcs, f.sdc) ELSE view.sdcs
          /\ view'.weight = Append(view.weight, f.weight)
          /\ view'.slack = Append(view.slack, slk)
          /\ view'.tns = Append(view.tns, iso)
          /\ view'.score = view.score
      BY <1>1, <1>3, <2>1 DEF Fields, new, slk, iso
    <2>4. /\ Longer(view.views, view'.views, n, new) /\ Longer(view.spefs, view'.spefs, n, f.spef)
          /\ Longer(view.weight, view'.weight, n, f.weight)
          /\ Longer(view.slack, view'.slack, n, slk) /\ Longer(view.tns, view'.tns, n, iso)
      BY <2>1, <2>3, AppendLonger DEF Lengths
    <2>5. Grown(view.sdcs, view'.sdcs, Modes, f.sdc, mode)
      BY <2>1, <2>3, ModesGrow DEF Lengths, Apart, mode
    <2>6. PICK k \in Nat :
            /\ List(view'.sdcs, k) /\ Modes <= k /\ Len(view'.sdcs) = k
            /\ \A a \in 1 .. Modes : view'.sdcs[a] = view.sdcs[a]
            /\ mode \in 1 .. k /\ view'.sdcs[mode] = f.sdc
            /\ \A a, b \in 1 .. k : view'.sdcs[a] = view'.sdcs[b] => a = b
      BY <2>5 DEF Grown
    <2>7. Modes' = k /\ Modes \in Nat /\ Modes <= k
      BY <2>1, <2>6, ListFacts DEF Modes, Lengths
    <2>8. Lengths(n)'
      BY <2>1, <2>3, <2>4, <2>6, <2>7 DEF Lengths, Longer
    <2>9. Apart'
      BY <2>6, <2>7 DEF Apart
    <2>10. ASSUME NEW i \in 1 .. n' PROVE FromFile(i)'
      <3>1. FileOf(i)' = FileOf(i)
        BY <2>3 DEF FileOf
      <3>2. CASE i \in 1 .. n
        <4>1. view'.views[i] = view.views[i] /\ view'.spefs[i] = view.spefs[i]
          BY <2>4, <3>2 DEF Longer
        <4>2. FromFile(i)
          BY <2>1, <3>2
        <4>3. view'.views[i].mode \in 1 .. k
          BY <2>7, <4>1, <4>2 DEF FromFile
        <4>4. view'.sdcs[view'.views[i].mode] = FileOf(i).sdc
          BY <2>6, <4>1, <4>2 DEF FromFile
        <4> QED BY <2>7, <3>1, <4>1, <4>2, <4>3, <4>4 DEF FromFile
      <3>3. CASE i = n + 1
        <4>1. view'.views[i] = new /\ view'.spefs[i] = f.spef
          BY <2>4, <3>3 DEF Longer
        <4>2. FileOf(i) = f
          BY <3>3 DEF f
        <4> QED BY <2>1, <2>2, <2>6, <2>7, <3>1, <3>3, <4>1, <4>2 DEF FromFile
      <3> QED BY <2>1, <2>3, <3>2, <3>3
    <2>11. ViewsRead(n)'
      BY <2>3, <2>8, <2>9, <2>10 DEF ViewsRead
    <2> QED BY <1>1, <2>3, <2>11 DEF ViewInv, ViewsFit
  <1> QED BY <1>2, <1>3

LEMMA EndViewsFits == ViewInv /\ EndViews => ViewInv'
  <1> SUFFICES ASSUME ViewInv, EndViews PROVE ViewInv'
    OBVIOUS
  <1> DEFINE w == IF \A i \in DOMAIN view.weight : view.weight[i] = 0
                  THEN [i \in DOMAIN view.weight |-> 1] ELSE view.weight
             new == [numCorners |-> Len(view.spefs), numModes |-> Len(view.sdcs)]
  <1>1. /\ pc = "mmmc" /\ ViewsRead(n) /\ Get(opt, "mmmcOn")
        /\ view' = [view EXCEPT !.weight = w] /\ opt' = Set(opt, new) /\ pc' = "parse"
    BY Zenon DEF EndViews, ViewInv
  <1>2. /\ DOMAIN view = Fields /\ Lengths(n) /\ (\A i \in 1 .. n : FromFile(i)) /\ Apart
        /\ n \in Nat /\ Len(view.views) = n /\ DOMAIN view.views = 1 .. n
        /\ Len(view.spefs) = n /\ Len(view.slack) = n /\ Len(view.tns) = n
        /\ Len(view.weight) = n /\ DOMAIN view.weight = 1 .. n
    BY <1>1, ListFacts DEF ViewsRead, Lengths
  <1>3. DOMAIN w = 1 .. n /\ Len(w) = n /\ (n # 0 => \E i \in 1 .. n : w[i] # 0)
    BY <1>2
  <1> HIDE DEF w
  <1>4. /\ view'.views = view.views /\ view'.spefs = view.spefs /\ view'.sdcs = view.sdcs
        /\ view'.weight = w /\ view'.slack = view.slack /\ view'.tns = view.tns
        /\ view'.score = view.score
    BY <1>1, <1>2 DEF Fields
  <1>5. DOMAIN new = {"numCorners", "numModes"} /\ new["numCorners"] = n /\ new["numModes"] = Modes
    BY <1>2 DEF Modes
  <1> HIDE DEF new
  <1>6. /\ Get(opt', "numCorners") = n /\ Get(opt', "numModes") = Modes
        /\ Get(opt', "mmmcFiles") = Get(opt, "mmmcFiles") /\ Get(opt', "mmmcOn") = Get(opt, "mmmcOn")
    BY <1>1, <1>5, SetFacts
  <1>7. ASSUME NEW i \in 1 .. n
        PROVE  /\ view'.views[i].corner \in 1 .. Get(opt', "numCorners")
               /\ view'.views[i].mode \in 1 .. Get(opt', "numModes")
               /\ \A j \in 1 .. n : view'.views[i].corner = view'.views[j].corner => i = j
    BY <1>2, <1>4, <1>6 DEF FromFile
  <1>8. ASSUME NEW i \in 1 .. n
        PROVE  /\ view'.sdcs[view'.views[i].mode] = FileOf(i)'.sdc
               /\ view'.spefs[view'.views[i].corner] = FileOf(i)'.spef
               /\ \A j \in 1 .. n :
                    (view'.views[i].mode = view'.views[j].mode) <=> (FileOf(i)'.sdc = FileOf(j)'.sdc)
    <2>1. \A j \in 1 .. n : FileOf(j)' = FileOf(j)
      BY <1>6 DEF FileOf
    <2>2. \A j \in 1 .. n : /\ view.views[j].mode \in 1 .. Modes
                            /\ view.sdcs[view.views[j].mode] = FileOf(j).sdc
      BY <1>2 DEF FromFile
    <2>3. view.views[i].corner = i /\ view.spefs[i] = FileOf(i).spef
      BY <1>2 DEF FromFile
    <2>4. ASSUME NEW j \in 1 .. n
          PROVE  (view.views[i].mode = view.views[j].mode) <=> (FileOf(i).sdc = FileOf(j).sdc)
      BY <1>2, <2>2 DEF Apart
    <2> QED BY <1>4, <2>1, <2>2, <2>3, <2>4
  <1>9. \A l \in {"weight", "slack", "tns"} : Len(view'[l]) = n
    BY <1>2, <1>3, <1>4
  <1>10. view'.views # <<>> => \E i \in 1 .. n : view'.weight[i] # 0
    BY <1>2, <1>3, <1>4, EmptyList, ListFacts
  <1>11. Len(view'.score) = 0
    BY <1>2, <1>4 DEF Lengths
  <1>12. ViewsFit'
    <2>1. DOMAIN view'.views = 1 .. n /\ Len(view'.views) = n
      BY <1>2, <1>4
    <2>2. \A i \in DOMAIN view'.views :
            /\ view'.views[i].corner \in 1 .. Get(opt', "numCorners")
            /\ view'.views[i].mode \in 1 .. Get(opt', "numModes")
            /\ \A j \in DOMAIN view'.views : view'.views[i].corner = view'.views[j].corner => i = j
      BY <1>7, <2>1
    <2>3. \A i \in DOMAIN view'.views :
            LET f == ViewFiles[Get(opt', "mmmcFiles")[i]]
            IN /\ view'.sdcs[view'.views[i].mode] = f.sdc /\ view'.spefs[view'.views[i].corner] = f.spef
               /\ \A j \in DOMAIN view'.views :
                    (view'.views[i].mode = view'.views[j].mode)
                      <=> (f.sdc = ViewFiles[Get(opt', "mmmcFiles")[j]].sdc)
      BY <1>8, <2>1 DEF FileOf
    <2>4. \A l \in {"weight", "slack", "tns"} : Len(view'[l]) = Len(view'.views)
      BY <1>9, <2>1
    <2>5. view'.views # <<>> => \E i \in DOMAIN view'.views : view'.weight[i] # 0
      BY <1>10, <2>1
    <2>6. Len(view'.score) = IF Get(opt', "mmmcOn") THEN 0 ELSE Len(view'.views)
      BY <1>1, <1>6, <1>11
    <2> QED BY <2>2, <2>3, <2>4, <2>5, <2>6, Zenon DEF ViewsFit
  <1> QED BY <1>1, <1>12 DEF ViewInv

LEMMA SingleModeFits == ViewInv /\ SingleMode => ViewInv'
  <1> SUFFICES ASSUME ViewInv, SingleMode PROVE ViewInv'
    OBVIOUS
  <1> DEFINE slk == Get(opt, "slack_margin")
             new == [numCorners |-> 1, numModes |-> 1]
  <1>1. /\ pc = "single" /\ view = NoViews /\ ~Get(opt, "mmmcOn") /\ pc' = "parse"
        /\ view' = [view EXCEPT
             !.views = <<[corner |-> 1, mode |-> 1]>>, !.weight = <<1>>,
             !.slack = <<slk>>, !.tns = <<0>>, !.score = <<0>>]
        /\ opt' = Set(opt, new)
    BY DEF SingleMode, ViewInv
  <1> HIDE DEF slk
  <1>2. /\ view'.views = <<[corner |-> 1, mode |-> 1]>> /\ view'.weight = <<1>>
        /\ view'.slack = <<slk>> /\ view'.tns = <<0>> /\ view'.score = <<0>>
    BY <1>1 DEF NoViews
  <1>3. DOMAIN new = {"numCorners", "numModes"} /\ new["numCorners"] = 1 /\ new["numModes"] = 1
    OBVIOUS
  <1> HIDE DEF new
  <1>4. /\ Get(opt', "numCorners") = 1 /\ Get(opt', "numModes") = 1
        /\ Get(opt', "mmmcOn") = Get(opt, "mmmcOn")
    BY <1>1, <1>3, SetFacts
  <1>5. /\ DOMAIN view'.views = {1} /\ Len(view'.views) = 1
        /\ view'.views[1].corner = 1 /\ view'.views[1].mode = 1
    BY <1>2
  <1>6. \A l \in {"weight", "slack", "tns"} : Len(view'[l]) = 1
    BY <1>2
  <1>7. view'.weight[1] # 0 /\ Len(view'.score) = 1
    BY <1>2
  <1>8. ViewsFit'
    BY <1>1, <1>4, <1>5, <1>6, <1>7 DEF ViewsFit
  <1> QED BY <1>1, <1>8 DEF ViewInv

\* A step that reads no file and sets up no view.
LEMMA ViewsStay ==
  ViewInv /\ view' = view /\ opt' = opt /\ n' = n /\ pc' = pc => ViewInv'
  BY DEF ViewInv, ViewsFit, ViewsRead, Lengths, Apart, FromFile, FileOf, Modes

Setup == {"cmd", "env", "single", "mmmc", "parse"}

LEMMA ViewStep == ViewInv /\ [Next]_<<cmdVars, libVars, desVars>> => ViewInv'
  <1> SUFFICES ASSUME ViewInv, [Next]_<<cmdVars, libVars, desVars>> PROVE ViewInv'
    OBVIOUS
  <1>1. pc' \notin Setup => ViewInv'
    BY DEF ViewInv, ViewsFit, Setup
  <1>2. CASE UNCHANGED <<cmdVars, libVars, desVars>>
    BY <1>2, ViewsStay DEF cmdVars
  <1>3. CASE ReadCmd
    <2>1. pc = "cmd" /\ view' = view /\ pc' \in {"cmd", "exit", "crash"}
      BY <1>3, Zenon DEF ReadCmd, Stop
    <2> QED BY <2>1 DEF ViewInv, ViewsFit
  <1>4. CASE EndCmd
    <2>1. pc = "cmd" /\ view' = view /\ pc' \in {"env", "exit"}
      BY <1>4, Zenon DEF EndCmd, Stop
    <2> QED BY <2>1 DEF ViewInv, ViewsFit
  <1>5. CASE ReadEnv
    <2>1. pc = "env" /\ view' = view /\ pc' \in {"env", "exit"}
      BY <1>5, Zenon DEF ReadEnv, Stop
    <2> QED BY <2>1 DEF ViewInv, ViewsFit
  <1>6. CASE EndEnv
    <2>1. /\ pc = "env" /\ view' = view /\ opt' = opt /\ n' = 0
          /\ pc' = IF Get(opt, "mmmcOn") THEN "mmmc" ELSE "single"
      BY <1>6 DEF EndEnv
    <2>2. view = NoViews
      BY <2>1 DEF ViewInv
    <2>3. ViewsRead(0)'
      BY <2>1, <2>2, NoViewsRead
        DEF ViewsRead, Lengths, Apart, FromFile, Modes
    <2> QED BY <2>1, <2>2, <2>3 DEF ViewInv, ViewsFit
  <1>7. CASE LibNext
    <2>1. pc \notin Setup \/ pc = "parse"
      BY <1>7 DEF LibNext, StartLibs, ReadLib, NextCorner, MakeTable, NextTables, Setup
    <2>2. pc' \notin Setup
      BY <1>7 DEF LibNext, StartLibs, ReadLib, NextCorner, MakeTable, NextTables, Setup, cmdVars
    <2> QED BY <1>1, <2>2
  <1>8. CASE ReadGates \/ ReadNet \/ EndNets
    <2>1. pc' \notin Setup
      BY <1>8 DEF ReadGates, ReadNet, EndNets, Setup, cmdVars
    <2> QED BY <1>1, <2>1
  <1>9. CASE AssignCell \/ EndCells
    <2>1. pc' \notin Setup
      BY <1>9 DEF AssignCell, EndCells, Setup, cmdVars
    <2> QED BY <1>1, <2>1
  <1>10. CASE ReadSpefNet \/ LinkSinks
    <2>1. pc' \notin Setup
      BY <1>10 DEF ReadSpefNet, LinkSinks, Setup, cmdVars
    <2> QED BY <1>1, <2>1
  <1> QED BY <1>2, <1>3, <1>4, <1>5, <1>6, <1>7, <1>8, <1>9, <1>10,
             ReadViewFits, EndViewsFits, SingleModeFits DEF Next, CmdNext

(* The lists the views index fit, for any files and any number of views:   *)
(* a corner for each, one mode for each SDC, an entry in every list that a *)
(* view indexes, and a view that counts.                                   *)
THEOREM ViewsAlwaysFit == Spec => []ViewsFit
  <1>1. Spec => []ViewInv
    BY ViewStarts, ViewStep, PTL DEF Spec
  <1>2. ViewInv => ViewsFit
    BY DEF ViewInv
  <1> QED BY <1>1, <1>2, PTL
=============================================================================
