----------------------------- MODULE TimerProofs ------------------------------
(***************************************************************************)
(* The sizer's own timer on every netlist, from the order of its cells to  *)
(* the required times.  First SortTopo: both lists name every cell once,   *)
(* and keep the order the timers rely on.  Both passes are one: they       *)
(* remove cells from a queue and count down what their neighbours still    *)
(* wait for.  Then, without loops, what is computed along the lists: the   *)
(* path counts, and a full timing.  Neither reads anything before it is    *)
(* final, so one sweep on and one back give the numbers of paths, and one  *)
(* for the slews, one for the arrivals and one back for the required times *)
(* solve all equations of the timing.                                      *)
(* Last, the repairs on top of it: what times the design moves no cell, a  *)
(* move that is refused is taken back, and so the score the recovery       *)
(* compares is that of the cells it has.                                   *)
(***************************************************************************)
EXTENDS Repair, FiniteSetTheorems, SequenceTheorems, TLAPS


-----------------------------------------------------------------------------
(* Finite sets and minimal elements: induction without an induction rule.  *)

LEMMA CellsFinite == IsFiniteSet(Cells) /\ Cardinality(Cells) = N /\ N \in Nat
  <1>1. N \in Nat
    BY TopoAssumption
  <1>2. IsFiniteSet(1 .. N) /\ Cardinality(1 .. N) = IF 1 > N THEN 0 ELSE N - 1 + 1
    BY <1>1, FS_Interval
  <1> QED BY <1>1, <1>2 DEF Cells

LEMMA SubsetFinite ==
  ASSUME NEW S \in SUBSET Cells
  PROVE  /\ IsFiniteSet(S) /\ Cardinality(S) \in 0 .. N
         /\ \A T \in SUBSET S : /\ Cardinality(T) <= Cardinality(S)
                                /\ Cardinality(T) = Cardinality(S) => T = S
  <1>1. IsFiniteSet(S) /\ Cardinality(S) <= N
    BY CellsFinite, FS_Subset
  <1>2. Cardinality(S) \in Nat
    BY <1>1, FS_CardinalityType
  <1>3. \A T \in SUBSET S : /\ Cardinality(T) <= Cardinality(S)
                            /\ Cardinality(T) = Cardinality(S) => T = S
    BY <1>1, FS_Subset
  <1> QED BY <1>1, <1>2, <1>3, CellsFinite

LEMMA OneLess ==
  ASSUME NEW S \in SUBSET Cells, NEW x \in S
  PROVE  /\ S \ {x} \in SUBSET Cells
         /\ Cardinality(S \ {x}) = Cardinality(S) - 1
         /\ Cardinality(S) - 1 \in Nat
  <1>1. IsFiniteSet(S)
    BY SubsetFinite
  <1>2. Cardinality(S \ {x}) = Cardinality(S) - 1
    BY <1>1, FS_RemoveElement
  <1>3. Cardinality(S \ {x}) \in Nat
    BY SubsetFinite, CellsFinite
  <1> QED BY <1>2, <1>3

\* A set of numbers that is not empty has a least element.
LEMMA Least ==
  ASSUME NEW M \in SUBSET Nat, M # {}
  PROVE  \E m \in M : \A n \in M : m <= n
  <1>1. PICK m \in M : \A n \in M : ~ (<<n, m>> \in OpToRel(<, Nat))
    BY WFMin, NatLessThanWellFounded
  <1>2. \A n \in M : ~(n < m)
    BY <1>1 DEF OpToRel
  <1> QED BY <1>2

-----------------------------------------------------------------------------
(* Sums over sets of cells.                                                *)

Pick(S) == CHOOSE x \in S : TRUE

IsSums(f, sum, dom) ==
  sum = [S \in dom |-> IF S = {} THEN 0 ELSE f[Pick(S)] + sum[S \ {Pick(S)}]]

Sums(f) == CHOOSE sum : IsSums(f, sum, SUBSET Cells)

AtMost(n) == {S \in SUBSET Cells : Cardinality(S) <= n}

(* The recursion over sets defines a function: by the least number of      *)
(* elements for which it does not.                                         *)
LEMMA SumsExist ==
  ASSUME NEW f \in [Cells -> Nat]
  PROVE  IsSums(f, Sums(f), SUBSET Cells)
  <1> DEFINE Bad == {n \in Nat : ~ \E sum : IsSums(f, sum, AtMost(n))}
  <1>1. CASE Bad = {}
    <2>1. PICK sum : IsSums(f, sum, AtMost(N))
      BY <1>1, CellsFinite
    <2>2. AtMost(N) = SUBSET Cells
      BY SubsetFinite, CellsFinite DEF AtMost
    <2> QED BY <2>1, <2>2 DEF Sums
  <1>2. CASE Bad # {}
    <2>1. PICK n \in Bad : \A m \in Bad : n <= m
      BY <1>2, Least
    <2>2. ASSUME NEW S \in AtMost(n), S # {}
          PROVE  /\ Pick(S) \in S
                 /\ S \ {Pick(S)} \in SUBSET Cells
                 /\ Cardinality(S \ {Pick(S)}) = Cardinality(S) - 1
                 /\ Cardinality(S) \in 1 .. n
      <3>1. Pick(S) \in S
        BY <2>2 DEF Pick
      <3>2. S \in SUBSET Cells /\ IsFiniteSet(S) /\ Cardinality(S) \in 0 .. N
            /\ Cardinality(S) <= n
        BY SubsetFinite DEF AtMost
      <3>3. Cardinality(S \ {Pick(S)}) = Cardinality(S) - 1
        BY <3>1, <3>2, FS_RemoveElement
      <3>4. Cardinality(S \ {Pick(S)}) >= 0
        BY <3>2, SubsetFinite
      <3> QED BY <3>1, <3>2, <3>3, <3>4, CellsFinite
    <2>3. CASE n = 0
      <3>1. \A S \in AtMost(n) : S = {}
        BY <2>2, <2>3
      <3>2. IsSums(f, [S \in AtMost(n) |-> 0], AtMost(n))
        BY <3>1 DEF IsSums
      <3> QED BY <3>2
    <2>4. CASE n # 0
      <3>1. n - 1 \in Nat /\ n - 1 \notin Bad
        BY <2>1, <2>4
      <3>2. PICK g : IsSums(f, g, AtMost(n - 1))
        BY <3>1
      <3> DEFINE h == [S \in AtMost(n) |->
                         IF S = {} THEN 0 ELSE f[Pick(S)] + g[S \ {Pick(S)}]]
      <3>3. \A S \in AtMost(n - 1) : S \in AtMost(n) /\ h[S] = g[S]
        <4>1. \A S \in AtMost(n - 1) : S \in AtMost(n)
          BY <2>1, <3>1, SubsetFinite, CellsFinite DEF AtMost
        <4>2. \A S \in AtMost(n - 1) :
                g[S] = IF S = {} THEN 0 ELSE f[Pick(S)] + g[S \ {Pick(S)}]
          BY <3>2 DEF IsSums
        <4> QED BY <4>1, <4>2
      <3>4. \A S \in AtMost(n) : S # {} => S \ {Pick(S)} \in AtMost(n - 1)
        BY <2>1, <2>2 DEF AtMost
      <3>5. IsSums(f, h, AtMost(n))
        BY <3>3, <3>4 DEF IsSums
      <3> QED BY <3>5
    <2> QED BY <2>3, <2>4
  <1> QED BY <1>1, <1>2

LEMMA SumsStep ==
  ASSUME NEW f \in [Cells -> Nat]
  PROVE  /\ Sums(f)[{}] = 0
         /\ \A S \in SUBSET Cells :
              S # {} => /\ Pick(S) \in S
                        /\ Sums(f)[S] = f[Pick(S)] + Sums(f)[S \ {Pick(S)}]
  <1>1. \A S \in SUBSET Cells : S # {} => Pick(S) \in S
    BY DEF Pick
  <1> QED BY <1>1, SumsExist DEF IsSums

LEMMA SumsNat ==
  ASSUME NEW f \in [Cells -> Nat]
  PROVE  \A S \in SUBSET Cells : Sums(f)[S] \in Nat
  <1> DEFINE Bad == {n \in Nat : \E S \in SUBSET Cells : Cardinality(S) = n /\ Sums(f)[S] \notin Nat}
  <1>1. CASE Bad = {}
    <2>1. \A S \in SUBSET Cells : Cardinality(S) \in Nat
      BY SubsetFinite, CellsFinite
    <2> QED BY <1>1, <2>1
  <1>2. CASE Bad # {}
    <2>1. PICK n \in Bad : \A m \in Bad : n <= m
      BY <1>2, Least
    <2>2. PICK S \in SUBSET Cells : Cardinality(S) = n /\ Sums(f)[S] \notin Nat
      BY <2>1
    <2>3. S # {}
      <3>1. Sums(f)[{}] = 0
        BY SumsStep
      <3> QED BY <2>2, <3>1
    <2> DEFINE T == S \ {Pick(S)}
    <2>4. Pick(S) \in S /\ Sums(f)[S] = f[Pick(S)] + Sums(f)[T]
      BY <2>3, SumsStep
    <2>5. Cardinality(T) = n - 1 /\ n - 1 \in Nat
      BY <2>2, <2>4, OneLess
    <2>6. Sums(f)[T] \in Nat
      BY <2>1, <2>5
    <2> QED BY <2>2, <2>4, <2>6
  <1> QED BY <1>1, <1>2

(* A sum is the same whichever element is taken out first.                 *)
LEMMA SumsLaw ==
  ASSUME NEW f \in [Cells -> Nat]
  PROVE  \A S \in SUBSET Cells : \A x \in S : Sums(f)[S] = f[x] + Sums(f)[S \ {x}]
  <1> DEFINE Bad == {n \in Nat : \E S \in SUBSET Cells : \E x \in S :
                       Cardinality(S) = n /\ Sums(f)[S] # f[x] + Sums(f)[S \ {x}]}
  <1>1. CASE Bad = {}
    <2>1. \A S \in SUBSET Cells : Cardinality(S) \in Nat
      BY SubsetFinite, CellsFinite
    <2> QED BY <1>1, <2>1
  <1>2. CASE Bad # {}
    <2>1. PICK n \in Bad : \A m \in Bad : n <= m
      BY <1>2, Least
    <2>2. PICK S \in SUBSET Cells, x \in Cells :
            x \in S /\ Cardinality(S) = n /\ Sums(f)[S] # f[x] + Sums(f)[S \ {x}]
      BY <2>1
    <2> DEFINE p == Pick(S)
    <2>3. p \in S /\ Sums(f)[S] = f[p] + Sums(f)[S \ {p}]
      BY <2>2, SumsStep
    <2>4. p # x
      BY <2>2, <2>3
    <2>5. Cardinality(S \ {p}) = n - 1 /\ Cardinality(S \ {x}) = n - 1 /\ n - 1 \in Nat
      BY <2>2, <2>3, OneLess
    <2> HIDE DEF p
    <2>6. /\ Sums(f)[S \ {p}] = f[x] + Sums(f)[(S \ {p}) \ {x}]
          /\ Sums(f)[S \ {x}] = f[p] + Sums(f)[(S \ {x}) \ {p}]
      <3>1. n - 1 \notin Bad
        <4>1. n \in Nat
          OBVIOUS
        <4> HIDE DEF Bad
        <4> QED BY <2>1, <2>5, <4>1
      <3>2. S \ {p} \in SUBSET Cells /\ S \ {x} \in SUBSET Cells
            /\ x \in S \ {p} /\ p \in S \ {x}
        BY <2>2, <2>3, <2>4
      <3> QED BY <2>5, <3>1, <3>2
    <2>7. (S \ {p}) \ {x} = (S \ {x}) \ {p}
      OBVIOUS
    <2>8. /\ f[p] \in Nat /\ f[x] \in Nat /\ Sums(f)[(S \ {p}) \ {x}] \in Nat
      BY <2>2, <2>3, SumsNat
    <2>9. /\ Sums(f)[S] = f[p] + (f[x] + Sums(f)[(S \ {p}) \ {x}])
          /\ Sums(f)[S \ {x}] = f[p] + Sums(f)[(S \ {p}) \ {x}]
      BY <2>3, <2>6, <2>7
    <2>10. Sums(f)[S] = f[x] + Sums(f)[S \ {x}]
      BY <2>8, <2>9
    <2> QED BY <2>2, <2>10
  <1> QED BY <1>1, <1>2

(* What tells a sum of zero from others.                                   *)
LEMMA SumsZero ==
  ASSUME NEW f \in [Cells -> Nat]
  PROVE  \A S \in SUBSET Cells : Sums(f)[S] = 0 <=> \A x \in S : f[x] = 0
  <1>1. ASSUME NEW S \in SUBSET Cells, Sums(f)[S] = 0, NEW x \in S
        PROVE  f[x] = 0
    <2>1. f[x] \in Nat /\ Sums(f)[S \ {x}] \in Nat /\ 0 = f[x] + Sums(f)[S \ {x}]
      BY <1>1, SumsLaw, SumsNat
    <2> QED BY <2>1
  <1> DEFINE Bad == {n \in Nat : \E S \in SUBSET Cells :
                       Cardinality(S) = n /\ (\A x \in S : f[x] = 0) /\ Sums(f)[S] # 0}
  <1>2. CASE Bad = {}
    <2>1. \A S \in SUBSET Cells : Cardinality(S) \in Nat
      BY SubsetFinite, CellsFinite
    <2> QED BY <1>1, <1>2, <2>1
  <1>3. CASE Bad # {}
    <2>1. PICK n \in Bad : \A m \in Bad : n <= m
      BY <1>3, Least
    <2>2. PICK S \in SUBSET Cells :
            Cardinality(S) = n /\ (\A x \in S : f[x] = 0) /\ Sums(f)[S] # 0
      BY <2>1
    <2>3. S # {}
      BY <2>2, SumsStep
    <2> DEFINE T == S \ {Pick(S)}
    <2>4. Pick(S) \in S /\ Sums(f)[S] = f[Pick(S)] + Sums(f)[T]
      BY <2>3, SumsStep
    <2>5. Cardinality(T) = n - 1 /\ n - 1 \in Nat
      BY <2>2, <2>4, OneLess
    <2>6. Sums(f)[T] = 0
      BY <2>1, <2>2, <2>5
    <2> QED BY <2>2, <2>4, <2>6
  <1> QED BY <1>2, <1>3

LEMMA FansAreSums ==
  ASSUME NEW w \in [Cells -> [Cells -> Nat]], NEW c \in Cells
  PROVE  /\ FanIn(w, c) = Sums([d \in Cells |-> w[d][c]])[Cells]
         /\ FanOut(w, c) = Sums([d \in Cells |-> w[c][d]])[Cells]
  <1>1. FanIn(w, c) = Sums([d \in Cells |-> w[d][c]])[Cells]
    <2> DEFINE f == [d \in Cells |-> w[d][c]]
               E(sum) == sum = [S \in SUBSET Cells |->
                           IF S = {} THEN 0
                           ELSE w[Pick(S)][c] + sum[S \ {Pick(S)}]]
    <2>1. FanIn(w, c) = (CHOOSE sum : E(sum))[Cells]
      BY DEF FanIn, MapThenSumSet, MapThenFoldSet, Pick
    <2>2. \A sum : E(sum) <=> IsSums(f, sum, SUBSET Cells)
      <3>1. \A S \in SUBSET Cells : S # {} => Pick(S) \in Cells
        BY DEF Pick
      <3>2. \A S \in SUBSET Cells : S # {} => f[Pick(S)] = w[Pick(S)][c]
        BY <3>1
      <3> HIDE DEF f
      <3> QED BY <3>2 DEF IsSums
    <2>3. (CHOOSE sum : E(sum)) = Sums(f)
      BY <2>2 DEF Sums
    <2> QED BY <2>1, <2>3
  <1>2. FanOut(w, c) = Sums([d \in Cells |-> w[c][d]])[Cells]
    <2> DEFINE f == [d \in Cells |-> w[c][d]]
               E(sum) == sum = [S \in SUBSET Cells |->
                           IF S = {} THEN 0
                           ELSE w[c][Pick(S)] + sum[S \ {Pick(S)}]]
    <2>1. FanOut(w, c) = (CHOOSE sum : E(sum))[Cells]
      BY DEF FanOut, MapThenSumSet, MapThenFoldSet, Pick
    <2>2. \A sum : E(sum) <=> IsSums(f, sum, SUBSET Cells)
      <3>1. \A S \in SUBSET Cells : S # {} => Pick(S) \in Cells
        BY DEF Pick
      <3>2. \A S \in SUBSET Cells : S # {} => f[Pick(S)] = w[c][Pick(S)]
        BY <3>1
      <3> HIDE DEF f
      <3> QED BY <3>2 DEF IsSums
    <2>3. (CHOOSE sum : E(sum)) = Sums(f)
      BY <2>2 DEF Sums
    <2> QED BY <2>1, <2>3
  <1> QED BY <1>1, <1>2

-----------------------------------------------------------------------------
(* Sequences that name each element of a set once.                         *)

Lists(s, S) == s \in Seq(S) /\ IsInjective(s) /\ Range(s) = S

LEMMA ListsFacts ==
  ASSUME NEW S, NEW s, Lists(s, S)
  PROVE  /\ Len(s) \in Nat /\ DOMAIN s = 1 .. Len(s)
         /\ \A i \in 1 .. Len(s) : s[i] \in S
         /\ \A i, j \in 1 .. Len(s) : s[i] = s[j] => i = j
         /\ \A x \in S : \E i \in 1 .. Len(s) : s[i] = x
  <1>1. s \in Seq(S) /\ Len(s) \in Nat /\ DOMAIN s = 1 .. Len(s)
    BY LenProperties DEF Lists
  <1>2. \A i \in 1 .. Len(s) : s[i] \in S
    BY <1>1, ElementOfSeq
  <1> QED BY <1>1, <1>2 DEF Lists, IsInjective, Range

LEMMA ListsIf ==
  ASSUME NEW S, NEW s \in Seq(S),
         \A i, j \in 1 .. Len(s) : s[i] = s[j] => i = j,
         \A x \in S : \E i \in 1 .. Len(s) : s[i] = x
  PROVE  Lists(s, S)
  <1>1. Len(s) \in Nat /\ DOMAIN s = 1 .. Len(s)
    BY LenProperties
  <1>2. \A i \in 1 .. Len(s) : s[i] \in S
    BY ElementOfSeq
  <1> QED BY <1>1, <1>2 DEF Lists, IsInjective, Range

LEMMA ListsEmpty == Lists(<< >>, {})
  BY DEF Lists, IsInjective, Range

LEMMA ListsNone ==
  ASSUME NEW S, Lists(<< >>, S) PROVE S = {}
  BY DEF Lists, Range

LEMMA ListsAppend ==
  ASSUME NEW S, NEW s, Lists(s, S), NEW x, x \notin S
  PROVE  Lists(Append(s, x), S \cup {x})
  <1>1. /\ Len(s) \in Nat
        /\ \A i \in 1 .. Len(s) : s[i] \in S
        /\ \A i, j \in 1 .. Len(s) : s[i] = s[j] => i = j
        /\ \A y \in S : \E i \in 1 .. Len(s) : s[i] = y
    BY ListsFacts
  <1>2. s \in Seq(S \cup {x})
    BY DEF Lists
  <1>3. /\ Append(s, x) \in Seq(S \cup {x}) /\ Len(Append(s, x)) = Len(s) + 1
        /\ \A i \in 1 .. Len(s) : Append(s, x)[i] = s[i]
        /\ Append(s, x)[Len(s) + 1] = x
    BY <1>2, AppendProperties
  <1> DEFINE ts == Append(s, x)
  <1> HIDE DEF ts
  <1>4. \A i \in 1 .. Len(ts) : i \in 1 .. Len(s) \/ i = Len(s) + 1
    BY <1>1, <1>3 DEF ts
  <1>5. \A i, j \in 1 .. Len(ts) : ts[i] = ts[j] => i = j
    BY <1>1, <1>3, <1>4 DEF ts
  <1>6. \A y \in S \cup {x} : \E i \in 1 .. Len(ts) : ts[i] = y
    <2>1. Len(s) + 1 \in 1 .. Len(ts) /\ 1 .. Len(s) \subseteq 1 .. Len(ts)
      BY <1>1, <1>3 DEF ts
    <2> QED BY <1>1, <1>3, <2>1 DEF ts
  <1>7. ts \in Seq(S \cup {x})
    BY <1>3 DEF ts
  <1>8. Lists(ts, S \cup {x})
    BY <1>5, <1>6, <1>7, ListsIf
  <1> QED BY <1>8 DEF ts

LEMMA ListsConcat ==
  ASSUME NEW S, NEW T, NEW s, NEW ts, Lists(s, S), Lists(ts, T), S \cap T = {}
  PROVE  Lists(s \o ts, S \cup T)
  <1>1. /\ Len(s) \in Nat
        /\ \A i \in 1 .. Len(s) : s[i] \in S
        /\ \A i, j \in 1 .. Len(s) : s[i] = s[j] => i = j
        /\ \A y \in S : \E i \in 1 .. Len(s) : s[i] = y
    BY ListsFacts
  <1>2. /\ Len(ts) \in Nat
        /\ \A i \in 1 .. Len(ts) : ts[i] \in T
        /\ \A i, j \in 1 .. Len(ts) : ts[i] = ts[j] => i = j
        /\ \A y \in T : \E i \in 1 .. Len(ts) : ts[i] = y
    BY ListsFacts
  <1>3. s \in Seq(S \cup T) /\ ts \in Seq(S \cup T)
    BY DEF Lists
  <1> DEFINE u == s \o ts
  <1>4. /\ u \in Seq(S \cup T) /\ Len(u) = Len(s) + Len(ts)
        /\ \A i \in 1 .. Len(s) + Len(ts) : u[i] = IF i <= Len(s) THEN s[i] ELSE ts[i - Len(s)]
    BY <1>3, ConcatProperties
  <1> HIDE DEF u
  <1>5. \A i \in 1 .. Len(u) : \/ i \in 1 .. Len(s) /\ u[i] = s[i]
                               \/ i - Len(s) \in 1 .. Len(ts) /\ u[i] = ts[i - Len(s)]
    BY <1>1, <1>2, <1>4
  <1>6. ASSUME NEW i \in 1 .. Len(u), NEW j \in 1 .. Len(u), u[i] = u[j]
        PROVE  i = j
    <2>1. CASE i \in 1 .. Len(s) /\ u[i] = s[i]
      <3>1. u[j] \notin T
        BY <1>1, <1>6, <2>1
      <3>2. j \in 1 .. Len(s) /\ u[j] = s[j]
        BY <1>2, <1>5, <3>1
      <3> QED BY <1>1, <1>6, <2>1, <3>2
    <2>2. CASE i - Len(s) \in 1 .. Len(ts) /\ u[i] = ts[i - Len(s)]
      <3>1. u[j] \notin S
        BY <1>2, <1>6, <2>2
      <3>2. j - Len(s) \in 1 .. Len(ts) /\ u[j] = ts[j - Len(s)]
        BY <1>1, <1>5, <3>1
      <3>3. i - Len(s) = j - Len(s)
        BY <1>2, <1>6, <2>2, <3>2
      <3> QED BY <1>1, <1>4, <3>3
    <2> QED BY <1>5, <2>1, <2>2
  <1>7. ASSUME NEW y \in S \cup T
        PROVE  \E i \in 1 .. Len(u) : u[i] = y
    <2>1. CASE y \in S
      BY <1>1, <1>2, <1>4, <2>1
    <2>2. CASE y \in T
      <3>1. PICK i \in 1 .. Len(ts) : ts[i] = y
        BY <1>2, <2>2
      <3>2. Len(s) + i \in 1 .. Len(u) /\ u[Len(s) + i] = y
        <4>1. Len(s) + i \in 1 .. Len(s) + Len(ts) /\ ~(Len(s) + i <= Len(s))
              /\ (Len(s) + i) - Len(s) = i
          BY <1>1, <1>2
        <4> QED BY <1>4, <3>1, <4>1
      <3> QED BY <3>2
    <2> QED BY <2>1, <2>2
  <1>8. Lists(u, S \cup T)
    BY <1>4, <1>6, <1>7, ListsIf
  <1> QED BY <1>8 DEF u

LEMMA ListsTail ==
  ASSUME NEW S, NEW s, Lists(s, S), s # << >>
  PROVE  Head(s) \in S /\ Lists(Tail(s), S \ {Head(s)})
  <1>1. /\ Len(s) \in Nat
        /\ \A i \in 1 .. Len(s) : s[i] \in S
        /\ \A i, j \in 1 .. Len(s) : s[i] = s[j] => i = j
        /\ \A y \in S : \E i \in 1 .. Len(s) : s[i] = y
    BY ListsFacts
  <1>2. s \in Seq(S)
    BY DEF Lists
  <1> DEFINE ts == Tail(s)
  <1>3. /\ ts \in Seq(S) /\ Len(ts) = Len(s) - 1 /\ Len(s) >= 1
        /\ \A i \in 1 .. Len(ts) : ts[i] = s[i + 1]
        /\ Head(s) = s[1]
    BY <1>1, <1>2, HeadTailProperties, EmptySeq
  <1> HIDE DEF ts
  <1>4. Head(s) \in S
    BY <1>1, <1>3
  <1>5. \A i \in 1 .. Len(ts) : ts[i] \in S \ {Head(s)}
    BY <1>1, <1>3
  <1>6. ts \in Seq(S \ {Head(s)})
    <2>1. ts = [i \in 1 .. Len(ts) |-> ts[i]] /\ Len(ts) \in Nat
      BY <1>1, <1>3, LenProperties
    <2> QED BY <1>5, <2>1, IsASeq
  <1>7. \A i, j \in 1 .. Len(ts) : ts[i] = ts[j] => i = j
    <2>1. \A i \in 1 .. Len(ts) : i + 1 \in 1 .. Len(s)
      BY <1>1, <1>3
    <2> QED BY <1>1, <1>3, <2>1
  <1>8. ASSUME NEW y \in S \ {Head(s)}
        PROVE  \E i \in 1 .. Len(ts) : ts[i] = y
    <2>1. PICK i \in 1 .. Len(s) : s[i] = y
      BY <1>1
    <2>2. i # 1
      BY <1>3, <2>1
    <2>3. i - 1 \in 1 .. Len(ts) /\ ts[i - 1] = y
      BY <1>1, <1>3, <2>1, <2>2
    <2> QED BY <2>3
  <1> QED BY <1>4, <1>6, <1>7, <1>8, ListsIf DEF ts

\* The permutations of a set of cells.
LEMMA ListsOrder ==
  ASSUME NEW S \in SUBSET Cells, NEW s \in SetToSeqs(S)
  PROVE  Lists(s, S)
  <1> DEFINE k == Cardinality(S)
  <1>1. k \in Nat /\ IsFiniteSet(S)
    BY SubsetFinite, CellsFinite
  <1>2. s \in [1 .. k -> S] /\ \A i, j \in 1 .. k : i # j => s[i] # s[j]
    BY DEF SetToSeqs
  <1>3. s \in Seq(S) /\ Len(s) = k /\ DOMAIN s = 1 .. k
    <2>1. s = [i \in 1 .. k |-> s[i]]
      BY <1>2
    <2>2. \A i \in 1 .. k : s[i] \in S
      BY <1>2
    <2>3. s \in Seq(S)
      BY <1>1, <2>1, <2>2, IsASeq
    <2>4. 1 .. Len(s) = 1 .. k
      BY <1>2, <2>3, LenProperties
    <2>5. Len(s) = k
      BY <1>1, <2>3, <2>4, LenProperties
    <2> QED BY <1>2, <2>3, <2>5
  <1>4. s \in Injection(1 .. k, S)
    BY <1>2 DEF Injection, IsInjective
  <1>5. Cardinality(1 .. k) = k
    <2>1. Cardinality(1 .. k) = IF 1 > k THEN 0 ELSE k - 1 + 1
      BY <1>1, FS_Interval
    <2> QED BY <1>1, <2>1
  <1>6. s \in Surjection(1 .. k, S)
    BY <1>1, <1>4, <1>5, FS_Injection
  <1>7. \A x \in S : \E i \in 1 .. Len(s) : s[i] = x
    BY <1>3, <1>6 DEF Surjection
  <1> QED BY <1>2, <1>3, <1>7, ListsIf

IsUpTo(S, f, n) ==
  f = [i \in 0 .. n |-> IF i \in S THEN Append(IF i = 0 THEN << >> ELSE f[i - 1], i)
                        ELSE IF i = 0 THEN << >> ELSE f[i - 1]]

\* The cells of a set in index order.
LEMMA ListsIndexed ==
  ASSUME NEW S \in SUBSET Cells
  PROVE  Lists(Indexed(S), S)
  <1> DEFINE Bad == {n \in 0 .. N : ~ \E f : IsUpTo(S, f, n)}
  <1>0. 0 \notin S /\ N \in Nat /\ \A c \in S : c \in 1 .. N
    BY CellsFinite DEF Cells
  <1>1. Bad = {}
    <2> SUFFICES ASSUME Bad # {} PROVE FALSE
      OBVIOUS
    <2>1. PICK n \in Bad : \A m \in Bad : n <= m
      <3>1. Bad \in SUBSET Nat
        BY <1>0
      <3> HIDE DEF Bad
      <3> QED BY <3>1, Least
    <2>2. n # 0
      <3>1. IsUpTo(S, [i \in 0 .. 0 |-> << >>], 0)
        BY <1>0 DEF IsUpTo
      <3> QED BY <3>1
    <2>3. n \in 1 .. N /\ n - 1 \in 0 .. N /\ n - 1 \notin Bad
      <3>1. n \in 1 .. N
        BY <1>0, <2>2
      <3> HIDE DEF Bad
      <3> QED BY <1>0, <2>1, <3>1
    <2>4. PICK g : IsUpTo(S, g, n - 1)
      BY <2>3
    <2> DEFINE h == [i \in 0 .. n |->
                       IF i \in S THEN Append(IF i = 0 THEN << >> ELSE g[i - 1], i)
                       ELSE IF i = 0 THEN << >> ELSE g[i - 1]]
    <2>5. \A i \in 0 .. n - 1 : i \in 0 .. n /\ h[i] = g[i]
      <3>1. \A i \in 0 .. n - 1 :
              g[i] = IF i \in S THEN Append(IF i = 0 THEN << >> ELSE g[i - 1], i)
                     ELSE IF i = 0 THEN << >> ELSE g[i - 1]
        BY <2>4 DEF IsUpTo
      <3>2. \A i \in 0 .. n - 1 : i \in 0 .. n
        BY <2>3
      <3> QED BY <3>1, <3>2
    <2>6. \A i \in 0 .. n : i # 0 => i - 1 \in 0 .. n - 1
      BY <2>3
    <2>7. IsUpTo(S, h, n)
      <3>1. \A i \in 0 .. n : i # 0 => h[i - 1] = g[i - 1]
        BY <2>5, <2>6
      <3> QED BY <3>1 DEF IsUpTo
    <2> QED BY <2>7
  <1> DEFINE u == CHOOSE f : IsUpTo(S, f, N)
  <1>2. IsUpTo(S, u, N)
    <2>1. N \notin Bad /\ N \in 0 .. N
      BY <1>0, <1>1
    <2> QED BY <2>1
  <1>3. Indexed(S) = u[N]
    BY DEF Indexed, IsUpTo
  <1> HIDE DEF u, Bad
  <1> DEFINE Wrong == {n \in 0 .. N : ~Lists(u[n], {c \in S : c <= n})}
  <1>4. u[0] = << >> /\ \A i \in 1 .. N : u[i] = IF i \in S THEN Append(u[i - 1], i) ELSE u[i - 1]
    <2>1. \A i \in 0 .. N :
            u[i] = IF i \in S THEN Append(IF i = 0 THEN << >> ELSE u[i - 1], i)
                   ELSE IF i = 0 THEN << >> ELSE u[i - 1]
      BY <1>2 DEF IsUpTo
    <2>2. 0 \in 0 .. N /\ \A i \in 1 .. N : i \in 0 .. N /\ i # 0
      BY <1>0
    <2> QED BY <1>0, <2>1, <2>2
  <1>5. Wrong = {}
    <2> SUFFICES ASSUME Wrong # {} PROVE FALSE
      OBVIOUS
    <2>1. PICK n \in Wrong : \A m \in Wrong : n <= m
      <3>1. Wrong \in SUBSET Nat
        BY <1>0
      <3> HIDE DEF Wrong
      <3> QED BY <3>1, Least
    <2>2. n # 0
      <3>1. {c \in S : c <= 0} = {}
        BY <1>0
      <3> QED BY <1>4, <3>1, ListsEmpty
    <2>3. n \in 1 .. N /\ n - 1 \in 0 .. N /\ n - 1 \notin Wrong
      <3>1. n \in 1 .. N
        BY <1>0, <2>2
      <3> HIDE DEF Wrong
      <3> QED BY <1>0, <2>1, <3>1
    <2>4. Lists(u[n - 1], {c \in S : c <= n - 1})
      BY <2>3
    <2>5. CASE n \in S
      <3>1. {c \in S : c <= n} = {c \in S : c <= n - 1} \cup {n} /\ n \notin {c \in S : c <= n - 1}
        <4>1. n \in Int /\ \A c \in S : c <= n <=> (c <= n - 1 \/ c = n)
          BY <1>0, <2>3
        <4>2. ~(n <= n - 1)
          BY <4>1
        <4> QED BY <2>5, <4>1, <4>2
      <3>2. Lists(Append(u[n - 1], n), {c \in S : c <= n - 1} \cup {n})
        BY <2>4, <3>1, ListsAppend
      <3> QED BY <1>4, <2>3, <2>5, <3>1, <3>2
    <2>6. CASE n \notin S
      <3>1. {c \in S : c <= n} = {c \in S : c <= n - 1}
        BY <1>0, <2>3, <2>6
      <3> QED BY <1>4, <2>3, <2>4, <2>6, <3>1
    <2> QED BY <2>5, <2>6
  <1>6. {c \in S : c <= N} = S
    BY <1>0
  <1> QED BY <1>0, <1>3, <1>5, <1>6

-----------------------------------------------------------------------------
(* One pass.  g counts the connections to wait for, keep are the cells the *)
(* list takes, fl the flops.                                               *)

Connections == [Cells -> [Cells -> Nat]]

\* What c waits for once the cells of done are.
Waits(g, done, c) == Sums([d \in Cells |-> g[d][c]])[Cells \ done]

\* A cell that is no flop comes after all it waits for.
Ordered(g, fl, list) ==
  \A k \in 1 .. Len(list) :
    list[k] \notin fl =>
      \A d \in Cells : g[d][list[k]] # 0 => \E m \in 1 .. k - 1 : list[m] = d

Kept(g, keep) == \A d \in Cells \ keep, c \in Cells : g[d][c] = 0

(* The list and the queue share no cell, the counters count the cells that *)
(* are not listed, and a cell is in one of the two if and only if it has   *)
(* nothing to wait for.                                                    *)
Pass(g, keep, fl, list, q, n) ==
  /\ g \in Connections /\ keep \in SUBSET Cells /\ fl \in SUBSET Cells /\ Kept(g, keep)
  /\ Lists(list, Range(list)) /\ Range(list) \subseteq keep
  /\ Lists(q, Range(q)) /\ Range(q) \subseteq Cells
  /\ Range(list) \cap Range(q) = {}
  /\ n = [c \in Cells |-> Waits(g, Range(list), c)]
  /\ keep \cap fl \subseteq Range(list) \cup Range(q)
  /\ \A c \in Cells \ fl : /\ c \in Range(list) \cup Range(q) => n[c] = 0
                           /\ c \in keep /\ n[c] = 0 => c \in Range(list) \cup Range(q)
  /\ Ordered(g, fl, list)

LEMMA WaitsFacts ==
  ASSUME NEW g \in Connections, NEW L \in SUBSET Cells, NEW c \in Cells
  PROVE  /\ Waits(g, L, c) \in Nat
         /\ Waits(g, L, c) = 0 <=> \A d \in Cells \ L : g[d][c] = 0
         /\ \A d \in Cells \ L : Waits(g, L, c) = g[d][c] + Waits(g, L \cup {d}, c)
  <1> DEFINE f == [d \in Cells |-> g[d][c]]
  <1>1. f \in [Cells -> Nat] /\ \A d \in Cells : f[d] = g[d][c]
    BY DEF Connections
  <1> HIDE DEF f
  <1>2. Cells \ L \in SUBSET Cells
    OBVIOUS
  <1>3. Sums(f)[Cells \ L] \in Nat
    BY <1>1, <1>2, SumsNat
  <1>4. Sums(f)[Cells \ L] = 0 <=> \A d \in Cells \ L : f[d] = 0
    BY <1>1, <1>2, SumsZero
  <1>5. ASSUME NEW d \in Cells \ L
        PROVE  Sums(f)[Cells \ L] = f[d] + Sums(f)[Cells \ (L \cup {d})]
    <2>1. (Cells \ L) \ {d} = Cells \ (L \cup {d})
      OBVIOUS
    <2> QED BY <1>1, <1>2, <2>1, SumsLaw
  <1> QED BY <1>1, <1>3, <1>4, <1>5 DEF Waits, f

\* One step of a pass: the counters, the cells it frees, the list.
Down(g, q, n) == [c \in Cells |-> n[c] - g[Head(q)][c]]
Freed(fl, n, m) == {c \in Cells \ fl : m[c] = 0 /\ n[c] # 0}
Taken(keep, list, q) == IF Head(q) \in keep THEN Append(list, Head(q)) ELSE list

LEMMA PassStep ==
  ASSUME NEW g, NEW keep, NEW fl, NEW list, NEW q, NEW n, Pass(g, keep, fl, list, q, n),
         q # << >>,
         NEW order \in SetToSeqs(Freed(fl, n, Down(g, q, n)))
  PROVE  /\ Pass(g, keep, fl, Taken(keep, list, q), Tail(q) \o order, Down(g, q, n))
         /\ Range(Taken(keep, list, q)) =
              IF Head(q) \in keep THEN Range(list) \cup {Head(q)} ELSE Range(list)
         /\ Range(Tail(q) \o order) =
              (Range(q) \ {Head(q)}) \cup Freed(fl, n, Down(g, q, n))
  <1> g \in Connections /\ keep \in SUBSET Cells /\ fl \in SUBSET Cells /\ Kept(g, keep)
    BY DEF Pass
  <1> DEFINE after == Down(g, q, n)
             R == Freed(fl, n, after)
             next == Taken(keep, list, q)
  <1>0. /\ after = [c \in Cells |-> n[c] - g[Head(q)][c]]
        /\ R = {c \in Cells \ fl : after[c] = 0 /\ n[c] # 0}
        /\ next = IF Head(q) \in keep THEN Append(list, Head(q)) ELSE list
        /\ order \in SetToSeqs(R)
    BY DEF Down, Freed, Taken
  <1> HIDE DEF after, R, next
  <1> DEFINE cur == Head(q)
             L == Range(list)
             Q == Range(q)
             M == IF cur \in keep THEN L \cup {cur} ELSE L
             P == (Q \ {cur}) \cup R
             rest == Tail(q) \o order
  <1>1. /\ Lists(list, L) /\ L \subseteq keep /\ L \cap Q = {} /\ Q \subseteq Cells
        /\ Lists(q, Q) /\ cur \in Q /\ Lists(Tail(q), Q \ {cur})
        /\ L \subseteq Cells /\ cur \in Cells /\ cur \notin L
    BY ListsTail DEF Pass
  <1>2. /\ n = [c \in Cells |-> Waits(g, L, c)]
        /\ \A c \in Cells : n[c] \in Nat /\ g[cur][c] \in Nat
    BY <1>1, WaitsFacts DEF Pass, Connections
  <1>3. /\ keep \cap fl \subseteq L \cup Q
        /\ \A c \in Cells \ fl : /\ c \in L \cup Q => n[c] = 0
                                 /\ c \in keep /\ n[c] = 0 => c \in L \cup Q
    BY DEF Pass
  <1>4. R \in SUBSET Cells /\ R \cap (L \cup Q) = {}
    BY <1>0, <1>3
  <1>5. Lists(order, R)
    BY <1>0, <1>4, ListsOrder
  <1>6. Lists(next, M)
    BY <1>0, <1>1, ListsAppend
  <1>7. Lists(rest, P)
    BY <1>1, <1>4, <1>5, ListsConcat
  <1>8. Range(next) = M /\ Range(rest) = P
    BY <1>6, <1>7 DEF Lists
  <1>9. \A c \in Cells : after[c] = Waits(g, M, c) /\ after[c] \in Nat
    <2> TAKE c \in Cells
    <2>1. CASE cur \in keep
      <3>1. n[c] = Waits(g, L, c) /\ g[cur][c] \in Nat /\ M = L \cup {cur}
            /\ L \in SUBSET Cells /\ M \in SUBSET Cells /\ cur \in Cells \ L
            /\ after[c] = n[c] - g[cur][c]
        BY <1>0, <1>1, <1>2, <2>1
      <3> HIDE DEF L, M, cur
      <3>2. Waits(g, L, c) = g[cur][c] + Waits(g, M, c)
        BY <3>1, WaitsFacts
      <3>3. Waits(g, M, c) \in Nat
        BY <3>1, WaitsFacts
      <3> QED BY <3>1, <3>2, <3>3
    <2>2. CASE cur \notin keep
      <3>1. g[cur][c] = 0 /\ M = L /\ after[c] = n[c] - g[cur][c]
            /\ n[c] = Waits(g, L, c) /\ n[c] \in Nat
        BY <1>0, <1>1, <1>2, <2>2 DEF Kept
      <3> HIDE DEF L, M, cur
      <3> QED BY <3>1
    <2> QED BY <2>1, <2>2
  <1>10. after = [c \in Cells |-> Waits(g, M, c)]
    BY <1>0, <1>9
  <1>11. M \subseteq keep /\ P \subseteq Cells /\ M \cap P = {} /\ keep \cap fl \subseteq M \cup P
    BY <1>1, <1>3, <1>4
  <1>12. ASSUME NEW c \in Cells \ fl
         PROVE  /\ c \in M \cup P => after[c] = 0
                /\ c \in keep /\ after[c] = 0 => c \in M \cup P
    <2>1. after[c] = n[c] - g[cur][c] /\ n[c] \in Nat /\ g[cur][c] \in Nat /\ after[c] \in Nat
      BY <1>0, <1>2, <1>9
    <2>2. c \in L \cup Q => after[c] = 0
      BY <1>3, <2>1
    <2>3. c \in R => after[c] = 0
      BY <1>0
    <2>4. c \in keep /\ after[c] = 0 => c \in L \cup Q \cup R
      BY <1>0, <1>3
    <2> QED BY <1>1, <2>2, <2>3, <2>4
  <1>13. Ordered(g, fl, next)
    <2>1. Ordered(g, fl, list)
      BY DEF Pass
    <2>2. CASE cur \notin keep
      BY <1>0, <2>1, <2>2
    <2>3. CASE cur \in keep
      <3>1. /\ Len(list) \in Nat /\ list \in Seq(L) /\ next \in Seq(M)
            /\ \A d \in L : \E m \in 1 .. Len(list) : list[m] = d
        BY <1>1, <1>6, ListsFacts DEF Lists
      <3>2. /\ Len(next) = Len(list) + 1 /\ next[Len(list) + 1] = cur
            /\ \A m \in 1 .. Len(list) : next[m] = list[m]
        BY <1>0, <2>3, <3>1, AppendProperties
      <3> SUFFICES ASSUME NEW k \in 1 .. Len(next), next[k] \notin fl,
                          NEW d \in Cells, g[d][next[k]] # 0
                   PROVE  \E m \in 1 .. k - 1 : next[m] = d
        BY DEF Ordered
      <3>3. CASE k \in 1 .. Len(list)
        <4>1. PICK m \in 1 .. k - 1 : list[m] = d
          BY <2>1, <3>2, <3>3 DEF Ordered
        <4>2. m \in 1 .. Len(list)
          BY <3>1, <3>3
        <4> QED BY <3>2, <4>1, <4>2
      <3>4. CASE k = Len(list) + 1
        <4>1. next[k] = cur /\ cur \notin fl /\ n[cur] = 0
          BY <1>1, <1>3, <3>2, <3>4
        <4>2. \A e \in Cells \ L : g[e][cur] = 0
          <5>1. Waits(g, L, cur) = 0 /\ L \in SUBSET Cells /\ cur \in Cells
            BY <1>1, <1>2, <4>1
          <5> HIDE DEF L, cur
          <5> QED BY <5>1, WaitsFacts
        <4>3. PICK m \in 1 .. Len(list) : list[m] = d
          BY <3>1, <4>1, <4>2
        <4>4. m \in 1 .. k - 1
          BY <3>1, <3>4
        <4> QED BY <3>2, <4>3, <4>4
      <3> QED BY <3>1, <3>2, <3>3, <3>4
    <2> QED BY <2>2, <2>3
  <1> HIDE DEF M, P, rest
  <1>14. Pass(g, keep, fl, next, rest, after)
    BY <1>6, <1>7, <1>8, <1>10, <1>11, <1>12, <1>13 DEF Pass
  <1> QED BY <1>8, <1>14 DEF M, P, rest, after, R, next

\* The cells with nothing to wait for.
Free(g) == {c \in Cells : Waits(g, {}, c) = 0}

LEMMA PassInit ==
  ASSUME NEW g \in Connections, NEW keep \in SUBSET Cells, NEW fl \in SUBSET Cells, Kept(g, keep)
  PROVE  /\ Pass(g, keep, fl, << >>, Indexed(Free(g)) \o Indexed(fl \ Free(g)),
                 [c \in Cells |-> Waits(g, {}, c)])
         /\ Range(Indexed(Free(g)) \o Indexed(fl \ Free(g))) = Free(g) \cup fl
  <1> DEFINE free == Free(g)
             q == Indexed(free) \o Indexed(fl \ free)
             n == [c \in Cells |-> Waits(g, {}, c)]
  <1>0. free \in SUBSET Cells /\ \A c \in Cells : c \in free <=> n[c] = 0
    BY DEF Free
  <1> HIDE DEF free, n
  <1>1. Lists(q, free \cup (fl \ free))
    BY <1>0, ListsIndexed, ListsConcat
  <1>2. free \cup (fl \ free) = free \cup fl
    OBVIOUS
  <1>3. Lists(q, free \cup fl) /\ Range(q) = free \cup fl
    BY <1>1, <1>2 DEF Lists
  <1>4. Lists(<< >>, {}) /\ Range(<< >>) = {}
    BY ListsEmpty DEF Lists
  <1>5. Ordered(g, fl, << >>)
    BY DEF Ordered
  <1>6. n = [c \in Cells |-> Waits(g, {}, c)]
    BY DEF n
  <1> HIDE DEF q
  <1>7. Pass(g, keep, fl, << >>, q, n)
    BY <1>0, <1>3, <1>4, <1>5, <1>6 DEF Pass
  <1> QED BY <1>3, <1>7 DEF q, n, free

\* What a pass leaves behind: the whole list, and what never left the counters.
Complete(g, keep, fl, full, stuck) ==
  /\ Lists(full, Cells)
  /\ stuck \subseteq keep \ fl
  /\ \A c \in stuck : \E d \in stuck : g[d][c] # 0
  /\ \A d \in Cells, c \in keep \ fl :
       g[d][c] # 0 => Before(full, d, c) \/ {c, d} \subseteq stuck
  /\ \A d \in keep \ stuck, c \in Cells \ keep : Before(full, d, c)

LEMMA PassEnd ==
  ASSUME NEW g, NEW keep, NEW fl, NEW list, NEW n, Pass(g, keep, fl, list, << >>, n)
  PROVE  Complete(g, keep, fl, list \o Indexed(Cells \ Range(list)), keep \ Range(list))
  <1> g \in Connections /\ keep \in SUBSET Cells /\ fl \in SUBSET Cells /\ Kept(g, keep)
    BY DEF Pass
  <1> DEFINE full == list \o Indexed(Cells \ Range(list))
             stuck == keep \ Range(list)
  <1>0. full = list \o Indexed(Cells \ Range(list)) /\ stuck = keep \ Range(list)
    OBVIOUS
  <1> HIDE DEF full, stuck
  <1> DEFINE L == Range(list)
             tail == Indexed(Cells \ L)
  <1>1. Range(<< >>) = {}
    BY DEF Range
  <1>2. /\ Lists(list, L) /\ L \subseteq keep
        /\ n = [c \in Cells |-> Waits(g, L, c)]
        /\ keep \cap fl \subseteq L
        /\ \A c \in Cells \ fl : c \in keep /\ n[c] = 0 => c \in L
        /\ Ordered(g, fl, list)
    BY <1>1 DEF Pass
  <1>3. Lists(tail, Cells \ L)
    BY ListsIndexed
  <1>4. Lists(full, Cells)
    <2>1. L \cup (Cells \ L) = Cells /\ L \cap (Cells \ L) = {}
      BY <1>2
    <2> QED BY <1>0, <1>2, <1>3, <2>1, ListsConcat
  <1>5. stuck \subseteq keep \ fl
    BY <1>0, <1>2
  <1>6. ASSUME NEW c \in stuck
        PROVE  \E d \in stuck : g[d][c] # 0
    <2>1. c \in Cells \ fl /\ n[c] # 0
      BY <1>0, <1>2
    <2>2. PICK d \in Cells \ L : g[d][c] # 0
      BY <1>2, <2>1, WaitsFacts
    <2>3. d \in keep
      BY <2>1, <2>2 DEF Kept
    <2> QED BY <1>0, <2>2, <2>3
  <1>7. /\ Len(list) \in Nat /\ Len(tail) \in Nat /\ Len(full) = Len(list) + Len(tail)
        /\ \A i \in 1 .. Len(full) :
             full[i] = IF i <= Len(list) THEN list[i] ELSE tail[i - Len(list)]
        /\ \A i \in 1 .. Len(list) : list[i] \in L
        /\ \A i \in 1 .. Len(tail) : tail[i] \in Cells \ L
    <2>1. list \in Seq(Cells) /\ tail \in Seq(Cells)
      BY <1>2, <1>3 DEF Lists
    <2>2. Len(list) \in Nat /\ \A i \in 1 .. Len(list) : list[i] \in L
      BY <1>2, ListsFacts
    <2> HIDE DEF tail
    <2>3. Len(tail) \in Nat /\ \A i \in 1 .. Len(tail) : tail[i] \in Cells \ L
      <3> DEFINE T == Cells \ L
      <3> HIDE DEF T, L
      <3>1. Len(tail) \in Nat /\ \A i \in 1 .. Len(tail) : tail[i] \in T
        BY <1>3, ListsFacts DEF T
      <3> QED BY <3>1 DEF T
    <2>4. full = list \o tail
      BY <1>0 DEF tail
    <2> HIDE DEF L
    <2>5. /\ Len(full) = Len(list) + Len(tail)
          /\ \A i \in 1 .. Len(list) + Len(tail) :
               full[i] = IF i <= Len(list) THEN list[i] ELSE tail[i - Len(list)]
      BY <2>1, <2>4, ConcatProperties
    <2> QED BY <2>2, <2>3, <2>5
  <1>8. \A i, j \in 1 .. Len(list) : list[i] = list[j] => i = j
    BY <1>2, ListsFacts
  <1> HIDE DEF tail
  <1>9. ASSUME NEW i \in 1 .. Len(full)
        PROVE  /\ full[i] \in L => i \in 1 .. Len(list) /\ full[i] = list[i]
               /\ full[i] \notin L => i > Len(list)
    <2>1. CASE i <= Len(list)
      BY <1>7, <2>1
    <2>2. CASE i > Len(list)
      <3>1. i - Len(list) \in 1 .. Len(tail) /\ full[i] = tail[i - Len(list)]
        <4> DEFINE a == Len(list)
                   b == Len(tail)
                   e == Len(full)
        <4>1. a \in Nat /\ b \in Nat /\ e = a + b /\ i \in 1 .. e /\ i > a
          BY <1>7, <2>2
        <4>2. full[i] = IF i <= a THEN list[i] ELSE tail[i - a]
          BY <1>7
        <4> HIDE DEF a, b, e
        <4>3. i - a \in 1 .. b /\ ~(i <= a)
          BY <4>1
        <4>4. full[i] = tail[i - a]
          BY <4>2, <4>3
        <4> QED BY <4>3, <4>4 DEF a, b
      <3>2. full[i] \notin L
        BY <1>7, <3>1
      <3> QED BY <2>2, <3>2
    <2> QED BY <1>7, <2>1, <2>2
  <1>10. ASSUME NEW d \in L, NEW c \in Cells \ L
         PROVE  Before(full, d, c)
    <2> SUFFICES ASSUME NEW i \in 1 .. Len(full), NEW j \in 1 .. Len(full),
                        full[i] = d, full[j] = c
                 PROVE  i < j
      BY DEF Before
    <2>1. i \in 1 .. Len(list) /\ j > Len(list)
      BY <1>9, <1>10
    <2> HIDE DEF L
    <2> QED BY <1>7, <2>1
  <1>11. ASSUME NEW d \in Cells, NEW c \in keep \ fl, g[d][c] # 0, ~({c, d} \subseteq stuck)
         PROVE  Before(full, d, c)
    <2>1. d \in keep
      BY <1>11 DEF Kept
    <2>2. CASE c \in L
      <3> SUFFICES ASSUME NEW i \in 1 .. Len(full), NEW j \in 1 .. Len(full),
                          full[i] = d, full[j] = c
                   PROVE  i < j
        BY DEF Before
      <3>1. j \in 1 .. Len(list) /\ list[j] = c
        BY <1>9, <2>2
      <3>2. PICK m \in 1 .. j - 1 : list[m] = d
        BY <1>2, <1>11, <3>1 DEF Ordered
      <3>3. m \in 1 .. Len(list) /\ m < j
        BY <1>7, <3>1
      <3>4. i \in 1 .. Len(list) /\ list[i] = d
        BY <1>7, <1>9, <3>2, <3>3
      <3>5. i = m
        BY <1>8, <3>2, <3>3, <3>4
      <3> QED BY <3>3, <3>5
    <2>3. CASE c \notin L
      BY <1>0, <1>10, <1>11, <2>1, <2>3
    <2> QED BY <2>2, <2>3
  <1>12. \A d \in keep \ stuck, c \in Cells \ keep : Before(full, d, c)
    BY <1>0, <1>2, <1>10
  <1> QED BY <1>4, <1>5, <1>6, <1>11, <1>12 DEF full, stuck, Complete

-----------------------------------------------------------------------------
(* Where loops lead, and what leads to them.                               *)

LEMMA ReachFacts ==
  ASSUME NEW x \in Cells, NEW y \in Cells
  PROVE  /\ Comb(x, y) => y \in Reach(x) /\ Reach(y) \subseteq Reach(x)
         /\ \A z \in Cells : y \in Reach(x) /\ Comb(y, z) => z \in Reach(x)
  <1>1. \A z \in Cells : y \in Reach(x) /\ Comb(y, z) => z \in Reach(x)
    BY DEF Reach
  <1>2. Comb(x, y) => y \in Reach(x)
    BY DEF Reach
  <1>3. ASSUME Comb(x, y), NEW z \in Reach(y)
        PROVE  z \in Reach(x)
    <2>1. \A d \in Reach(x) \cup {y}, c \in Cells : Comb(d, c) => c \in Reach(x)
      <3>1. \A d \in Reach(x), c \in Cells : Comb(d, c) => c \in Reach(x)
        BY DEF Reach
      <3> QED BY <1>2, <1>3, <3>1
    <2>2. Reach(x) \in SUBSET Cells
      BY DEF Reach
    <2>3. \A S \in SUBSET Cells :
            (\A d \in S \cup {y}, c \in Cells : Comb(d, c) => c \in S) => z \in S
      BY <1>3 DEF Reach
    <2> HIDE DEF Reach, Comb
    <2> QED BY <2>1, <2>2, <2>3
  <1> QED BY <1>1, <1>2, <1>3

\* The cells FanOrder exempts.
Behind == Loop \cup UNION {Reach(x) : x \in Loop}
Ahead == Loop \cup {c \in Cells : Reach(c) \cap Loop # {}}

\* Cells of which each has a driver among them are behind a loop.
LEMMA BackToLoop ==
  ASSUME NEW V \in SUBSET Cells, \A v \in V : \E d \in V : Comb(d, v)
  PROVE  V \subseteq Behind
  <1> DEFINE W == V \ Behind
             Sizes == {Cardinality(Cells \ Reach(x)) : x \in W}
  <1> SUFFICES ASSUME W # {} PROVE FALSE
    OBVIOUS
  <1>1. \A x \in Cells : Reach(x) \in SUBSET Cells /\ Cells \ Reach(x) \in SUBSET Cells
    BY DEF Reach
  <1>2. Sizes \in SUBSET Nat /\ Sizes # {}
    <2>1. \A S \in SUBSET Cells : Cardinality(S) \in Nat
      BY SubsetFinite, CellsFinite
    <2> QED BY <1>1, <2>1
  <1>3. PICK least \in Sizes : \A m \in Sizes : least <= m
    <2> HIDE DEF Sizes
    <2> QED BY <1>2, Least
  <1>4. PICK x \in W : Cardinality(Cells \ Reach(x)) = least
    OBVIOUS
  <1>5. PICK d \in V : Comb(d, x)
    OBVIOUS
  <1>6. x \in Reach(d) /\ Reach(x) \subseteq Reach(d)
    BY <1>5, ReachFacts
  <1>7. d \in W
    <2>1. d \notin Loop
      BY <1>6 DEF Behind
    <2>2. \A y \in Loop : d \notin Reach(y)
      <3>1. \A y \in Loop : d \in Reach(y) => x \in Reach(y)
        BY <1>5, ReachFacts DEF Loop
      <3> QED BY <3>1 DEF Behind
    <2> QED BY <2>1, <2>2 DEF Behind
  <1>8. Cardinality(Cells \ Reach(x)) <= Cardinality(Cells \ Reach(d))
    BY <1>3, <1>4, <1>7
  <1>9. Cells \ Reach(d) \subseteq Cells \ Reach(x)
    BY <1>6
  <1>10. Cells \ Reach(d) = Cells \ Reach(x)
    <2> DEFINE A == Cells \ Reach(x)
               B == Cells \ Reach(d)
    <2>1. A \in SUBSET Cells /\ B \in SUBSET A /\ Cardinality(A) <= Cardinality(B)
      BY <1>8, <1>9
    <2> HIDE DEF A, B
    <2>2. Cardinality(B) <= Cardinality(A) /\ (Cardinality(B) = Cardinality(A) => B = A)
      BY <2>1, SubsetFinite
    <2>3. Cardinality(A) \in Nat /\ Cardinality(B) \in Nat
      BY <2>1, SubsetFinite, CellsFinite
    <2>4. B = A
      BY <2>1, <2>2, <2>3
    <2> QED BY <2>4 DEF A, B
  <1>11. x \in Reach(x)
    BY <1>1, <1>6, <1>10
  <1> QED BY <1>11 DEF Loop, Behind

\* Cells of which each drives one of them are ahead of a loop.
LEMMA AheadOfLoop ==
  ASSUME NEW V \in SUBSET Cells, \A v \in V : \E c \in V : Comb(v, c)
  PROVE  V \subseteq Ahead
  <1> DEFINE W == V \ Ahead
             Sizes == {Cardinality(Reach(x)) : x \in W}
  <1> SUFFICES ASSUME W # {} PROVE FALSE
    OBVIOUS
  <1>1. \A x \in Cells : Reach(x) \in SUBSET Cells
    BY DEF Reach
  <1>2. Sizes \in SUBSET Nat /\ Sizes # {}
    <2>1. \A S \in SUBSET Cells : Cardinality(S) \in Nat
      BY SubsetFinite, CellsFinite
    <2> QED BY <1>1, <2>1
  <1>3. PICK least \in Sizes : \A m \in Sizes : least <= m
    <2> HIDE DEF Sizes
    <2> QED BY <1>2, Least
  <1>4. PICK x \in W : Cardinality(Reach(x)) = least
    OBVIOUS
  <1>5. PICK c \in V : Comb(x, c)
    OBVIOUS
  <1>6. c \in Reach(x) /\ Reach(c) \subseteq Reach(x)
    BY <1>5, ReachFacts
  <1>7. c \in W
    BY <1>6 DEF Ahead
  <1>8. Cardinality(Reach(x)) <= Cardinality(Reach(c))
    BY <1>3, <1>4, <1>7
  <1>9. Reach(c) = Reach(x)
    <2> DEFINE A == Reach(x)
               B == Reach(c)
    <2>1. A \in SUBSET Cells /\ B \in SUBSET A /\ Cardinality(A) <= Cardinality(B)
      BY <1>1, <1>6, <1>8
    <2> HIDE DEF A, B
    <2>2. Cardinality(B) <= Cardinality(A) /\ (Cardinality(B) = Cardinality(A) => B = A)
      BY <2>1, SubsetFinite
    <2>3. Cardinality(A) \in Nat /\ Cardinality(B) \in Nat
      BY <2>1, SubsetFinite, CellsFinite
    <2>4. B = A
      BY <2>1, <2>2, <2>3
    <2> QED BY <2>4 DEF A, B
  <1>10. c \in Loop
    BY <1>6, <1>9 DEF Loop
  <1> QED BY <1>4, <1>6, <1>10 DEF Ahead

-----------------------------------------------------------------------------
(* Both passes.                                                            *)

Turned(w) == [d \in Cells |-> [c \in Cells |-> w[c][d]]]

Forwards ==
  \A d, c \in Cells :
    wires[d][c] # 0 /\ c \notin flops => Before(topolist, d, c) \/ {c, d} \subseteq Behind

Backwards ==
  \A d, c \in Cells :
    wires[d][c] # 0 /\ d \notin flops => Before(rtopolist, c, d) \/ {c, d} \subseteq Ahead

Netlist ==
  /\ wires \in [Cells -> [Cells -> 0 .. MaxParallel]]
  /\ flops \in SUBSET Cells /\ sinks \in SUBSET Cells
  /\ \A d \in Cells, c \in Cells \ sinks : wires[d][c] = 0

Sorted ==
  /\ Netlist
  /\ pc \in {"fwd", "bwd", "done"}
  /\ pc = "fwd" => /\ Pass(wires, Cells, flops, topolist, queue, cnt)
                   /\ check = Range(topolist) \cup Range(queue)
                   /\ rtopolist = << >>
  /\ pc # "fwd" => Lists(topolist, Cells) /\ Forwards
  /\ pc = "bwd" => /\ Pass(Turned(wires), sinks, flops, rtopolist, queue, cnt)
                   /\ check = Range(rtopolist)
  /\ pc = "done" => Lists(rtopolist, Cells) /\ Backwards

LEMMA NetlistFacts ==
  ASSUME Netlist
  PROVE  /\ wires \in Connections /\ Kept(wires, Cells)
         /\ Turned(wires) \in Connections /\ Kept(Turned(wires), sinks)
         /\ \A c \in Cells : /\ FanIn(wires, c) = Waits(wires, {}, c)
                             /\ FanOut(wires, c) = Waits(Turned(wires), {}, c)
  <1>1. wires \in Connections
    BY TopoAssumption DEF Netlist, Connections
  <1>2. Turned(wires) \in Connections /\ \A d, c \in Cells : Turned(wires)[d][c] = wires[c][d]
    BY <1>1 DEF Turned, Connections
  <1>3. Kept(wires, Cells) /\ Kept(Turned(wires), sinks)
    BY <1>2 DEF Kept, Netlist
  <1>4. ASSUME NEW c \in Cells
        PROVE  /\ FanIn(wires, c) = Waits(wires, {}, c)
               /\ FanOut(wires, c) = Waits(Turned(wires), {}, c)
    <2>1. Cells \ {} = Cells
      OBVIOUS
    <2>2. [d \in Cells |-> Turned(wires)[d][c]] = [d \in Cells |-> wires[c][d]]
      BY <1>2
    <2>3. /\ FanIn(wires, c) = Sums([d \in Cells |-> wires[d][c]])[Cells]
          /\ FanOut(wires, c) = Sums([d \in Cells |-> wires[c][d]])[Cells]
      <3>1. PICK w : w = wires
        OBVIOUS
      <3>2. w \in [Cells -> [Cells -> Nat]]
        BY <1>1, <3>1 DEF Connections
      <3>3. /\ FanIn(w, c) = Sums([d \in Cells |-> w[d][c]])[Cells]
            /\ FanOut(w, c) = Sums([d \in Cells |-> w[c][d]])[Cells]
        BY <3>2, FansAreSums
      <3> QED BY <3>1, <3>3
    <2>4. /\ Waits(wires, {}, c) = Sums([d \in Cells |-> wires[d][c]])[Cells]
          /\ Waits(Turned(wires), {}, c) = Sums([d \in Cells |-> Turned(wires)[d][c]])[Cells]
      BY <2>1 DEF Waits
    <2> QED BY <2>2, <2>3, <2>4
  <1> QED BY <1>1, <1>2, <1>3, <1>4

LEMMA SortedInit == Init => Sorted
  <1> SUFFICES ASSUME Init PROVE Sorted
    OBVIOUS
  <1>1. wires \in [Cells -> [Cells -> 0 .. MaxParallel]] /\ flops \in SUBSET Cells
        /\ sinks \in SUBSET Cells /\ \A c \in Cells : FanIn(wires, c) # 0 => c \in sinks
    BY DEF Init
  <1>2. \A d \in Cells, c \in Cells \ sinks : wires[d][c] = 0
    <2> TAKE d \in Cells, c \in Cells \ sinks
    <2>1. wires \in Connections
      BY <1>1, TopoAssumption DEF Connections
    <2> DEFINE f == [e \in Cells |-> wires[e][c]]
    <2>2. f \in [Cells -> Nat] /\ f[d] = wires[d][c]
      BY <2>1 DEF Connections
    <2>3. Sums(f)[Cells] = 0
      BY <1>1, <2>1, FansAreSums DEF Connections
    <2> HIDE DEF f
    <2> QED BY <2>2, <2>3, SumsZero
  <1>3. Netlist
    BY <1>1, <1>2 DEF Netlist
  <1>4. wires \in Connections /\ cnt = [c \in Cells |-> Waits(wires, {}, c)]
    BY <1>3, NetlistFacts DEF Init
  <1>5. {c \in Cells : cnt[c] = 0} = Free(wires)
    BY <1>4 DEF Free
  <1>6. /\ queue = Indexed(Free(wires)) \o Indexed(flops \ Free(wires))
        /\ check = Free(wires) \cup flops
        /\ topolist = << >> /\ rtopolist = << >> /\ pc = "fwd"
    BY <1>5 DEF Init, Sources
  <1>7. /\ Pass(wires, Cells, flops, << >>, Indexed(Free(wires)) \o Indexed(flops \ Free(wires)),
               [c \in Cells |-> Waits(wires, {}, c)])
        /\ Range(Indexed(Free(wires)) \o Indexed(flops \ Free(wires))) = Free(wires) \cup flops
    BY <1>1, <1>3, <1>4, NetlistFacts, PassInit
  <1>8. Pass(wires, Cells, flops, topolist, queue, cnt) /\ Range(queue) = check
    BY <1>4, <1>6, <1>7
  <1>9. Range(<< >>) = {}
    BY DEF Range
  <1> QED BY <1>3, <1>6, <1>8, <1>9 DEF Sorted

LEMMA BehindKept ==
  ASSUME UNCHANGED netlist
  PROVE  Behind' = Behind /\ Ahead' = Ahead
  <1>1. wires' = wires /\ flops' = flops
    BY DEF netlist
  <1>2. \A d, c : Comb(d, c)' = Comb(d, c)
    BY <1>1 DEF Comb
  <1>3. \A x : Reach(x)' = Reach(x)
    BY <1>2 DEF Reach
  <1>4. Loop' = Loop
    BY <1>3 DEF Loop
  <1> QED BY <1>3, <1>4 DEF Behind, Ahead

LEMMA ForwardStep ==
  ASSUME Sorted, Fwd
  PROVE  Sorted'
  <1> DEFINE cur == Head(queue)
             after == [c \in Cells |-> cnt[c] - wires[cur][c]]
  <1>1. /\ pc = "fwd" /\ queue # << >> /\ pc' = "fwd" /\ UNCHANGED netlist
        /\ topolist' = Append(topolist, cur) /\ cnt' = after
        /\ check' = check \cup Released(after) /\ rtopolist' = rtopolist
    BY DEF Fwd, netlist
  <1>2. PICK order \in SetToSeqs(Released(after)) : queue' = Tail(queue) \o order
    BY DEF Fwd
  <1>3. /\ Netlist /\ Pass(wires, Cells, flops, topolist, queue, cnt)
        /\ check = Range(topolist) \cup Range(queue) /\ rtopolist = << >>
    BY <1>1 DEF Sorted
  <1>4. PICK w, fl, s, q, n, k, ts, p, m :
          /\ w = wires /\ fl = flops /\ s = topolist /\ q = queue /\ n = cnt /\ k = check
          /\ ts = topolist' /\ p = queue' /\ m = cnt'
    OBVIOUS
  <1>5. Pass(w, Cells, fl, s, q, n) /\ q # << >>
    BY <1>1, <1>3, <1>4
  <1> DEFINE R == Freed(fl, n, m)
  <1>6. /\ m = Down(w, q, n)
        /\ order \in SetToSeqs(R) /\ R = Released(after) /\ p = Tail(q) \o order
        /\ ts = Append(s, Head(q))
    BY <1>1, <1>2, <1>4 DEF Released, Down, Freed
  <1>7. Head(q) \in Range(q) /\ Range(q) \subseteq Cells
    BY <1>5, ListsTail DEF Pass
  <1>8. ts = Taken(Cells, s, q)
    BY <1>6, <1>7 DEF Taken
  <1> HIDE DEF after, R
  <1>9. /\ Pass(w, Cells, fl, ts, p, m)
        /\ Range(ts) = IF Head(q) \in Cells THEN Range(s) \cup {Head(q)} ELSE Range(s)
        /\ Range(p) = (Range(q) \ {Head(q)}) \cup R
    <2>1. order \in SetToSeqs(Freed(fl, n, Down(w, q, n)))
      BY <1>6 DEF R
    <2>2. /\ Pass(w, Cells, fl, Taken(Cells, s, q), Tail(q) \o order, Down(w, q, n))
          /\ Range(Taken(Cells, s, q)) =
               IF Head(q) \in Cells THEN Range(s) \cup {Head(q)} ELSE Range(s)
          /\ Range(Tail(q) \o order) =
               (Range(q) \ {Head(q)}) \cup Freed(fl, n, Down(w, q, n))
      BY <1>5, <2>1, PassStep
    <2> QED BY <1>6, <1>8, <2>2 DEF R
  <1>10. check' = Range(ts) \cup Range(p)
    BY <1>1, <1>3, <1>4, <1>6, <1>7, <1>9
  <1> QED BY <1>1, <1>3, <1>4, <1>9, <1>10 DEF Sorted, Netlist, netlist

LEMMA BackwardStep ==
  ASSUME Sorted, Bwd
  PROVE  Sorted'
  <1> DEFINE cur == Head(queue)
             after == [c \in Cells |-> cnt[c] - wires[c][cur]]
  <1>1. /\ pc = "bwd" /\ queue # << >> /\ pc' = "bwd" /\ UNCHANGED netlist
        /\ rtopolist' = IF cur \in sinks THEN Append(rtopolist, cur) ELSE rtopolist
        /\ check' = IF cur \in sinks THEN check \cup {cur} ELSE check
        /\ cnt' = after /\ topolist' = topolist
    BY DEF Bwd, netlist
  <1>2. PICK order \in SetToSeqs(Released(after)) : queue' = Tail(queue) \o order
    BY DEF Bwd
  <1>3. /\ Netlist /\ Pass(Turned(wires), sinks, flops, rtopolist, queue, cnt)
        /\ check = Range(rtopolist) /\ Lists(topolist, Cells) /\ Forwards
    BY <1>1 DEF Sorted
  <1>4. PICK w, fl, keep, s, q, n, ts, p, m :
          /\ w = Turned(wires) /\ fl = flops /\ keep = sinks
          /\ s = rtopolist /\ q = queue /\ n = cnt
          /\ ts = rtopolist' /\ p = queue' /\ m = cnt'
    OBVIOUS
  <1>5. Pass(w, keep, fl, s, q, n) /\ q # << >>
    BY <1>1, <1>3, <1>4
  <1>6. Head(q) \in Range(q) /\ Range(q) \subseteq Cells
    BY <1>5, ListsTail DEF Pass
  <1> DEFINE R == Freed(fl, n, m)
  <1>7. /\ m = Down(w, q, n)
        /\ order \in SetToSeqs(R) /\ R = Released(after) /\ p = Tail(q) \o order
        /\ ts = Taken(keep, s, q)
    <2>1. \A c \in Cells : w[Head(q)][c] = wires[c][cur]
      BY <1>4, <1>6 DEF Turned
    <2> QED BY <1>1, <1>2, <1>4, <2>1 DEF Released, Down, Freed, Taken
  <1> HIDE DEF after, R
  <1>8. /\ Pass(w, keep, fl, ts, p, m)
        /\ Range(ts) = IF Head(q) \in keep THEN Range(s) \cup {Head(q)} ELSE Range(s)
    <2>1. order \in SetToSeqs(Freed(fl, n, Down(w, q, n)))
      BY <1>7 DEF R
    <2>2. /\ Pass(w, keep, fl, Taken(keep, s, q), Tail(q) \o order, Down(w, q, n))
          /\ Range(Taken(keep, s, q)) =
               IF Head(q) \in keep THEN Range(s) \cup {Head(q)} ELSE Range(s)
          /\ Range(Tail(q) \o order) =
               (Range(q) \ {Head(q)}) \cup Freed(fl, n, Down(w, q, n))
      BY <1>5, <2>1, PassStep
    <2> QED BY <1>7, <2>2 DEF R
  <1>9. check' = Range(ts)
    BY <1>1, <1>3, <1>4, <1>8
  <1>10. Forwards' /\ Turned(wires)' = w
    <2>1. Behind' = Behind
      BY <1>1, BehindKept
    <2>2. wires' = wires /\ flops' = flops
      BY <1>1 DEF netlist
    <2>3. Forwards'
      BY <1>1, <1>3, <2>1, <2>2 DEF Forwards
    <2> QED BY <1>4, <2>2, <2>3 DEF Turned
  <1> QED BY <1>1, <1>3, <1>4, <1>8, <1>9, <1>10 DEF Sorted, Netlist, netlist

LEMMA ForwardEnd ==
  ASSUME Sorted, FwdDone
  PROVE  Sorted'
  <1>1. /\ pc = "fwd" /\ queue = << >> /\ pc' = "bwd" /\ UNCHANGED netlist
        /\ topolist' = topolist \o Indexed(Cells \ check)
        /\ cnt' = [c \in Cells |-> FanOut(wires, c)] /\ check' = {}
        /\ queue' = Indexed({c \in Cells : cnt'[c] = 0})
                    \o Indexed(flops \ {c \in Cells : cnt'[c] = 0})
        /\ rtopolist' = rtopolist
    BY DEF FwdDone, netlist, Appended, Sources
  <1>2. /\ Netlist /\ Pass(wires, Cells, flops, topolist, << >>, cnt)
        /\ check = Range(topolist) \cup Range(<< >>) /\ rtopolist = << >>
    BY <1>1 DEF Sorted
  <1>3. Range(<< >>) = {}
    BY DEF Range
  <1>4. /\ wires \in Connections /\ Kept(wires, Cells) /\ flops \in SUBSET Cells
        /\ Turned(wires) \in Connections /\ Kept(Turned(wires), sinks) /\ sinks \in SUBSET Cells
        /\ \A c \in Cells : FanOut(wires, c) = Waits(Turned(wires), {}, c)
    BY <1>2, NetlistFacts DEF Netlist
  <1>5. PICK w, tw, fl, sk, s, n, ts :
          /\ w = wires /\ tw = Turned(wires) /\ fl = flops /\ sk = sinks
          /\ s = topolist /\ n = cnt /\ ts = topolist'
    OBVIOUS
  <1> DEFINE stuck == Cells \ Range(s)
  <1>6. Complete(w, Cells, fl, ts, stuck)
    <2>1. ts = s \o Indexed(Cells \ Range(s)) /\ Pass(w, Cells, fl, s, << >>, n)
      BY <1>1, <1>2, <1>3, <1>5
    <2> QED BY <2>1, PassEnd
  <1> HIDE DEF stuck
  <1>7. stuck \subseteq Behind
    <2>1. \A c \in stuck : \E d \in stuck : Comb(d, c)
      BY <1>5, <1>6 DEF Comb, Complete
    <2>2. stuck \in SUBSET Cells
      BY <1>6 DEF Complete
    <2> QED BY <2>1, <2>2, BackToLoop
  <1>8. Behind' = Behind /\ wires' = wires /\ flops' = flops
    BY <1>1, BehindKept DEF netlist
  <1>9. Forwards'
    <2>1. \A d, c \in Cells :
            w[d][c] # 0 /\ c \notin fl => Before(ts, d, c) \/ {c, d} \subseteq Behind
      BY <1>6, <1>7 DEF Complete
    <2> QED BY <1>5, <1>8, <2>1 DEF Forwards
  <1>10. /\ cnt' = [c \in Cells |-> Waits(tw, {}, c)]
         /\ {c \in Cells : cnt'[c] = 0} = Free(tw)
    BY <1>1, <1>4, <1>5 DEF Free
  <1>11. /\ Pass(tw, sk, fl, << >>, Indexed(Free(tw)) \o Indexed(fl \ Free(tw)),
                 [c \in Cells |-> Waits(tw, {}, c)])
    BY <1>4, <1>5, PassInit
  <1>12. Pass(tw, sk, fl, rtopolist', queue', cnt')
    BY <1>1, <1>2, <1>5, <1>10, <1>11
  <1>13. Turned(wires)' = tw
    BY <1>1, <1>5 DEF Turned, netlist
  <1> QED BY <1>1, <1>2, <1>3, <1>5, <1>6, <1>9, <1>12, <1>13 DEF Sorted, Netlist, netlist, Complete

LEMMA BackwardEnd ==
  ASSUME Sorted, BwdDone
  PROVE  Sorted'
  <1>1. /\ pc = "bwd" /\ queue = << >> /\ pc' = "done" /\ UNCHANGED netlist
        /\ rtopolist' = rtopolist \o Indexed(Cells \ check)
        /\ topolist' = topolist
    BY DEF BwdDone, netlist, Appended
  <1>2. /\ Netlist /\ Pass(Turned(wires), sinks, flops, rtopolist, << >>, cnt)
        /\ check = Range(rtopolist) /\ Lists(topolist, Cells) /\ Forwards
    BY <1>1 DEF Sorted
  <1>3. /\ Turned(wires) \in Connections /\ Kept(Turned(wires), sinks)
        /\ flops \in SUBSET Cells /\ sinks \in SUBSET Cells
    BY <1>2, NetlistFacts DEF Netlist
  <1>4. PICK w, fl, sk, s, n, ts :
          /\ w = Turned(wires) /\ fl = flops /\ sk = sinks
          /\ s = rtopolist /\ n = cnt /\ ts = rtopolist'
    OBVIOUS
  <1> DEFINE stuck == sk \ Range(s)
  <1>5. Complete(w, sk, fl, ts, stuck)
    <2>1. ts = s \o Indexed(Cells \ Range(s)) /\ Pass(w, sk, fl, s, << >>, n)
      BY <1>1, <1>2, <1>4
    <2> QED BY <2>1, PassEnd
  <1> HIDE DEF stuck
  <1>6. \A d, c \in Cells : w[d][c] = wires[c][d]
    BY <1>4 DEF Turned
  <1>7. stuck \subseteq Cells /\ stuck \subseteq Ahead
    <2>1. stuck \in SUBSET Cells
      BY <1>3, <1>4, <1>5 DEF Complete
    <2>2. \A c \in stuck : \E d \in stuck : Comb(c, d)
      BY <1>4, <1>5, <1>6, <2>1 DEF Comb, Complete
    <2> QED BY <2>1, <2>2, AheadOfLoop
  <1>8. ASSUME NEW d \in Cells, NEW c \in Cells, wires[d][c] # 0, d \notin flops
        PROVE  Before(ts, c, d) \/ {c, d} \subseteq Ahead
    <2>1. CASE d \in sinks
      BY <1>4, <1>5, <1>6, <1>7, <1>8, <2>1 DEF Complete
    <2>2. CASE d \notin sinks
      <3>1. c \in sinks
        BY <1>2, <1>8 DEF Netlist
      <3>2. CASE c \notin stuck
        BY <1>4, <1>5, <2>2, <3>1, <3>2 DEF Complete
      <3>3. CASE c \in stuck
        <4>1. Comb(d, c) /\ c \in Ahead
          BY <1>4, <1>5, <1>7, <1>8, <3>3 DEF Comb, Complete
        <4>2. c \in Reach(d) /\ Reach(c) \subseteq Reach(d)
          BY <4>1, ReachFacts
        <4>3. d \in Ahead
          BY <4>1, <4>2 DEF Ahead
        <4> QED BY <4>1, <4>3
      <3> QED BY <3>2, <3>3
    <2> QED BY <2>1, <2>2
  <1>9. Behind' = Behind /\ Ahead' = Ahead /\ wires' = wires /\ flops' = flops
    BY <1>1, BehindKept DEF netlist
  <1>10. Backwards'
    BY <1>4, <1>8, <1>9 DEF Backwards
  <1>11. Forwards'
    BY <1>1, <1>2, <1>9 DEF Forwards
  <1> QED BY <1>1, <1>2, <1>4, <1>5, <1>10, <1>11 DEF Sorted, Netlist, netlist, Complete

(* What a pass keeps: the list and the queue share no cell, the counters   *)
(* count exactly the connections to cells not yet listed, and a cell is    *)
(* queued or listed if and only if none is left.                           *)
THEOREM AlwaysSorted == Spec => []Sorted
  <1>1. Sorted /\ [Next]_vars => Sorted'
    <2> SUFFICES ASSUME Sorted, [Next]_vars PROVE Sorted'
      OBVIOUS
    <2>1. CASE UNCHANGED vars
      <3>1. /\ UNCHANGED netlist /\ wires' = wires /\ flops' = flops /\ sinks' = sinks
            /\ queue' = queue /\ cnt' = cnt /\ check' = check /\ pc' = pc
            /\ topolist' = topolist /\ rtopolist' = rtopolist
        BY <2>1 DEF vars, netlist
      <3>2. Behind' = Behind /\ Ahead' = Ahead
        BY <3>1, BehindKept
      <3>3. Forwards' = Forwards /\ Backwards' = Backwards
        BY <3>1, <3>2 DEF Forwards, Backwards
      <3>4. Netlist' = Netlist
        BY <3>1 DEF Netlist
      <3> QED BY <3>1, <3>3, <3>4 DEF Sorted
    <2> QED BY <2>1, ForwardStep, ForwardEnd, BackwardStep, BackwardEnd DEF Next
  <1> QED BY <1>1, SortedInit, PTL DEF Spec

\* A list of the cells is as long as their number.
LEMMA ListsLength ==
  ASSUME NEW s, Lists(s, Cells)
  PROVE  Len(s) = N /\ Range(s) = Cells
  <1> DEFINE k == Len(s)
  <1>1. /\ k \in Nat /\ DOMAIN s = 1 .. k
        /\ \A i \in 1 .. k : s[i] \in Cells
        /\ \A i, j \in 1 .. k : s[i] = s[j] => i = j
        /\ \A x \in Cells : \E i \in 1 .. k : s[i] = x
    BY ListsFacts
  <1>2. s \in [1 .. k -> Cells]
    BY <1>1, LenProperties DEF Lists
  <1> HIDE DEF k
  <1>3. s \in Bijection(1 .. k, Cells)
    BY <1>1, <1>2 DEF Bijection, Injection, Surjection, IsInjective
  <1>4. Cardinality(Cells) = k
    BY <1>1, <1>3, FS_CountingElements DEF ExistsBijection
  <1> QED BY <1>4, CellsFinite DEF Lists, k

(* SortTopo drops no cell and names none twice, whatever the netlist.      *)
THEOREM ListsEachCellOnce == Spec => []EachOnce
  <1>1. Sorted => EachOnce
    BY ListsLength DEF Sorted, EachOnce
  <1> QED BY <1>1, AlwaysSorted, PTL

(* The order of both lists: a cell follows all its drivers (all it drives) *)
(* unless a combinational loop is behind (ahead of) both.                  *)
THEOREM FollowsFans == Spec => []FanOrder
  <1>1. Sorted => FanOrder
    BY DEF Sorted, FanOrder, Forwards, Backwards, Behind, Ahead
  <1> QED BY <1>1, AlwaysSorted, PTL


-----------------------------------------------------------------------------
(* On a sorted netlist without loops a cell is met after all its drivers   *)
(* in topolist, after all it drives in rtopolist.                          *)

InOrder ==
  /\ Netlist /\ Lists(topolist, Cells) /\ Lists(rtopolist, Cells)
  /\ \A d, c \in Cells : wires[d][c] # 0 =>
       /\ c \notin flops => Before(topolist, d, c)
       /\ d \notin flops => Before(rtopolist, c, d)

LEMMA SortedInOrder ==
  ASSUME Sorted, pc = "done", LoopFree
  PROVE  InOrder
  <1>1. Behind = {} /\ Ahead = {}
    BY DEF LoopFree, Behind, Ahead
  <1> QED BY <1>1 DEF Sorted, InOrder, Forwards, Backwards

LEMMA PinFacts ==
  ASSUME Netlist
  PROVE  /\ 0 \notin Cells /\ PO \notin Cells /\ PO # 0
         /\ \A c \in Cells : Fi(c) \subseteq Drivers
         /\ \A d, c \in Cells : d \in Fi(c) <=> wires[d][c] # 0
         /\ \A d \in Drivers, c \in Cells : c \in Fo(d) <=> d \in Fi(c)
         /\ \A d \in Drivers : Fo(d) \subseteq Cells \cup {PO}
  <1>1. 0 \notin Cells /\ PO \notin Cells /\ PO # 0
    BY TopoAssumption DEF Cells, PO
  <1>2. \A c \in Cells : Fi(c) \subseteq Drivers
    BY DEF Fi, Drivers
  <1>3. \A d, c \in Cells : d \in Fi(c) <=> wires[d][c] # 0
    BY <1>1 DEF Fi
  <1>4. \A d \in Drivers, c \in Cells : c \in Fo(d) <=> d \in Fi(c)
    BY <1>1, <1>3 DEF Fo, Drivers
  <1>5. \A d \in Drivers : Fo(d) \subseteq Cells \cup {PO}
    BY DEF Fo
  <1> QED BY <1>1, <1>2, <1>3, <1>4, <1>5

-----------------------------------------------------------------------------
(* Totals over any finite set, plain or modulo the word.                   *)

Added(word, a, b) == IF word THEN Plus(b, a) ELSE a + b

IsTotals(sum, word, f, dom) ==
  sum = [S \in dom |-> IF S = {} THEN 0 ELSE Added(word, f[Pick(S)], sum[S \ {Pick(S)}])]

Totals(word, f, D) == CHOOSE sum : IsTotals(sum, word, f, SUBSET D)
Whole(word, f, D) == Totals(word, f, D)[D]

FewOf(D, n) == {S \in SUBSET D : Cardinality(S) <= n}

LEMMA PartFinite ==
  ASSUME NEW D, IsFiniteSet(D), NEW S \in SUBSET D
  PROVE  /\ Cardinality(S) \in Nat /\ Cardinality(S) <= Cardinality(D)
         /\ S # {} => /\ Pick(S) \in S /\ S \ {Pick(S)} \in SUBSET D
                      /\ Cardinality(S \ {Pick(S)}) = Cardinality(S) - 1
                      /\ Cardinality(S) - 1 \in Nat
  <1>1. IsFiniteSet(S) /\ Cardinality(S) <= Cardinality(D)
    BY FS_Subset
  <1>2. Cardinality(S) \in Nat
    BY <1>1, FS_CardinalityType
  <1>3. ASSUME S # {}
        PROVE  /\ Pick(S) \in S /\ S \ {Pick(S)} \in SUBSET D
               /\ Cardinality(S \ {Pick(S)}) = Cardinality(S) - 1
               /\ Cardinality(S) - 1 \in Nat
    <2>1. Pick(S) \in S
      BY <1>3 DEF Pick
    <2>2. Cardinality(S \ {Pick(S)}) = Cardinality(S) - 1 /\ IsFiniteSet(S \ {Pick(S)})
      BY <1>1, <2>1, FS_RemoveElement
    <2>3. Cardinality(S \ {Pick(S)}) \in Nat
      BY <2>2, FS_CardinalityType
    <2> QED BY <2>1, <2>2, <2>3
  <1> QED BY <1>1, <1>2, <1>3

LEMMA TotalsExist ==
  ASSUME NEW D, IsFiniteSet(D), NEW f, NEW word
  PROVE  IsTotals(Totals(word, f, D), word, f, SUBSET D)
  <1> DEFINE Bad == {n \in Nat : ~ \E sum : IsTotals(sum, word, f, FewOf(D, n))}
  <1>0. Cardinality(D) \in Nat
    BY PartFinite
  <1>1. CASE Bad = {}
    <2>1. PICK sum : IsTotals(sum, word, f, FewOf(D, Cardinality(D)))
      BY <1>0, <1>1
    <2>2. FewOf(D, Cardinality(D)) = SUBSET D
      BY PartFinite DEF FewOf
    <2> QED BY <2>1, <2>2 DEF Totals
  <1>2. CASE Bad # {}
    <2>1. PICK n \in Bad : \A m \in Bad : n <= m
      BY <1>2, Least
    <2>2. \A S \in FewOf(D, n) : S # {} => /\ Pick(S) \in S /\ S \ {Pick(S)} \in SUBSET D
                                           /\ Cardinality(S \ {Pick(S)}) = Cardinality(S) - 1
                                           /\ Cardinality(S) - 1 \in Nat
                                           /\ Cardinality(S) \in Nat /\ Cardinality(S) <= n
      BY PartFinite DEF FewOf
    <2>3. CASE n = 0
      <3>1. \A S \in FewOf(D, n) : S = {}
        <4>1. ASSUME NEW S \in FewOf(D, n), S # {} PROVE FALSE
          <5>1. Cardinality(S) - 1 \in Nat /\ Cardinality(S) \in Nat /\ Cardinality(S) <= n
            BY <2>2, <4>1
          <5> QED BY <2>3, <5>1
        <4> QED BY <4>1
      <3>2. IsTotals([S \in FewOf(D, n) |-> 0], word, f, FewOf(D, n))
        BY <3>1 DEF IsTotals
      <3> QED BY <3>2
    <2>4. CASE n # 0
      <3>1. n - 1 \in Nat /\ n - 1 \notin Bad
        BY <2>1, <2>4
      <3>2. PICK g : IsTotals(g, word, f, FewOf(D, n - 1))
        BY <3>1
      <3> DEFINE h == [S \in FewOf(D, n) |->
                         IF S = {} THEN 0 ELSE Added(word, f[Pick(S)], g[S \ {Pick(S)}])]
      <3>3. \A S \in FewOf(D, n - 1) : S \in FewOf(D, n) /\ h[S] = g[S]
        <4>1. ASSUME NEW S \in FewOf(D, n - 1) PROVE S \in FewOf(D, n)
          <5>1. n \in Nat /\ S \in SUBSET D /\ Cardinality(S) <= n - 1
            BY <2>1 DEF FewOf
          <5>2. Cardinality(S) \in Nat
            BY <5>1, PartFinite
          <5>3. Cardinality(S) <= n
            <6> HIDE DEF Bad
            <6> QED BY <3>1, <5>1, <5>2
          <5> QED BY <5>1, <5>3 DEF FewOf
        <4>2. \A S \in FewOf(D, n - 1) :
                g[S] = IF S = {} THEN 0 ELSE Added(word, f[Pick(S)], g[S \ {Pick(S)}])
          BY <3>2 DEF IsTotals
        <4> QED BY <4>1, <4>2
      <3>4. \A S \in FewOf(D, n) : S # {} => S \ {Pick(S)} \in FewOf(D, n - 1)
        BY <2>1, <2>2 DEF FewOf
      <3>5. IsTotals(h, word, f, FewOf(D, n))
        BY <3>3, <3>4 DEF IsTotals
      <3> QED BY <3>5
    <2> QED BY <2>3, <2>4
  <1> QED BY <1>1, <1>2

\* A total that fits its word is the plain one.
LEMMA TotalFits ==
  ASSUME NEW D, IsFiniteSet(D), NEW f, \A x \in D : f[x] \in Nat
  PROVE  /\ Whole(FALSE, f, D) \in Nat
         /\ Whole(FALSE, f, D) < Word => Whole(TRUE, f, D) = Whole(FALSE, f, D)
  <1> DEFINE plain == Totals(FALSE, f, D)
             mod == Totals(TRUE, f, D)
             Good(S) == plain[S] \in Nat /\ (plain[S] < Word => mod[S] = plain[S])
             Bad == {n \in Nat : \E S \in SUBSET D : Cardinality(S) = n /\ ~Good(S)}
  <1>1. \A S \in SUBSET D :
          /\ plain[S] = IF S = {} THEN 0 ELSE f[Pick(S)] + plain[S \ {Pick(S)}]
          /\ mod[S] = IF S = {} THEN 0 ELSE (mod[S \ {Pick(S)}] + f[Pick(S)]) % Word
    <2>1. IsTotals(plain, FALSE, f, SUBSET D) /\ IsTotals(mod, TRUE, f, SUBSET D)
      BY TotalsExist
    <2> HIDE DEF plain, mod
    <2> QED BY <2>1 DEF IsTotals, Added, Plus
  <1> HIDE DEF plain, mod
  <1>2. Bad = {}
    <2> SUFFICES ASSUME Bad # {} PROVE FALSE
      OBVIOUS
    <2>1. PICK n \in Bad : \A m \in Bad : n <= m
      <3>1. Bad \in SUBSET Nat
        OBVIOUS
      <3> HIDE DEF Bad
      <3> QED BY <3>1, Least
    <2>2. PICK S \in SUBSET D : Cardinality(S) = n /\ ~Good(S)
      BY <2>1
    <2>3. S # {}
      <3>1. {} \in SUBSET D
        OBVIOUS
      <3>2. plain[{}] = 0 /\ mod[{}] = 0
        BY <1>1, <3>1
      <3>3. Good({})
        BY <3>2
      <3> QED BY <2>2, <3>3
    <2> DEFINE T == S \ {Pick(S)}
               a == f[Pick(S)]
    <2>4. Pick(S) \in D /\ T \in SUBSET D /\ Cardinality(T) = n - 1 /\ n - 1 \in Nat
      BY <2>2, <2>3, PartFinite
    <2>5. a \in Nat
      BY <2>4
    <2>6. Good(T)
      <3>1. n - 1 \notin Bad
        <4>1. n \in Nat
          BY <2>1
        <4> HIDE DEF Bad
        <4> QED BY <2>1, <2>4, <4>1
      <3> QED BY <2>4, <3>1
    <2>7. plain[S] = a + plain[T] /\ mod[S] = (mod[T] + a) % Word
      BY <1>1, <2>3
    <2> HIDE DEF T, a
    <2>8. plain[S] < Word => mod[S] = plain[S]
      <3>1. ASSUME plain[S] < Word PROVE mod[S] = plain[S]
        <4>1. plain[T] < Word /\ mod[T] = plain[T]
          BY <2>5, <2>6, <2>7, <3>1, PathsAssumption
        <4>2. \A m \in Nat : m < Word => m % Word = m
          BY PathsAssumption
        <4> QED BY <2>5, <2>6, <2>7, <3>1, <4>1, <4>2
      <3> QED BY <3>1
    <2> QED BY <2>2, <2>5, <2>6, <2>7, <2>8
  <1>3. Cardinality(D) \in Nat /\ D \in SUBSET D
    BY PartFinite
  <1>4. Good(D)
    BY <1>2, <1>3
  <1> QED BY <1>4 DEF Whole, plain, mod

-----------------------------------------------------------------------------
(* Sums over the neighbours of the cells of a net: g.near[c] beside c, with *)
(* g.mult[c] wires to each, and g.base at what is not a cell.              *)

Weighed(g, x, c) == [k \in g.near[c] |-> g.mult[c][k] * x[k]]
Gathered(g, x, c) == Whole(FALSE, Weighed(g, x, c), g.near[c])
Wrapped(g, x, c) == Whole(TRUE, Weighed(g, x, c), g.near[c])

IsNet(g, list) ==
  /\ Cells \subseteq g.all /\ g.base \in Nat
  /\ Lists(list, Cells) /\ Len(list) = N
  /\ \A c \in Cells : /\ IsFiniteSet(g.near[c]) /\ g.near[c] \subseteq g.all
                      /\ \A k \in g.near[c] : g.mult[c][k] \in Nat
  /\ \A c \in Cells \ flops : \A k \in g.near[c] : k \in Cells => Before(list, k, c)

Solves(x, g, through) ==
  /\ \A k \in g.all : k \notin Cells => x[k] = g.base
  /\ \A c \in Cells : x[c] = IF c \notin through THEN 0
                             ELSE IF c \in flops THEN 1 ELSE Wrapped(g, x, c)

IsWalks(w, g, through, n) ==
  w = [m \in 0 .. n |-> [k \in g.all |->
         IF k \notin Cells THEN g.base ELSE IF k \notin through THEN 0
         ELSE IF k \in flops THEN 1 ELSE IF m = 0 THEN 0 ELSE Gathered(g, w[m - 1], k)]]

LEMMA WalksExist ==
  ASSUME NEW g, NEW through, NEW n \in Nat
  PROVE  \E w : IsWalks(w, g, through, n)
  <1> DEFINE Bad == {m \in 0 .. n : ~ \E w : IsWalks(w, g, through, m)}
  <1> SUFFICES ASSUME Bad # {} PROVE FALSE
    OBVIOUS
  <1>1. PICK m \in Bad : \A k \in Bad : m <= k
    <2>1. Bad \in SUBSET Nat
      OBVIOUS
    <2> HIDE DEF Bad
    <2> QED BY <2>1, Least
  <1>2. m # 0
    <2>1. IsWalks([i \in 0 .. 0 |-> [k \in g.all |->
            IF k \notin Cells THEN g.base ELSE IF k \notin through THEN 0
            ELSE IF k \in flops THEN 1 ELSE 0]], g, through, 0)
      BY DEF IsWalks
    <2> QED BY <2>1
  <1>3. m \in 1 .. n /\ m - 1 \in 0 .. n /\ m - 1 \notin Bad
    <2>1. m \in 1 .. n
      BY <1>2
    <2> HIDE DEF Bad
    <2> QED BY <1>1, <2>1
  <1>4. PICK v : IsWalks(v, g, through, m - 1)
    BY <1>3
  <1> DEFINE Row(i, u) == [k \in g.all |->
                IF k \notin Cells THEN g.base ELSE IF k \notin through THEN 0
                ELSE IF k \in flops THEN 1 ELSE IF i = 0 THEN 0 ELSE Gathered(g, u[i - 1], k)]
             h == [i \in 0 .. m |-> Row(i, v)]
  <1>5. \A i \in 0 .. m - 1 : i \in 0 .. m /\ h[i] = v[i]
    <2>1. v = [i \in 0 .. m - 1 |-> Row(i, v)]
      BY <1>4 DEF IsWalks
    <2>2. \A i \in 0 .. m - 1 : i \in 0 .. m
      BY <1>3
    <2> HIDE DEF Row
    <2> QED BY <2>1, <2>2
  <1>6. \A i \in 0 .. m : i # 0 => i - 1 \in 0 .. m - 1
    BY <1>3
  <1>7. \A i \in 0 .. m : i # 0 => h[i - 1] = v[i - 1]
    BY <1>5, <1>6
  <1>8. \A i \in 0 .. m : Row(i, v) = Row(i, h)
    <2> HIDE DEF h
    <2> QED BY <1>7
  <1>9. h = [i \in 0 .. m |-> Row(i, h)]
    <2> HIDE DEF Row
    <2> QED BY <1>8
  <1>10. IsWalks(h, g, through, m)
    <2> HIDE DEF h
    <2> QED BY <1>9 DEF IsWalks
  <1> QED BY <1>10

(* Walks of at most n cells no longer change for the cells among the first *)
(* n of a sorted list, so they are what one sweep along it computes, as    *)
(* long as the numbers fit.                                                *)
LEMMA WalksSolve ==
  ASSUME NEW g, NEW list, IsNet(g, list), NEW through, NEW x, Solves(x, g, through),
         NEW w, IsWalks(w, g, through, N), \A c \in Cells : w[N][c] < Word
  PROVE  \A k \in g.all : x[k] = w[N][k] /\ x[k] \in Nat
  <1> DEFINE Good(j) == \A m \in j .. N : x[list[j]] = w[m][list[j]] /\ x[list[j]] \in Nat
             Bad == {j \in 1 .. N : ~Good(j)}
  <1>1. /\ N \in Nat
        /\ \A j \in 1 .. N : list[j] \in Cells
        /\ \A c \in Cells : \E j \in 1 .. N : list[j] = c
    BY ListsFacts, TopoAssumption DEF IsNet
  <1>2. \A m \in 0 .. N, k \in g.all :
          w[m][k] = IF k \notin Cells THEN g.base ELSE IF k \notin through THEN 0
                    ELSE IF k \in flops THEN 1 ELSE IF m = 0 THEN 0 ELSE Gathered(g, w[m - 1], k)
    <2> DEFINE Row(m) == [k \in g.all |->
                  IF k \notin Cells THEN g.base ELSE IF k \notin through THEN 0
                  ELSE IF k \in flops THEN 1 ELSE IF m = 0 THEN 0 ELSE Gathered(g, w[m - 1], k)]
    <2>1. \A m \in 0 .. N : w[m] = Row(m)
      <3>1. w = [m \in 0 .. N |-> Row(m)]
        BY DEF IsWalks
      <3> HIDE DEF Row
      <3> QED BY <3>1
    <2>2. \A m : \A k \in g.all :
            Row(m)[k] = IF k \notin Cells THEN g.base ELSE IF k \notin through THEN 0
                        ELSE IF k \in flops THEN 1 ELSE IF m = 0 THEN 0 ELSE Gathered(g, w[m - 1], k)
      OBVIOUS
    <2> HIDE DEF Row
    <2> QED BY <2>1, <2>2
  <1>3. \A k \in g.all : k \notin Cells => \A m \in 0 .. N : x[k] = w[m][k] /\ x[k] \in Nat
    BY <1>2 DEF Solves, IsNet
  <1>4. Bad = {}
    <2> SUFFICES ASSUME Bad # {} PROVE FALSE
      OBVIOUS
    <2>1. PICK j \in Bad : \A i \in Bad : j <= i
      <3>1. Bad \in SUBSET Nat
        OBVIOUS
      <3> HIDE DEF Bad
      <3> QED BY <3>1, Least
    <2> DEFINE c == list[j]
    <2>2. j \in 1 .. N /\ c \in Cells /\ c \in g.all /\ ~Good(j)
      BY <1>1, <2>1 DEF IsNet
    <2>3. \A i \in 1 .. N : i < j => Good(i)
      <3>1. \A i \in 1 .. N : i < j => i \notin Bad
        <4> HIDE DEF Bad
        <4> QED BY <2>1, <2>2
      <3> HIDE DEF Good
      <3> QED BY <3>1
    <2>4. x[c] = IF c \notin through THEN 0
                 ELSE IF c \in flops THEN 1 ELSE Wrapped(g, x, c)
      BY <2>2 DEF Solves
    <2>5. CASE c \notin through \/ c \in flops
      <3>1. \A m \in j .. N : m \in 0 .. N
        BY <1>1, <2>2
      <3> HIDE DEF c
      <3>2. \A m \in j .. N : x[c] = w[m][c] /\ x[c] \in Nat
        BY <1>2, <2>2, <2>4, <2>5, <3>1
      <3> QED BY <2>2, <3>2 DEF c
    <2>6. CASE c \in through /\ c \notin flops
      <3>1. ASSUME NEW m \in j .. N, NEW k \in g.near[c]
            PROVE  w[m - 1][k] = x[k] /\ x[k] \in Nat
        <4>1. k \in g.all /\ m - 1 \in 0 .. N /\ m - 1 >= j - 1
          BY <1>1, <2>2 DEF IsNet
        <4>2. CASE k \notin Cells
          BY <1>3, <4>1, <4>2
        <4>3. CASE k \in Cells
          <5>1. PICK i \in 1 .. N : list[i] = k
            BY <1>1, <4>3
          <5>2. Before(list, k, c)
            BY <2>2, <2>6, <4>3 DEF IsNet
          <5>3. i < j
            BY <2>2, <5>1, <5>2 DEF Before, IsNet
          <5>4. Good(i) /\ m - 1 \in i .. N
            BY <1>1, <2>2, <2>3, <4>1, <5>3
          <5> QED BY <5>1, <5>4
        <4> QED BY <4>2, <4>3
      <3> DEFINE f == Weighed(g, x, c)
      <3>2. \A m \in j .. N : Weighed(g, w[m - 1], c) = f
        BY <3>1 DEF Weighed
      <3>3. \A m \in j .. N : w[m][c] = Whole(FALSE, f, g.near[c])
        <4>1. \A m \in j .. N : m \in 0 .. N /\ m # 0
          BY <1>1, <2>2
        <4> HIDE DEF c, f
        <4> QED BY <1>2, <2>2, <2>6, <3>2, <4>1 DEF Gathered
      <3>4. \A k \in g.near[c] : f[k] \in Nat
        <4>1. j \in j .. N
          BY <1>1, <2>2
        <4>2. \A k \in g.near[c] : x[k] \in Nat /\ g.mult[c][k] \in Nat
          BY <2>2, <3>1, <4>1 DEF IsNet
        <4>3. \A k \in g.near[c] : g.mult[c][k] * x[k] \in Nat
          BY <4>2
        <4> QED BY <4>3 DEF Weighed
      <3>5. IsFiniteSet(g.near[c])
        BY <2>2 DEF IsNet
      <3>6. N \in j .. N /\ w[N][c] < Word
        BY <1>1, <2>2
      <3> DEFINE D == g.near[c]
      <3>7. /\ Whole(FALSE, f, D) \in Nat
            /\ Whole(FALSE, f, D) < Word => Whole(TRUE, f, D) = Whole(FALSE, f, D)
        <4> HIDE DEF f, D
        <4>1. IsFiniteSet(D) /\ \A k \in D : f[k] \in Nat
          BY <3>4, <3>5 DEF D
        <4> QED BY <4>1, TotalFits
      <3>8. x[c] = Whole(TRUE, f, D)
        BY <2>4, <2>6 DEF Wrapped
      <3>9. \A m \in j .. N : x[c] = w[m][c] /\ x[c] \in Nat
        <4> HIDE DEF f, c
        <4> QED BY <3>3, <3>6, <3>7, <3>8
      <3> QED BY <2>2, <3>9
    <2> QED BY <2>5, <2>6
  <1>5. ASSUME NEW c \in Cells PROVE x[c] = w[N][c] /\ x[c] \in Nat
    <2>1. PICK j \in 1 .. N : list[j] = c
      BY <1>1
    <2>2. Good(j) /\ N \in j .. N
      BY <1>1, <1>4
    <2> QED BY <2>1, <2>2
  <1>6. N \in 0 .. N
    BY <1>1
  <1> QED BY <1>3, <1>5, <1>6

-----------------------------------------------------------------------------
(* The two nets: drivers towards the inputs, loads towards the outputs.    *)

ToInputs(perInput) ==
  [all |-> Drivers, base |-> perInput, near |-> [c \in Cells |-> Fi(c)],
   mult |-> [c \in Cells |-> [d \in Fi(c) |-> Mult(d, c)]]]
ToOutputs ==
  [all |-> Cells \cup {PO}, base |-> 0, near |-> [c \in Cells |-> Fo(c)],
   mult |-> [c \in Cells |-> [s \in Fo(c) |-> Mult(c, s)]]]

LEMMA NetsSorted ==
  ASSUME InOrder, NEW perInput \in Nat
  PROVE  IsNet(ToInputs(perInput), topolist) /\ IsNet(ToOutputs, rtopolist)
  <1>1. /\ Netlist /\ Lists(topolist, Cells) /\ Lists(rtopolist, Cells)
        /\ Len(topolist) = N /\ Len(rtopolist) = N
    BY ListsLength DEF InOrder
  <1>2. /\ 0 \notin Cells /\ PO \notin Cells /\ PO # 0
        /\ \A c \in Cells : Fi(c) \subseteq Drivers
        /\ \A d, c \in Cells : d \in Fi(c) <=> wires[d][c] # 0
        /\ \A d \in Drivers, c \in Cells : c \in Fo(d) <=> d \in Fi(c)
        /\ \A d \in Drivers : Fo(d) \subseteq Cells \cup {PO}
    BY <1>1, PinFacts
  <1>3. IsFiniteSet(Drivers) /\ IsFiniteSet(Cells \cup {PO})
    BY CellsFinite, FS_AddElement, FS_Singleton, FS_Union DEF Drivers
  <1>4. \A c \in Cells : IsFiniteSet(Fi(c)) /\ IsFiniteSet(Fo(c)) /\ c \in Drivers
    BY <1>2, <1>3, FS_Subset DEF Drivers
  <1>5. \A d, c \in Cells : wires[d][c] \in Nat
    BY <1>1, TopoAssumption DEF Netlist
  <1>6. \A c \in Cells : \A d \in Fi(c) : Mult(d, c) \in Nat
    BY <1>2, <1>5 DEF Mult, Drivers
  <1>7. \A c \in Cells : \A s \in Fo(c) : Mult(c, s) \in Nat
    BY <1>2, <1>4, <1>5 DEF Mult
  <1>8. IsNet(ToInputs(perInput), topolist)
    <2> DEFINE g == ToInputs(perInput)
    <2>1. /\ g.all = Drivers /\ g.base = perInput
          /\ \A c \in Cells : g.near[c] = Fi(c) /\ \A d \in Fi(c) : g.mult[c][d] = Mult(d, c)
      BY DEF ToInputs
    <2> HIDE DEF g
    <2>2. \A c \in Cells \ flops : \A k \in Fi(c) : k \in Cells => Before(topolist, k, c)
      BY <1>2 DEF InOrder
    <2>3. IsNet(g, topolist)
      BY <1>1, <1>2, <1>4, <1>6, <2>1, <2>2 DEF IsNet, Drivers
    <2> QED BY <2>3 DEF g
  <1>9. IsNet(ToOutputs, rtopolist)
    <2> DEFINE g == ToOutputs
    <2>1. /\ g.all = Cells \cup {PO} /\ g.base = 0
          /\ \A c \in Cells : g.near[c] = Fo(c) /\ \A s \in Fo(c) : g.mult[c][s] = Mult(c, s)
      BY DEF ToOutputs
    <2> HIDE DEF g
    <2>2. \A c \in Cells \ flops : \A k \in Fo(c) : k \in Cells => Before(rtopolist, k, c)
      BY <1>2, <1>4 DEF InOrder
    <2>3. IsNet(g, rtopolist)
      BY <1>1, <1>2, <1>4, <1>7, <2>1, <2>2 DEF IsNet
    <2> QED BY <2>3 DEF g
  <1> QED BY <1>8, <1>9

\* The model's folds are these sums.
LEMMA FoldsAreSums ==
  ASSUME NEW perInput, NEW c \in Cells
  PROVE  /\ \A x : MoreInto(x, c) = Gathered(ToInputs(perInput), x, c)
         /\ \A x : Into(x, c) = Wrapped(ToInputs(perInput), [d \in Fi(c) |-> x[<<d, 0>>]], c)
         /\ \A x : MoreOutOf(x, c) = Gathered(ToOutputs, x, c)
         /\ \A x : OutOf(x, c) = Wrapped(ToOutputs, [s \in Fo(c) |-> x[<<c, s>>]], c)
  <1> DEFINE Nonempty(D) == \A S \in SUBSET D : S # {} => Pick(S) \in D
  <1>0. \A D : Nonempty(D)
    BY DEF Pick
  <1>1. ASSUME NEW x PROVE MoreInto(x, c) = Gathered(ToInputs(perInput), x, c)
    <2> DEFINE D == Fi(c)
               f == Weighed(ToInputs(perInput), x, c)
               E(sum) == sum = [S \in SUBSET D |-> IF S = {} THEN 0
                                ELSE Mult(Pick(S), c) * x[Pick(S)] + sum[S \ {Pick(S)}]]
    <2>1. MoreInto(x, c) = (CHOOSE sum : E(sum))[D]
      BY DEF MoreInto, MapThenSumSet, MapThenFoldSet, Pick
    <2>2. ToInputs(perInput).near[c] = D /\ \A d \in D : f[d] = Mult(d, c) * x[d]
      BY DEF ToInputs, Weighed
    <2>3. \A S \in SUBSET D : S # {} => f[Pick(S)] = Mult(Pick(S), c) * x[Pick(S)]
      BY <1>0, <2>2
    <2>4. \A sum : E(sum) <=> IsTotals(sum, FALSE, f, SUBSET D)
      <3> HIDE DEF D, f
      <3> QED BY <2>3 DEF IsTotals, Added
    <2>5. (CHOOSE sum : E(sum)) = Totals(FALSE, f, D)
      BY <2>4 DEF Totals
    <2> QED BY <2>1, <2>2, <2>5 DEF Gathered, Whole
  <1>2. ASSUME NEW x
        PROVE  Into(x, c) = Wrapped(ToInputs(perInput), [d \in Fi(c) |-> x[<<d, 0>>]], c)
    <2> DEFINE D == Fi(c)
               f == Weighed(ToInputs(perInput), [d \in Fi(c) |-> x[<<d, 0>>]], c)
               E(sum) == sum = [S \in SUBSET D |-> IF S = {} THEN 0
                                ELSE Plus(sum[S \ {Pick(S)}], Mult(Pick(S), c) * x[<<Pick(S), 0>>])]
    <2>1. Into(x, c) = (CHOOSE sum : E(sum))[D]
      BY DEF Into, SumOver, FoldSet, MapThenFoldSet, Pick
    <2>2. ToInputs(perInput).near[c] = D /\ \A d \in D : f[d] = Mult(d, c) * x[<<d, 0>>]
      BY DEF ToInputs, Weighed
    <2>3. \A S \in SUBSET D : S # {} => f[Pick(S)] = Mult(Pick(S), c) * x[<<Pick(S), 0>>]
      BY <1>0, <2>2
    <2>4. \A sum : E(sum) <=> IsTotals(sum, TRUE, f, SUBSET D)
      <3> HIDE DEF D, f
      <3> QED BY <2>3 DEF IsTotals, Added
    <2>5. (CHOOSE sum : E(sum)) = Totals(TRUE, f, D)
      BY <2>4 DEF Totals
    <2> QED BY <2>1, <2>2, <2>5 DEF Wrapped, Whole
  <1>3. ASSUME NEW x PROVE MoreOutOf(x, c) = Gathered(ToOutputs, x, c)
    <2> DEFINE D == Fo(c)
               f == Weighed(ToOutputs, x, c)
               E(sum) == sum = [S \in SUBSET D |-> IF S = {} THEN 0
                                ELSE Mult(c, Pick(S)) * x[Pick(S)] + sum[S \ {Pick(S)}]]
    <2>1. MoreOutOf(x, c) = (CHOOSE sum : E(sum))[D]
      BY DEF MoreOutOf, MapThenSumSet, MapThenFoldSet, Pick
    <2>2. ToOutputs.near[c] = D /\ \A s \in D : f[s] = Mult(c, s) * x[s]
      BY DEF ToOutputs, Weighed
    <2>3. \A S \in SUBSET D : S # {} => f[Pick(S)] = Mult(c, Pick(S)) * x[Pick(S)]
      BY <1>0, <2>2
    <2>4. \A sum : E(sum) <=> IsTotals(sum, FALSE, f, SUBSET D)
      <3> HIDE DEF D, f
      <3> QED BY <2>3 DEF IsTotals, Added
    <2>5. (CHOOSE sum : E(sum)) = Totals(FALSE, f, D)
      BY <2>4 DEF Totals
    <2> QED BY <2>1, <2>2, <2>5 DEF Gathered, Whole
  <1>4. ASSUME NEW x
        PROVE  OutOf(x, c) = Wrapped(ToOutputs, [s \in Fo(c) |-> x[<<c, s>>]], c)
    <2> DEFINE D == Fo(c)
               f == Weighed(ToOutputs, [s \in Fo(c) |-> x[<<c, s>>]], c)
               E(sum) == sum = [S \in SUBSET D |-> IF S = {} THEN 0
                                ELSE Plus(sum[S \ {Pick(S)}], Mult(c, Pick(S)) * x[<<c, Pick(S)>>])]
    <2>1. OutOf(x, c) = (CHOOSE sum : E(sum))[D]
      BY DEF OutOf, SumOver, FoldSet, MapThenFoldSet, Pick
    <2>2. ToOutputs.near[c] = D /\ \A s \in D : f[s] = Mult(c, s) * x[<<c, s>>]
      BY DEF ToOutputs, Weighed
    <2>3. \A S \in SUBSET D : S # {} => f[Pick(S)] = Mult(c, Pick(S)) * x[<<c, Pick(S)>>]
      BY <1>0, <2>2
    <2>4. \A sum : E(sum) <=> IsTotals(sum, TRUE, f, SUBSET D)
      <3> HIDE DEF D, f
      <3> QED BY <2>3 DEF IsTotals, Added
    <2>5. (CHOOSE sum : E(sum)) = Totals(TRUE, f, D)
      BY <2>4 DEF Totals
    <2> QED BY <2>1, <2>2, <2>5 DEF Wrapped, Whole
  <1> QED BY <1>1, <1>2, <1>3, <1>4

\* One step of a sweep that counts.
Tallied(g, x, c, through) ==
  IF c \notin through THEN x
  ELSE [x EXCEPT ![c] = IF c \in flops THEN 1 ELSE Wrapped(g, x, c)]

-----------------------------------------------------------------------------
\* One step of a sweep, and a sweep of n steps along a list.
Advance(kind, tm, x, c) ==
  IF kind = "tran" THEN TranStep(tm, x, c)
  ELSE IF kind = "aat" THEN ArrivalStep(tm, x, c)
  ELSE IF kind = "rat" THEN RequiredStep(tm, x, c)
  ELSE IF kind = "count" THEN Tallied(tm.net, x, c, tm.through)
  ELSE IF kind = "forth" THEN CountedTo(x, c, tm.through)
  ELSE CountedFrom(x, c, tm.through)

IsAlong(f, kind, tm, first, list, n) ==
  f = [k \in 0 .. n |-> IF k = 0 THEN first ELSE Advance(kind, tm, f[k - 1], list[k])]

LEMMA AlongExists ==
  ASSUME NEW kind, NEW tm, NEW first, NEW list, NEW n \in Nat
  PROVE  \E f : IsAlong(f, kind, tm, first, list, n)
  <1> DEFINE Bad == {m \in 0 .. n : ~ \E f : IsAlong(f, kind, tm, first, list, m)}
  <1> SUFFICES ASSUME Bad # {} PROVE FALSE
    OBVIOUS
  <1>1. PICK m \in Bad : \A k \in Bad : m <= k
    <2>1. Bad \in SUBSET Nat
      OBVIOUS
    <2> HIDE DEF Bad
    <2> QED BY <2>1, Least
  <1>2. m # 0
    <2>1. IsAlong([k \in 0 .. 0 |-> first], kind, tm, first, list, 0)
      BY DEF IsAlong
    <2> QED BY <2>1
  <1>3. m \in 1 .. n /\ m - 1 \in 0 .. n /\ m - 1 \notin Bad
    <2>1. m \in 1 .. n
      BY <1>2
    <2> HIDE DEF Bad
    <2> QED BY <1>1, <2>1
  <1>4. PICK g : IsAlong(g, kind, tm, first, list, m - 1)
    BY <1>3
  <1> DEFINE h == [k \in 0 .. m |-> IF k = 0 THEN first ELSE Advance(kind, tm, g[k - 1], list[k])]
  <1>5. \A k \in 0 .. m - 1 : k \in 0 .. m /\ h[k] = g[k]
    <2>1. \A k \in 0 .. m - 1 : g[k] = IF k = 0 THEN first ELSE Advance(kind, tm, g[k - 1], list[k])
      BY <1>4 DEF IsAlong
    <2>2. \A k \in 0 .. m - 1 : k \in 0 .. m
      BY <1>3
    <2> QED BY <2>1, <2>2
  <1>6. \A k \in 0 .. m : k # 0 => k - 1 \in 0 .. m - 1
    BY <1>3
  <1>7. \A k \in 0 .. m : k # 0 => h[k - 1] = g[k - 1]
    BY <1>5, <1>6
  <1>8. IsAlong(h, kind, tm, first, list, m)
    BY <1>7 DEF IsAlong
  <1> QED BY <1>8

-----------------------------------------------------------------------------
(* The counts along the lists.                                             *)

Zeroes(g) == [k \in g.all |-> IF k \in Cells THEN 0 ELSE g.base]
Counting(g, through) == [net |-> g, through |-> through]

LEMMA AlongSteps ==
  ASSUME NEW kind, NEW tm, NEW first, NEW list, NEW n \in Nat,
         NEW f, IsAlong(f, kind, tm, first, list, n)
  PROVE  /\ f[0] = first
         /\ \A k \in 1 .. n : k - 1 \in 0 .. n /\ f[k] = Advance(kind, tm, f[k - 1], list[k])
  <1>1. f = [k \in 0 .. n |-> IF k = 0 THEN first ELSE Advance(kind, tm, f[k - 1], list[k])]
    BY DEF IsAlong
  <1>2. \A k \in 1 .. n : k \in 0 .. n /\ k # 0 /\ k - 1 \in 0 .. n
    OBVIOUS
  <1>3. 0 \in 0 .. n
    OBVIOUS
  <1> QED BY <1>1, <1>2, <1>3

LEMMA TallySteps ==
  ASSUME NEW g, NEW list, NEW through,
         NEW f, IsAlong(f, "count", Counting(g, through), Zeroes(g), list, N)
  PROVE  /\ f[0] = Zeroes(g)
         /\ \A k \in 1 .. N : k - 1 \in 0 .. N /\ f[k] = Tallied(g, f[k - 1], list[k], through)
  <1> DEFINE p == Counting(g, through)
             z == Zeroes(g)
  <1>1. N \in Nat /\ IsAlong(f, "count", p, z, list, N)
    BY TopoAssumption
  <1> HIDE DEF p, z
  <1>2. f[0] = z /\ \A k \in 1 .. N : k - 1 \in 0 .. N /\ f[k] = Advance("count", p, f[k - 1], list[k])
    <2>1. f = [k \in 0 .. N |-> IF k = 0 THEN z ELSE Advance("count", p, f[k - 1], list[k])]
      BY <1>1 DEF IsAlong
    <2>2. 0 \in 0 .. N /\ \A k \in 1 .. N : k \in 0 .. N /\ k # 0 /\ k - 1 \in 0 .. N
      BY <1>1
    <2> QED BY <2>1, <2>2
  <1> QED BY <1>2 DEF p, z, Advance, Counting

LEMMA SweepSolves ==
  ASSUME NEW g, NEW list, IsNet(g, list), NEW through,
         NEW f, IsAlong(f, "count", Counting(g, through), Zeroes(g), list, N)
  PROVE  Solves(f[N], g, through)
  <1> DEFINE V(x, c) == IF c \notin through THEN 0
                        ELSE IF c \in flops THEN 1 ELSE Wrapped(g, x, c)
             Good(k) ==
               /\ DOMAIN f[k] = g.all
               /\ \A c \in g.all : c \notin Cells => f[k][c] = g.base
               /\ \A j \in 1 .. k : f[k][list[j]] = V(f[k], list[j])
               /\ \A j \in 1 .. N : j > k => f[k][list[j]] = 0
             Bad == {k \in 0 .. N : ~Good(k)}
  <1>1. /\ N \in Nat /\ \A j \in 1 .. N : list[j] \in Cells /\ list[j] \in g.all
        /\ \A i, j \in 1 .. N : list[i] = list[j] => i = j
        /\ \A c \in Cells : \E j \in 1 .. N : list[j] = c
    BY ListsFacts, TopoAssumption DEF IsNet
  <1>2. /\ f[0] = Zeroes(g)
        /\ \A k \in 1 .. N : k - 1 \in 0 .. N /\ f[k] = Tallied(g, f[k - 1], list[k], through)
    BY TallySteps
  <1>3. Good(0)
    <2>1. /\ DOMAIN f[0] = g.all
          /\ \A c \in g.all : f[0][c] = IF c \in Cells THEN 0 ELSE g.base
      BY <1>2 DEF Zeroes
    <2> QED BY <1>1, <2>1
  <1>4. ASSUME NEW k \in 1 .. N, Good(k - 1)
        PROVE  Good(k)
    <2> DEFINE c == list[k]
               x == f[k - 1]
               y == f[k]
    <2>1. c \in Cells /\ c \in g.all
      BY <1>1
    <2>2. /\ DOMAIN y = g.all
          /\ \A b \in g.all : y[b] = IF b = c /\ c \in through THEN V(x, c) ELSE x[b]
      <3>1. DOMAIN x = g.all /\ y = Tallied(g, x, c, through)
        BY <1>2, <1>4
      <3> HIDE DEF x, y, c
      <3> QED BY <2>1, <3>1 DEF Tallied
    <2>3. x[c] = 0
      BY <1>1, <1>4
    <2>4. y[c] = V(x, c)
      <3> HIDE DEF x, y, c
      <3> QED BY <2>1, <2>2, <2>3
    <2>5. ASSUME NEW j \in 1 .. k PROVE V(x, list[j]) = V(y, list[j])
      <3> DEFINE b == list[j]
      <3>1. j \in 1 .. N /\ b \in Cells
        BY <1>1
      <3>2. CASE b \in flops
        BY <3>2
      <3>3. CASE b \notin flops
        <4>1. ASSUME NEW d \in g.near[b] PROVE x[d] = y[d]
          <5>1. d \in g.all
            BY <3>1 DEF IsNet
          <5>2. d # c
            <6>1. SUFFICES ASSUME d = c PROVE FALSE
              OBVIOUS
            <6>2. Before(list, c, b) /\ Len(list) = N
              BY <2>1, <3>1, <3>3, <6>1 DEF IsNet
            <6>3. k < j
              BY <3>1, <6>2 DEF Before
            <6> QED BY <3>1, <6>3
          <5> QED BY <2>2, <5>1, <5>2
        <4>2. Weighed(g, x, b) = Weighed(g, y, b)
          BY <4>1 DEF Weighed
        <4> QED BY <4>2 DEF Wrapped
      <3> QED BY <3>2, <3>3
    <2>6. ASSUME NEW j \in 1 .. k PROVE y[list[j]] = V(y, list[j])
      <3>1. CASE j = k
        BY <2>4, <2>5, <3>1
      <3>2. CASE j # k
        <4>1. j \in 1 .. k - 1 /\ j \in 1 .. N /\ list[j] # c /\ list[j] \in g.all
          BY <1>1, <3>2
        <4>2. x[list[j]] = V(x, list[j])
          BY <1>4, <4>1
        <4> HIDE DEF V, x, y
        <4> QED BY <2>2, <2>5, <4>1, <4>2
      <3> QED BY <3>1, <3>2
    <2>7. ASSUME NEW j \in 1 .. N, j > k PROVE y[list[j]] = 0
      <3>1. list[j] # c /\ list[j] \in g.all /\ j > k - 1
        BY <1>1, <2>7
      <3>2. x[list[j]] = 0
        BY <1>4, <3>1
      <3> QED BY <2>2, <3>1, <3>2
    <2>8. ASSUME NEW b \in g.all, b \notin Cells PROVE y[b] = g.base
      <3>1. x[b] = g.base /\ b # c
        BY <1>4, <2>1, <2>8
      <3> QED BY <2>2, <2>8, <3>1
    <2> HIDE DEF V
    <2> QED BY <2>2, <2>6, <2>7, <2>8
  <1>5. Bad = {}
    <2> SUFFICES ASSUME Bad # {} PROVE FALSE
      OBVIOUS
    <2> HIDE DEF Good
    <2>1. PICK k \in Bad : \A m \in Bad : k <= m
      <3>1. Bad \in SUBSET Nat
        BY <1>1
      <3> HIDE DEF Bad
      <3> QED BY <3>1, Least
    <2>2. k \in 0 .. N /\ ~Good(k) /\ k # 0
      BY <1>3
    <2>3. k \in 1 .. N /\ k - 1 \in 0 .. N
      BY <1>1, <2>2
    <2>4. k - 1 \notin Bad
      <3> HIDE DEF Bad
      <3> QED BY <1>1, <2>1, <2>3
    <2>5. Good(k - 1)
      BY <2>3, <2>4
    <2> QED BY <1>4, <2>2, <2>3, <2>5
  <1>6. Good(N)
    BY <1>1, <1>5
  <1> QED BY <1>1, <1>6 DEF Solves

LEMMA PinFacts2 ==
  ASSUME Netlist
  PROVE  /\ \A p \in Pins : p[2] # 0 /\ p[2] \in Cells \cup {PO} /\ p = <<p[1], p[2]>>
         /\ \A p \in Outputs : p[2] = 0 /\ p[1] \in Cells /\ p = <<p[1], 0>>
         /\ \A c \in Cells : \A s \in Fo(c) : <<c, s>> \in Pins
  <1>1. \A p \in Pins : p[2] # 0 /\ p[2] \in Cells \cup {PO} /\ p = <<p[1], p[2]>>
    BY PinFacts DEF Pins
  <1>2. \A p \in Outputs : p[2] = 0 /\ p[1] \in Cells /\ p = <<p[1], 0>>
    BY DEF Outputs
  <1>3. \A c \in Cells : \A s \in Fo(c) : <<c, s>> \in Pins
    BY PinFacts DEF Pins, Drivers
  <1> QED BY <1>1, <1>2, <1>3

(* The input pins carry, forwards, what their drivers count: those of the  *)
(* combinational cells of through that the list has reached.               *)
OnInput(x, p, seen, through) ==
  IF p[2] \in seen /\ p[2] \in through /\ p[2] \notin flops THEN x[p[1]] ELSE 0

LEMMA ToPins ==
  ASSUME InOrder, NEW through, NEW perInput \in Nat
  PROVE  \E x : /\ Solves(x, ToInputs(perInput), through)
                /\ \A d \in Drivers : FromPI(through, perInput)[<<d, 0>>] = x[d]
                /\ \A p \in Pins : FromPI(through, perInput)[p] = OnInput(x, p, Cells, through)
  <1> DEFINE g == ToInputs(perInput)
             n == Len(topolist)
             Keys == Pins \cup Outputs \cup {<<0, 0>>}
             first == [p \in Keys |-> IF p = <<0, 0>> THEN perInput ELSE 0]
             E(after) == after = [k \in 0 .. n |->
                           IF k = 0 THEN first ELSE CountedTo(after[k - 1], topolist[k], through)]
             tm == [through |-> through]
  <1>1. /\ n = N /\ n \in Nat /\ IsNet(g, topolist) /\ Netlist
        /\ \A j \in 1 .. n : topolist[j] \in Cells
        /\ \A i, j \in 1 .. n : topolist[i] = topolist[j] => i = j
        /\ \A c \in Cells : \E j \in 1 .. n : topolist[j] = c
    BY ListsLength, NetsSorted, TopoAssumption, ListsFacts DEF InOrder
  <1>2. FromPI(through, perInput) = (CHOOSE after : E(after))[n]
    BY DEF FromPI
  <1>3. \A after : E(after) <=> IsAlong(after, "forth", tm, first, topolist, n)
    BY DEF IsAlong, Advance
  <1>4. \E after : E(after)
    <2> HIDE DEF E, n, tm, first
    <2> QED BY <1>1, <1>3, AlongExists
  <1>5. PICK f : E(f) /\ FromPI(through, perInput) = f[n]
    <2> HIDE DEF E
    <2> QED BY <1>2, <1>4
  <1>6. /\ f[0] = first
        /\ \A k \in 1 .. n : f[k] = CountedTo(f[k - 1], topolist[k], through)
    <2>1. IsAlong(f, "forth", tm, first, topolist, n)
      <3> HIDE DEF E, n, tm, first
      <3> QED BY <1>3, <1>5
    <2>2. /\ f[0] = first
          /\ \A k \in 1 .. n : f[k] = Advance("forth", tm, f[k - 1], topolist[k])
      <3> HIDE DEF first, tm, n
      <3> QED BY <1>1, <2>1, AlongSteps
    <2> QED BY <2>2 DEF Advance
  <1>7. PICK e : IsAlong(e, "count", Counting(g, through), Zeroes(g), topolist, N)
    BY <1>1, AlongExists
  <1>8. /\ e[0] = Zeroes(g)
        /\ \A k \in 1 .. N : e[k] = Tallied(g, e[k - 1], topolist[k], through)
    <2> HIDE DEF g
    <2> QED BY <1>7, TallySteps
  <1>9. Solves(e[N], g, through)
    <2> HIDE DEF g
    <2> QED BY <1>1, <1>7, SweepSolves
  <1> DEFINE Seen(k) == {topolist[j] : j \in 1 .. k}
             Good(k) == /\ DOMAIN f[k] = Keys /\ DOMAIN e[k] = Drivers
                        /\ \A d \in Drivers : f[k][<<d, 0>>] = e[k][d]
                        /\ \A p \in Pins : f[k][p] = OnInput(e[k], p, Seen(k), through)
             Bad == {k \in 0 .. N : ~Good(k)}
  <1>10. /\ PO \notin Cells /\ 0 \notin Cells
         /\ \A p \in Pins : p[2] # 0 /\ p[2] \in Cells \cup {PO} /\ p = <<p[1], p[2]>>
                            /\ p[1] \in Drivers /\ (p[2] \in Cells => p[1] \in Fi(p[2]))
         /\ \A d \in Drivers : <<d, 0>> \in Keys /\ (d = 0 \/ d \in Cells)
         /\ \A p \in Keys : p \in Pins \/ \E d \in Drivers : p = <<d, 0>>
         /\ \A c \in Cells : c \in Drivers /\ \A d \in Fi(c) : d \in Drivers
    <2>1. \A p \in Pins : p[1] \in Drivers /\ (p[2] \in Cells => p[1] \in Fi(p[2]))
      BY <1>1, PinFacts DEF Pins
    <2>2. /\ \A d \in Drivers : <<d, 0>> \in Keys /\ (d = 0 \/ d \in Cells)
          /\ \A p \in Keys : p \in Pins \/ \E d \in Drivers : p = <<d, 0>>
      BY DEF Drivers, Outputs
    <2> QED BY <1>1, <2>1, <2>2, PinFacts, PinFacts2 DEF Drivers
  <1>11. Good(0)
    <2>1. /\ DOMAIN e[0] = Drivers
          /\ \A d \in Drivers : e[0][d] = IF d = 0 THEN perInput ELSE 0
      <3>1. g.all = Drivers /\ g.base = perInput
        BY DEF ToInputs
      <3> HIDE DEF g
      <3>2. e[0] = [k \in g.all |-> IF k \in Cells THEN 0 ELSE g.base]
        BY <1>8 DEF Zeroes
      <3>3. \A d \in Drivers : d = 0 <=> d \notin Cells
        BY <1>10
      <3> QED BY <3>1, <3>2, <3>3
    <2>2. \A d \in Drivers : f[0][<<d, 0>>] = IF d = 0 THEN perInput ELSE 0
      BY <1>6, <1>10
    <2>3. \A p \in Pins : f[0][p] = 0 /\ p[2] \notin Seen(0)
      BY <1>6, <1>10
    <2>4. DOMAIN f[0] = Keys
      BY <1>6
    <2> HIDE DEF Seen
    <2> QED BY <2>1, <2>2, <2>3, <2>4 DEF OnInput
  <1>12. ASSUME NEW k \in 1 .. N, Good(k - 1)
         PROVE  Good(k)
    <2> DEFINE c == topolist[k]
               x == e[k - 1]
               y == f[k - 1]
    <2>1. /\ c \in Cells /\ c # 0 /\ c # PO
          /\ e[k] = Tallied(g, x, c, through)
          /\ f[k] = CountedTo(y, c, through)
      BY <1>1, <1>6, <1>8, <1>10
    <2>2. Into(y, c) = Wrapped(g, x, c)
      <3>1. [d \in Fi(c) |-> y[<<d, 0>>]] = [d \in Fi(c) |-> x[d]]
        BY <1>10, <1>12, <2>1
      <3>2. Weighed(g, [d \in Fi(c) |-> x[d]], c) = Weighed(g, x, c)
        BY <2>1 DEF Weighed, ToInputs
      <3>3. Into(y, c) = Wrapped(g, [d \in Fi(c) |-> y[<<d, 0>>]], c)
        BY <2>1, FoldsAreSums
      <3> QED BY <3>1, <3>2, <3>3 DEF Wrapped
    <2> DEFINE new == IF c \in flops THEN 1 ELSE Wrapped(g, x, c)
    <2>3. /\ DOMAIN e[k] = Drivers
          /\ \A d \in Drivers : e[k][d] = IF d = c /\ c \in through THEN new ELSE x[d]
      <3>1. DOMAIN x = Drivers
        BY <1>12
      <3> HIDE DEF x, c
      <3> QED BY <2>1, <3>1 DEF Tallied
    <2>4. /\ DOMAIN f[k] = Keys
          /\ \A p \in Keys : f[k][p] = IF c \notin through THEN y[p]
                                       ELSE IF p = <<c, 0>> THEN new
                                       ELSE IF p[2] = c /\ c \notin flops THEN y[<<p[1], 0>>]
                                       ELSE y[p]
      <3>1. DOMAIN y = Keys
        BY <1>12
      <3> HIDE DEF x, y, c, Keys
      <3> QED BY <2>1, <2>2, <3>1 DEF CountedTo
    <2>5. /\ \A d \in Drivers : y[<<d, 0>>] = x[d]
          /\ \A p \in Pins : y[p] = OnInput(x, p, Seen(k - 1), through)
      BY <1>12
    <2>6. /\ c \in Seen(k) /\ c \notin Seen(k - 1)
          /\ \A b : b # c => (b \in Seen(k) <=> b \in Seen(k - 1))
      <3>1. k \in 1 .. n /\ \A j \in 1 .. k : j \in 1 .. n /\ (j # k => j \in 1 .. k - 1)
        BY <1>1
      <3>2. \A j \in 1 .. k - 1 : j \in 1 .. k /\ j # k
        BY <1>1
      <3> QED BY <1>1, <3>1, <3>2
    \* The drivers of a cell already in the list come before it: they are settled.
    <2>7. ASSUME NEW p \in Pins, p[2] \in Seen(k), p[2] \notin flops PROVE p[1] # c
      <3>1. SUFFICES ASSUME p[1] = c PROVE FALSE
        OBVIOUS
      <3>2. PICK j \in 1 .. k : topolist[j] = p[2]
        BY <2>7
      <3>3. j \in 1 .. n /\ p[2] \in Cells /\ c \in Fi(p[2])
        BY <1>1, <1>10, <3>1, <3>2
      <3>4. Before(topolist, c, p[2]) /\ Len(topolist) = N
        BY <1>1, <2>1, <2>7, <3>3, PinFacts DEF InOrder
      <3>5. k < j
        BY <1>1, <3>2, <3>3, <3>4 DEF Before
      <3> QED BY <1>1, <3>3, <3>5
    <2> HIDE DEF x, y, c, new, Seen, Keys
    <2>8. ASSUME NEW d \in Drivers PROVE f[k][<<d, 0>>] = e[k][d]
      <3>1. <<d, 0>> \in Keys /\ <<d, 0>>[2] = 0 /\ (<<d, 0>> = <<c, 0>> <=> d = c)
        BY <1>10
      <3> QED BY <2>1, <2>3, <2>4, <2>5, <3>1
    <2>9. ASSUME NEW p \in Pins PROVE f[k][p] = OnInput(e[k], p, Seen(k), through)
      <3>1. /\ p \in Keys /\ p # <<c, 0>> /\ p[1] \in Drivers
            /\ y[p] = OnInput(x, p, Seen(k - 1), through)
        BY <1>10, <2>5 DEF Keys
      <3>2. CASE p[2] = c
        <4>1. y[p] = 0
          BY <2>6, <3>1, <3>2 DEF OnInput
        <4>2. CASE c \in through /\ c \notin flops
          <5>1. p[1] # c /\ f[k][p] = y[<<p[1], 0>>]
            BY <2>4, <2>6, <2>7, <3>1, <3>2, <4>2
          <5>2. e[k][p[1]] = x[p[1]] /\ y[<<p[1], 0>>] = x[p[1]]
            BY <2>3, <2>5, <3>1, <5>1
          <5> QED BY <2>6, <3>2, <4>2, <5>1, <5>2 DEF OnInput
        <4>3. CASE ~(c \in through /\ c \notin flops)
          BY <2>4, <3>1, <3>2, <4>1, <4>3 DEF OnInput
        <4> QED BY <4>2, <4>3
      <3>3. CASE p[2] # c
        <4>1. f[k][p] = y[p] /\ (p[2] \in Seen(k) <=> p[2] \in Seen(k - 1))
          BY <2>4, <2>6, <3>1, <3>3
        <4>2. ASSUME p[2] \in Seen(k), p[2] \notin flops PROVE e[k][p[1]] = x[p[1]]
          BY <2>3, <2>7, <3>1, <4>2
        <4> QED BY <3>1, <4>1, <4>2 DEF OnInput
      <3> QED BY <3>2, <3>3
    <2> QED BY <2>3, <2>4, <2>8, <2>9
  <1>13. Bad = {}
    <2> SUFFICES ASSUME Bad # {} PROVE FALSE
      OBVIOUS
    <2> HIDE DEF Good
    <2>1. PICK k \in Bad : \A m \in Bad : k <= m
      <3>1. Bad \in SUBSET Nat
        BY <1>1
      <3> HIDE DEF Bad
      <3> QED BY <3>1, Least
    <2>2. k \in 0 .. N /\ ~Good(k) /\ k # 0
      BY <1>11
    <2>3. k \in 1 .. N /\ k - 1 \in 0 .. N
      BY <1>1, <2>2
    <2>4. k - 1 \notin Bad
      <3> HIDE DEF Bad
      <3> QED BY <1>1, <2>1, <2>3
    <2>5. Good(k - 1)
      BY <2>3, <2>4
    <2> QED BY <1>12, <2>2, <2>3, <2>5
  <1>14. Good(N) /\ Seen(N) = Cells
    BY <1>1, <1>13
  <1>15. FromPI(through, perInput) = f[N]
    BY <1>1, <1>5
  <1> HIDE DEF E, Seen, Keys, first, g, n
  <1>16. /\ \A d \in Drivers : FromPI(through, perInput)[<<d, 0>>] = e[N][d]
         /\ \A p \in Pins : FromPI(through, perInput)[p] = OnInput(e[N], p, Cells, through)
    BY <1>14, <1>15
  <1> QED BY <1>9, <1>16 DEF g

(* The pins carry what the sums over the loads compute: the pins of one    *)
(* cell all the same number.                                               *)
OnPin(x, p) == IF p[2] # 0 THEN x[p[2]] ELSE IF p[1] \in flops THEN 0 ELSE x[p[1]]

LEMMA FromPins ==
  ASSUME InOrder, NEW through
  PROVE  \E x : /\ Solves(x, ToOutputs, through)
                /\ DOMAIN ToPO(through) = Pins \cup Outputs
                /\ \A p \in Pins \cup Outputs : ToPO(through)[p] = OnPin(x, p)
  <1> DEFINE g == ToOutputs
             n == Len(rtopolist)
             first == [p \in Pins \cup Outputs |-> 0]
             E(after) == after = [k \in 0 .. n |->
                           IF k = 0 THEN first ELSE CountedFrom(after[k - 1], rtopolist[k], through)]
             tm == [through |-> through]
  <1>1. /\ n = N /\ n \in Nat /\ IsNet(g, rtopolist) /\ Netlist
        /\ \A j \in 1 .. n : rtopolist[j] \in Cells
    BY ListsLength, NetsSorted, TopoAssumption, ListsFacts DEF InOrder
  <1>2. ToPO(through) = (CHOOSE after : E(after))[n]
    BY DEF ToPO
  <1>3. \A after : E(after) <=> IsAlong(after, "back", tm, first, rtopolist, n)
    BY DEF IsAlong, Advance
  <1>4. \E after : E(after)
    <2> HIDE DEF E, n, tm, first
    <2> QED BY <1>1, <1>3, AlongExists
  <1>5. PICK f : E(f) /\ ToPO(through) = f[n]
    <2> HIDE DEF E
    <2> QED BY <1>2, <1>4
  <1>6. /\ f[0] = first
        /\ \A k \in 1 .. n : f[k] = CountedFrom(f[k - 1], rtopolist[k], through)
    <2>1. IsAlong(f, "back", tm, first, rtopolist, n)
      <3> HIDE DEF E, n, tm, first
      <3> QED BY <1>3, <1>5
    <2>2. /\ f[0] = first
          /\ \A k \in 1 .. n : f[k] = Advance("back", tm, f[k - 1], rtopolist[k])
      <3> HIDE DEF first, tm, n
      <3> QED BY <1>1, <2>1, AlongSteps
    <2> QED BY <2>2 DEF Advance
  <1>7. PICK e : IsAlong(e, "count", Counting(g, through), Zeroes(g), rtopolist, N)
    BY <1>1, AlongExists
  <1>8. /\ e[0] = Zeroes(g)
        /\ \A k \in 1 .. N : e[k] = Tallied(g, e[k - 1], rtopolist[k], through)
    <2> HIDE DEF g
    <2> QED BY <1>7, TallySteps
  <1>9. Solves(e[N], g, through)
    <2> HIDE DEF g
    <2> QED BY <1>1, <1>7, SweepSolves
  <1> DEFINE Good(k) == /\ DOMAIN f[k] = Pins \cup Outputs /\ DOMAIN e[k] = Cells \cup {PO}
                        /\ \A p \in Pins \cup Outputs : f[k][p] = OnPin(e[k], p)
             Bad == {k \in 0 .. N : ~Good(k)}
  <1>10. /\ PO \notin Cells /\ 0 \notin Cells
         /\ \A p \in Pins : p[2] # 0 /\ p[2] \in Cells \cup {PO} /\ p = <<p[1], p[2]>>
         /\ \A p \in Outputs : p[2] = 0 /\ p[1] \in Cells /\ p = <<p[1], 0>>
         /\ \A c \in Cells : \A s \in Fo(c) : <<c, s>> \in Pins
    BY <1>1, PinFacts, PinFacts2
  <1>11. Good(0)
    <2>1. /\ DOMAIN e[0] = Cells \cup {PO}
          /\ \A s \in Cells \cup {PO} : e[0][s] = 0
      BY <1>8, <1>10 DEF Zeroes, ToOutputs
    <2> QED BY <1>6, <1>10, <2>1 DEF OnPin
  <1>12. ASSUME NEW k \in 1 .. N, Good(k - 1)
         PROVE  Good(k)
    <2> DEFINE c == rtopolist[k]
               x == e[k - 1]
               y == f[k - 1]
    <2>1. /\ c \in Cells /\ c # 0 /\ c # PO
          /\ e[k] = Tallied(g, x, c, through)
          /\ f[k] = CountedFrom(y, c, through)
      BY <1>1, <1>6, <1>8, <1>10
    <2> DEFINE ends == IF c \in flops THEN 1 ELSE Wrapped(g, x, c)
    <2>2. (IF c \in flops THEN 1 ELSE OutOf(y, c)) = ends
      <3>1. [s \in Fo(c) |-> y[<<c, s>>]] = [s \in Fo(c) |-> x[s]]
        <4>1. \A s \in Fo(c) : y[<<c, s>>] = x[s]
          BY <1>10, <1>12, <2>1 DEF OnPin
        <4> QED BY <4>1
      <3>2. Weighed(g, [s \in Fo(c) |-> x[s]], c) = Weighed(g, x, c)
        BY <2>1 DEF Weighed, ToOutputs
      <3>3. OutOf(y, c) = Wrapped(g, [s \in Fo(c) |-> y[<<c, s>>]], c)
        BY <2>1, FoldsAreSums
      <3> QED BY <3>1, <3>2, <3>3 DEF Wrapped
    <2>3. CASE c \notin through
      <3>1. e[k] = x /\ f[k] = y
        BY <2>1, <2>3 DEF Tallied, CountedFrom
      <3> QED BY <1>12, <3>1
    <2>4. CASE c \in through
      <3>1. e[k] = [x EXCEPT ![c] = ends]
        BY <2>1, <2>4 DEF Tallied
      <3> DEFINE set == {p \in Pins : p[2] = c} \cup (IF c \in flops THEN {} ELSE {<<c, 0>>})
      <3>2. f[k] = [p \in DOMAIN y |-> IF p \in set THEN ends ELSE y[p]]
        BY <2>1, <2>2, <2>4 DEF CountedFrom
      <3>3. /\ DOMAIN y = Pins \cup Outputs /\ DOMAIN x = Cells \cup {PO}
            /\ \A p \in Pins \cup Outputs : y[p] = OnPin(x, p)
        BY <1>12
      <3> HIDE DEF ends, x, y
      <3>4. ASSUME NEW p \in Pins PROVE f[k][p] = OnPin(e[k], p)
        <4>1. p \in set <=> p[2] = c
          BY <1>10, <2>1
        <4>2. f[k][p] = IF p[2] = c THEN ends ELSE x[p[2]]
          BY <1>10, <3>2, <3>3, <4>1 DEF OnPin
        <4> QED BY <1>10, <2>1, <3>1, <3>3, <4>2 DEF OnPin
      <3>5. ASSUME NEW p \in Outputs PROVE f[k][p] = OnPin(e[k], p)
        <4>1. p[2] = 0 /\ p[1] \in Cells /\ p = <<p[1], 0>>
          BY <1>10
        <4>2. p \in set <=> p[1] = c /\ c \notin flops
          BY <2>1, <4>1
        <4>3. f[k][p] = IF p[1] = c /\ c \notin flops THEN ends ELSE OnPin(x, p)
          BY <3>2, <3>3, <4>2
        <4> QED BY <3>1, <3>3, <4>1, <4>3 DEF OnPin
      <3> QED BY <3>1, <3>2, <3>3, <3>4, <3>5
    <2> QED BY <2>3, <2>4
  <1>13. Bad = {}
    <2> SUFFICES ASSUME Bad # {} PROVE FALSE
      OBVIOUS
    <2> HIDE DEF Good
    <2>1. PICK k \in Bad : \A m \in Bad : k <= m
      <3>1. Bad \in SUBSET Nat
        BY <1>1
      <3> HIDE DEF Bad
      <3> QED BY <3>1, Least
    <2>2. k \in 0 .. N /\ ~Good(k) /\ k # 0
      BY <1>11
    <2>3. k \in 1 .. N /\ k - 1 \in 0 .. N
      BY <1>1, <2>2
    <2>4. k - 1 \notin Bad
      <3> HIDE DEF Bad
      <3> QED BY <1>1, <2>1, <2>3
    <2>5. Good(k - 1)
      BY <2>3, <2>4
    <2> QED BY <1>12, <2>2, <2>3, <2>5
  <1>14. Good(N)
    BY <1>1, <1>13
  <1> QED BY <1>1, <1>5, <1>9, <1>14

LEMMA WalksToInputs ==
  ASSUME Netlist, NEW through \in SUBSET Cells, NEW perInput
  PROVE  \E w : /\ IsWalks(w, ToInputs(perInput), through, N)
                /\ WalksTo(through, perInput) = w[N]
  <1> DEFINE g == ToInputs(perInput)
             Row(n, w) ==
               [d \in Drivers |-> IF d = 0 THEN perInput
                                  ELSE IF d \notin through THEN 0
                                  ELSE IF d \in flops THEN 1
                                  ELSE IF n = 0 THEN 0 ELSE MoreInto(w[n - 1], d)]
             RowOf(n, w) ==
               [k \in g.all |->
                 IF k \notin Cells THEN g.base ELSE IF k \notin through THEN 0
                 ELSE IF k \in flops THEN 1 ELSE IF n = 0 THEN 0 ELSE Gathered(g, w[n - 1], k)]
             E(w) == w = [n \in 0 .. N |-> Row(n, w)]
  <1>1. WalksTo(through, perInput) = (CHOOSE w : E(w))[N]
    BY DEF WalksTo
  <1>2. ASSUME NEW n, NEW w PROVE Row(n, w) = RowOf(n, w)
    <2>1. /\ g.all = Drivers /\ g.base = perInput /\ 0 \notin Cells
          /\ \A d \in Drivers : d = 0 \/ d \in Cells
      BY PinFacts DEF ToInputs, Drivers
    <2>2. \A d \in Cells : MoreInto(w[n - 1], d) = Gathered(g, w[n - 1], d)
      BY FoldsAreSums
    <2> HIDE DEF g
    <2>3. ASSUME NEW d \in Drivers PROVE Row(n, w)[d] = RowOf(n, w)[d]
      <3>1. CASE d = 0
        BY <2>1, <3>1
      <3>2. CASE d # 0
        BY <2>1, <2>2, <3>2
      <3> QED BY <3>1, <3>2
    <2> QED BY <2>1, <2>3
  <1>3. \A w : E(w) <=> IsWalks(w, g, through, N)
    <2>1. \A w : IsWalks(w, g, through, N) <=> w = [n \in 0 .. N |-> RowOf(n, w)]
      BY DEF IsWalks
    <2> HIDE DEF Row, RowOf
    <2> QED BY <1>2, <2>1
  <1>4. \E w : E(w)
    <2> HIDE DEF E, g
    <2> QED BY <1>3, WalksExist, TopoAssumption
  <1>5. E(CHOOSE w : E(w))
    <2> HIDE DEF E
    <2> QED BY <1>4
  <1> HIDE DEF E
  <1> QED BY <1>1, <1>3, <1>5

LEMMA WalksToOutputs ==
  ASSUME Netlist, NEW through \in SUBSET Cells
  PROVE  \E w : /\ IsWalks(w, ToOutputs, through, N)
                /\ WalksFrom(through) = w[N]
  <1> DEFINE g == ToOutputs
             Row(n, w) ==
               [c \in Cells \cup {PO} |->
                 IF c \notin through THEN 0
                 ELSE IF c \in flops THEN 1
                 ELSE IF n = 0 THEN 0 ELSE MoreOutOf(w[n - 1], c)]
             RowOf(n, w) ==
               [k \in g.all |->
                 IF k \notin Cells THEN g.base ELSE IF k \notin through THEN 0
                 ELSE IF k \in flops THEN 1 ELSE IF n = 0 THEN 0 ELSE Gathered(g, w[n - 1], k)]
             E(w) == w = [n \in 0 .. N |-> Row(n, w)]
  <1>1. WalksFrom(through) = (CHOOSE w : E(w))[N]
    BY DEF WalksFrom
  <1>2. ASSUME NEW n, NEW w PROVE Row(n, w) = RowOf(n, w)
    <2>1. g.all = Cells \cup {PO} /\ g.base = 0 /\ PO \notin Cells
      BY PinFacts DEF ToOutputs
    <2>2. \A c \in Cells : MoreOutOf(w[n - 1], c) = Gathered(g, w[n - 1], c)
      BY FoldsAreSums
    <2> HIDE DEF g
    <2>3. ASSUME NEW c \in Cells \cup {PO} PROVE Row(n, w)[c] = RowOf(n, w)[c]
      <3>1. CASE c \notin Cells
        BY <2>1, <3>1
      <3>2. CASE c \in Cells
        BY <2>1, <2>2, <3>2
      <3> QED BY <3>1, <3>2
    <2> QED BY <2>1, <2>3
  <1>3. \A w : E(w) <=> IsWalks(w, g, through, N)
    <2>1. \A w : IsWalks(w, g, through, N) <=> w = [n \in 0 .. N |-> RowOf(n, w)]
      BY DEF IsWalks
    <2> HIDE DEF Row, RowOf
    <2> QED BY <1>2, <2>1
  <1>4. \E w : E(w)
    <2> HIDE DEF E, g
    <2> QED BY <1>3, WalksExist, TopoAssumption
  <1>5. E(CHOOSE w : E(w))
    <2> HIDE DEF E
    <2> QED BY <1>4
  <1> HIDE DEF E
  <1> QED BY <1>1, <1>3, <1>5

\* In sorted order, what the sweeps leave are the walks.
LEMMA CountedIfFits ==
  ASSUME InOrder, NEW through \in SUBSET Cells, NEW perInput \in Nat
  PROVE  Counted(Product(FromPI(through, perInput), ToPO(through)), through, perInput)
  <1> DEFINE up == WalksTo(through, perInput)
             down == WalksFrom(through)
             x == FromPI(through, perInput)
             y == ToPO(through)
             fits == (\A d \in Drivers : up[d] < Word) /\ (\A c \in Cells : down[c] < Word)
  <1>0. Netlist
    BY DEF InOrder
  <1>1. ASSUME fits
        PROVE  /\ \A d \in Drivers : x[<<d, 0>>] = up[d] /\ up[d] \in Nat
               /\ \A p \in Pins : x[p] = OnInput(up, p, Cells, through)
    <2>1. PICK w : IsWalks(w, ToInputs(perInput), through, N) /\ up = w[N]
      BY <1>0, WalksToInputs
    <2>2. PICK e : /\ Solves(e, ToInputs(perInput), through)
                   /\ \A d \in Drivers : x[<<d, 0>>] = e[d]
                   /\ \A p \in Pins : x[p] = OnInput(e, p, Cells, through)
      BY ToPins
    <2>3. \A c \in Cells : w[N][c] < Word
      BY <1>1, <2>1 DEF Drivers
    <2>4. ToInputs(perInput).all = Drivers /\ IsNet(ToInputs(perInput), topolist)
      BY NetsSorted DEF ToInputs
    <2>5. \A p \in Pins : p[1] \in Drivers
      BY DEF Pins
    <2> DEFINE g == ToInputs(perInput)
    <2> HIDE DEF g, x, up, y, down, fits
    <2>6. \A k \in g.all : e[k] = w[N][k] /\ e[k] \in Nat
      <3>1. /\ IsNet(g, topolist) /\ Solves(e, g, through) /\ IsWalks(w, g, through, N)
            /\ \A c \in Cells : w[N][c] < Word
        BY <2>1, <2>2, <2>3, <2>4 DEF g
      <3> QED BY <3>1, WalksSolve
    <2>7. \A d \in Drivers : e[d] = up[d] /\ up[d] \in Nat
      BY <2>1, <2>4, <2>6 DEF g
    <2> QED BY <2>2, <2>5, <2>7 DEF OnInput
  <1>2. ASSUME fits, NEW p \in Pins \cup Outputs
        PROVE  /\ y[p] = IF p[2] = 0 /\ p[1] \in flops THEN 0 ELSE down[Owner(p)]
               /\ down[Owner(p)] \in Nat
               /\ p[2] = 0 => p = <<p[1], 0>> /\ p[1] \in Drivers /\ p[1] \in Cells
               /\ p[2] # 0 => p \in Pins /\ p[1] \in Drivers /\ p[2] \in Cells \cup {PO}
               /\ Owner(p) \notin through => down[Owner(p)] = 0
    <2>1. PICK w : IsWalks(w, ToOutputs, through, N) /\ down = w[N]
      BY <1>0, WalksToOutputs
    <2>2. PICK e : /\ Solves(e, ToOutputs, through)
                   /\ \A q \in Pins \cup Outputs : y[q] = OnPin(e, q)
      BY FromPins
    <2>3. /\ IsNet(ToOutputs, rtopolist) /\ ToOutputs.all = Cells \cup {PO}
          /\ ToOutputs.base = 0
      BY NetsSorted DEF ToOutputs
    <2>4. \A c \in Cells : w[N][c] < Word
      BY <1>2, <2>1
    <2>5. \A k \in Cells \cup {PO} : e[k] = w[N][k] /\ e[k] \in Nat
      <3> DEFINE g == ToOutputs
      <3>1. /\ IsNet(g, rtopolist) /\ Solves(e, g, through) /\ IsWalks(w, g, through, N)
            /\ \A c \in Cells : w[N][c] < Word /\ g.all = Cells \cup {PO}
        BY <2>1, <2>2, <2>3, <2>4
      <3> HIDE DEF g, x, up, y, down, fits
      <3>2. \A k \in g.all : e[k] = w[N][k] /\ e[k] \in Nat
        BY <3>1, WalksSolve
      <3> QED BY <2>3, <3>2 DEF g
    <2>6. \A k \in Cells \cup {PO} : k \notin through => e[k] = 0
      BY <2>2, <2>3 DEF Solves
    <2>7. /\ p[2] = 0 => p = <<p[1], 0>> /\ p[1] \in Drivers /\ p[1] \in Cells
          /\ p[2] # 0 => p \in Pins /\ p[1] \in Drivers /\ p[2] \in Cells \cup {PO}
      BY <1>0, <1>2, PinFacts2 DEF Pins, Drivers
    <2> HIDE DEF x, up, y, down, fits
    <2>8. Owner(p) \in Cells \cup {PO}
      BY <2>7 DEF Owner
    <2>9. y[p] = IF p[2] = 0 /\ p[1] \in flops THEN 0 ELSE e[Owner(p)]
      BY <1>2, <2>2 DEF OnPin, Owner
    <2>10. e[Owner(p)] = down[Owner(p)] /\ down[Owner(p)] \in Nat
      BY <2>1, <2>5, <2>8
    <2> QED BY <2>6, <2>7, <2>8, <2>9, <2>10
  <1>3. DOMAIN y = Pins \cup Outputs
    BY FromPins
  <1> DEFINE count == Product(x, y)
  <1>4. ASSUME fits, NEW p \in Pins \cup Outputs
        PROVE  LET paths == IF Owner(p) \in flops THEN 0 ELSE up[p[1]] * down[Owner(p)]
               IN paths < Word => count[p] = AtLeastOne(paths)
    <2> DEFINE b == Owner(p)
               paths == IF b \in flops THEN 0 ELSE up[p[1]] * down[b]
    <2>1. /\ y[p] = IF p[2] = 0 /\ p[1] \in flops THEN 0 ELSE down[b]
          /\ down[b] \in Nat
          /\ p[2] = 0 => p = <<p[1], 0>> /\ p[1] \in Drivers /\ p[1] \in Cells
          /\ p[2] # 0 => p \in Pins /\ p[1] \in Drivers /\ p[2] \in Cells \cup {PO}
          /\ b \notin through => down[b] = 0
      <3> HIDE DEF x, up, y, down, fits
      <3> QED BY <1>2, <1>4
    <2>2. /\ \A d \in Drivers : x[<<d, 0>>] = up[d] /\ up[d] \in Nat
          /\ \A q \in Pins : x[q] = OnInput(up, q, Cells, through)
      <3> HIDE DEF x, up, y, down, fits
      <3> QED BY <1>1, <1>4
    <2>3. count[p] = AtLeastOne((x[p] * y[p]) % Word)
      <3> HIDE DEF x, y
      <3> QED BY <1>3 DEF Product
    <2> HIDE DEF x, up, y, down, fits, count
    <2>4. x[p] * y[p] = paths /\ paths \in Nat
      <3>1. up[p[1]] \in Nat
        BY <2>1, <2>2
      <3>2. CASE p[2] = 0
        <4>1. x[p] = up[p[1]] /\ b = p[1]
          BY <2>1, <2>2, <3>2 DEF Owner
        <4> QED BY <2>1, <3>1, <3>2, <4>1
      <3>3. CASE p[2] # 0
        <4>1. /\ b = p[2] /\ y[p] = down[b] /\ b \in Cells \cup {PO}
              /\ x[p] = IF b \in Cells /\ b \in through /\ b \notin flops THEN up[p[1]] ELSE 0
          BY <2>1, <2>2, <3>3 DEF Owner, OnInput
        <4>2. through \subseteq Cells
          OBVIOUS
        <4> HIDE DEF b
        <4>3. CASE b \in through
          BY <2>1, <3>1, <4>1, <4>2, <4>3
        <4>4. CASE b \notin through
          BY <2>1, <3>1, <4>1, <4>4
        <4> QED BY <4>3, <4>4
      <3> QED BY <3>2, <3>3
    <2> HIDE DEF paths
    <2>5. paths < Word => paths % Word = paths
      BY <2>4, PathsAssumption
    <2> QED BY <2>3, <2>4, <2>5 DEF paths
  <1> HIDE DEF x, y
  <1> QED BY <1>4 DEF Counted, x, y

(* The path counts, which rank the moves, are the numbers of paths of      *)
(* every netlist without combinational loops, in every order SortTopo can  *)
(* find and for every set of critical cells, where the words hold them.    *)
THEOREM CountsArePaths == Spec => []PathsCounted
  <1>1. ASSUME Sorted PROVE PathsCounted
    <2> SUFFICES ASSUME pc = "done", LoopFree
                 PROVE  /\ Counted(CountPaths, Cells, 1)
                        /\ \A critical \in SUBSET Cells :
                             Counted(CountPathsLesserThanSlack(critical), critical, 0)
      BY DEF PathsCounted
    <2>1. InOrder
      BY <1>1, SortedInOrder
    <2>2. Counted(CountPaths, Cells, 1)
      BY <2>1, CountedIfFits DEF CountPaths
    <2>3. \A critical \in SUBSET Cells :
            Counted(CountPathsLesserThanSlack(critical), critical, 0)
      BY <2>1, CountedIfFits DEF CountPathsLesserThanSlack
    <2> QED BY <2>2, <2>3
  <1> QED BY <1>1, AlwaysSorted, PTL

-----------------------------------------------------------------------------
(* What the incremental timer leaves alone: the rows, the offsets, the     *)
(* slew of the input, and, once the loads are updated, loads and wires.    *)

Stored(tm) ==
  {"row", "gb", "tot", "wire", "tran", "tofs", "dly", "ck", "aat", "rat", "sofs"} \subseteq DOMAIN tm
SameRows(new, tm) == new.row = tm.row /\ new.tofs = tm.tofs /\ new.gb = tm.gb
SameLoads(new, tm) == new.tot = tm.tot /\ new.wire = tm.wire
SameInput(new, tm) ==
  /\ DOMAIN tm.tran \subseteq DOMAIN new.tran
  /\ Out(0) \in DOMAIN tm.tran => new.tran[Out(0)] = tm.tran[Out(0)]
Carries(new, tm) == Stored(new) /\ SameRows(new, tm) /\ SameInput(new, tm)
Keeps(new, tm) == Carries(new, tm) /\ SameLoads(new, tm)

LEMMA KeepsTrans ==
  ASSUME NEW x, NEW y, NEW z
  PROVE  /\ Keeps(x, y) /\ Keeps(y, z) => Keeps(x, z)
         /\ Keeps(x, y) /\ Carries(y, z) => Carries(x, z)
         /\ (Keeps(x, y) => Stored(x)) /\ (Stored(x) => Keeps(x, x))
  BY DEF Keeps, Carries, SameRows, SameLoads, SameInput

LEMMA RetimeKeeps ==
  ASSUME NEW tm, Stored(tm), NEW d, NEW acc
  PROVE  Keeps(Retime(tm, d, acc), tm)
  <1>0. ASSUME NEW x PROVE Stored(x) => Keeps(x, x)
    BY DEF Keeps, Carries, SameRows, SameLoads, SameInput
  <1>1. ASSUME NEW x, Stored(x), d # 0 PROVE Keeps(Slewed(x, d), x)
    <2> DEFINE y == Slewed(x, d)
    <2>1. Stored(y) /\ SameRows(y, x) /\ SameLoads(y, x)
      BY <1>1 DEF Stored, SameRows, SameLoads, Slewed
    <2>2. y.tran = [x.tran EXCEPT ![Out(d)] = Sum(LookupST(x, d), x.tofs[Out(d)])]
      BY <1>1 DEF Stored, Slewed
    <2>3. Out(d) # Out(0)
      BY <1>1 DEF Out
    <2> HIDE DEF y
    <2>4. SameInput(y, x)
      BY <2>2, <2>3 DEF SameInput
    <2> QED BY <2>1, <2>4 DEF Keeps, Carries, y
  <1>2. ASSUME NEW x, Stored(x) PROVE Keeps(Delayed(x, d), x)
    BY <1>2 DEF Stored, Keeps, Carries, SameRows, SameLoads, SameInput, Delayed
  <1>3. ASSUME NEW x, Stored(x) PROVE Keeps(Arrived(x, d), x)
    BY <1>3 DEF Stored, Keeps, Carries, SameRows, SameLoads, SameInput, Arrived
  <1>4. ASSUME NEW x, Stored(x) PROVE Keeps(Carried(x, d), x)
    <2> DEFINE y == Carried(x, d)
               S(p) == Sum(WireTran(x, d, x.tran[Out(d)]), x.tofs[p])
    <2>1. Stored(y) /\ SameRows(y, x) /\ SameLoads(y, x)
      BY <1>4 DEF Stored, SameRows, SameLoads, Carried
    <2>2. y.tran = SetOn(x.tran, d, S)
      BY <1>4 DEF Stored, Carried, S
    <2>3. Out(0) \notin On(d)
      BY TopoAssumption DEF Out, On, Fo, PO, Cells
    <2> HIDE DEF y, S
    <2>4. SameInput(y, x)
      BY <2>2, <2>3 DEF SameInput, SetOn, Put
    <2> QED BY <2>1, <2>4 DEF Keeps, Carries, y
  <1>5. ASSUME NEW x, Stored(x) PROVE Keeps(Evaluated(x, d), x)
    <2>1. CASE d = 0
      BY <1>0, <1>5, <2>1 DEF Evaluated
    <2>2. CASE d # 0
      <3>1. Keeps(Slewed(x, d), x)
        BY <1>1, <1>5, <2>2
      <3>2. Keeps(Delayed(Slewed(x, d), d), Slewed(x, d))
        BY <1>2, <3>1 DEF Keeps, Carries
      <3>3. Keeps(Arrived(Delayed(Slewed(x, d), d), d), Delayed(Slewed(x, d), d))
        BY <1>3, <3>2 DEF Keeps, Carries
      <3> QED BY <2>2, <3>1, <3>2, <3>3, KeepsTrans DEF Evaluated
    <2> QED BY <2>1, <2>2
  <1> DEFINE z == IF acc THEN tm ELSE [tm EXCEPT !.rat[Out(d)] = Const(Far)]
  <1>6. Keeps(z, tm)
    BY DEF Stored, Keeps, Carries, SameRows, SameLoads, SameInput
  <1>7. Retime(tm, d, acc) = Carried(Evaluated(z, d), d)
    BY DEF Retime
  <1> HIDE DEF z
  <1>8. Keeps(Evaluated(z, d), z) /\ Keeps(Carried(Evaluated(z, d), d), Evaluated(z, d))
    BY <1>4, <1>5, <1>6 DEF Keeps, Carries
  <1> QED BY <1>6, <1>7, <1>8, KeepsTrans

LEMMA ReslackKeeps ==
  ASSUME NEW tm, Stored(tm), NEW p
  PROVE  Keeps(Reslack(tm, p), tm)
  BY DEF Stored, Keeps, Carries, SameRows, SameLoads, SameInput, Reslack

LEMMA ReloadKeeps ==
  ASSUME NEW tm, Stored(tm), NEW c
  PROVE  Carries(Reload(tm, c), tm)
  BY DEF Stored, Carries, SameRows, SameInput, Reload

-----------------------------------------------------------------------------
(* The two walks of OneTimer, over lists that grow while they are walked.   *)

\* A walk of n steps over the list a record holds in one of its fields.
IsForward(f, tm, first, acc, n) ==
  f = [k \in 0 .. n |->
         IF k = 0 THEN [tm |-> tm, fw |-> first, bw |-> << >>]
         ELSE IF k > Len(f[k - 1].fw) THEN f[k - 1] ELSE Follow(f[k - 1], k, acc)]

IsBackward(f, tm, first, n) ==
  f = [k \in 0 .. n |->
         IF k = 0 THEN [tm |-> tm, bw |-> first]
         ELSE IF k > Len(f[k - 1].bw) THEN f[k - 1] ELSE Precede(f[k - 1], k)]

LEMMA ForwardExists ==
  ASSUME NEW tm, NEW first, NEW acc, NEW n \in Nat
  PROVE  \E f : IsForward(f, tm, first, acc, n)
  <1> DEFINE Bad == {m \in 0 .. n : ~ \E f : IsForward(f, tm, first, acc, m)}
  <1> SUFFICES ASSUME Bad # {} PROVE FALSE
    OBVIOUS
  <1>1. PICK m \in Bad : \A k \in Bad : m <= k
    <2>1. Bad \in SUBSET Nat
      OBVIOUS
    <2> HIDE DEF Bad
    <2> QED BY <2>1, Least
  <1>2. m # 0
    <2>1. IsForward([k \in 0 .. 0 |-> [tm |-> tm, fw |-> first, bw |-> << >>]], tm, first, acc, 0)
      BY DEF IsForward
    <2> QED BY <2>1
  <1>3. m \in 1 .. n /\ m - 1 \in 0 .. n /\ m - 1 \notin Bad
    <2>1. m \in 1 .. n
      BY <1>2
    <2> HIDE DEF Bad
    <2> QED BY <1>1, <2>1
  <1>4. PICK g : IsForward(g, tm, first, acc, m - 1)
    BY <1>3
  <1> DEFINE h == [k \in 0 .. m |->
                     IF k = 0 THEN [tm |-> tm, fw |-> first, bw |-> << >>]
                     ELSE IF k > Len(g[k - 1].fw) THEN g[k - 1] ELSE Follow(g[k - 1], k, acc)]
  <1>5. \A k \in 0 .. m - 1 : k \in 0 .. m /\ h[k] = g[k]
    <2>1. \A k \in 0 .. m - 1 :
            g[k] = IF k = 0 THEN [tm |-> tm, fw |-> first, bw |-> << >>]
                   ELSE IF k > Len(g[k - 1].fw) THEN g[k - 1] ELSE Follow(g[k - 1], k, acc)
      BY <1>4 DEF IsForward
    <2>2. \A k \in 0 .. m - 1 : k \in 0 .. m
      BY <1>3
    <2> QED BY <2>1, <2>2
  <1>6. \A k \in 0 .. m : k # 0 => k - 1 \in 0 .. m - 1
    BY <1>3
  <1>7. \A k \in 0 .. m : k # 0 => h[k - 1] = g[k - 1]
    BY <1>5, <1>6
  <1>8. IsForward(h, tm, first, acc, m)
    BY <1>7 DEF IsForward
  <1> QED BY <1>8

LEMMA BackwardExists ==
  ASSUME NEW tm, NEW first, NEW n \in Nat
  PROVE  \E f : IsBackward(f, tm, first, n)
  <1> DEFINE Bad == {m \in 0 .. n : ~ \E f : IsBackward(f, tm, first, m)}
  <1> SUFFICES ASSUME Bad # {} PROVE FALSE
    OBVIOUS
  <1>1. PICK m \in Bad : \A k \in Bad : m <= k
    <2>1. Bad \in SUBSET Nat
      OBVIOUS
    <2> HIDE DEF Bad
    <2> QED BY <2>1, Least
  <1>2. m # 0
    <2>1. IsBackward([k \in 0 .. 0 |-> [tm |-> tm, bw |-> first]], tm, first, 0)
      BY DEF IsBackward
    <2> QED BY <2>1
  <1>3. m \in 1 .. n /\ m - 1 \in 0 .. n /\ m - 1 \notin Bad
    <2>1. m \in 1 .. n
      BY <1>2
    <2> HIDE DEF Bad
    <2> QED BY <1>1, <2>1
  <1>4. PICK g : IsBackward(g, tm, first, m - 1)
    BY <1>3
  <1> DEFINE h == [k \in 0 .. m |->
                     IF k = 0 THEN [tm |-> tm, bw |-> first]
                     ELSE IF k > Len(g[k - 1].bw) THEN g[k - 1] ELSE Precede(g[k - 1], k)]
  <1>5. \A k \in 0 .. m - 1 : k \in 0 .. m /\ h[k] = g[k]
    <2>1. \A k \in 0 .. m - 1 :
            g[k] = IF k = 0 THEN [tm |-> tm, bw |-> first]
                   ELSE IF k > Len(g[k - 1].bw) THEN g[k - 1] ELSE Precede(g[k - 1], k)
      BY <1>4 DEF IsBackward
    <2>2. \A k \in 0 .. m - 1 : k \in 0 .. m
      BY <1>3
    <2> QED BY <2>1, <2>2
  <1>6. \A k \in 0 .. m : k # 0 => k - 1 \in 0 .. m - 1
    BY <1>3
  <1>7. \A k \in 0 .. m : k # 0 => h[k - 1] = g[k - 1]
    BY <1>5, <1>6
  <1>8. IsBackward(h, tm, first, m)
    BY <1>7 DEF IsBackward
  <1> QED BY <1>8

LEMMA ForwardKeeps ==
  ASSUME NEW tm, Stored(tm), NEW first, NEW acc
  PROVE  Keeps(Forward(tm, first, acc).tm, tm)
  <1> DEFINE n == N + 2
             f == CHOOSE g : IsForward(g, tm, first, acc, n)
  <1>1. n \in Nat
    BY TopoAssumption
  <1>2. IsForward(f, tm, first, acc, n)
    BY <1>1, ForwardExists
  <1>3. Forward(tm, first, acc) = f[n]
    BY DEF Forward, IsForward
  <1> HIDE DEF f, n
  <1>4. \A k \in 0 .. n :
          f[k] = IF k = 0 THEN [tm |-> tm, fw |-> first, bw |-> << >>]
                 ELSE IF k > Len(f[k - 1].fw) THEN f[k - 1] ELSE Follow(f[k - 1], k, acc)
    BY <1>2 DEF IsForward
  <1> DEFINE Good(s) == {"tm", "fw", "bw"} \subseteq DOMAIN s /\ Keeps(s.tm, tm)
             Bad == {k \in 0 .. n : ~Good(f[k])}
  <1>5. ASSUME NEW s, Good(s), NEW k
        PROVE  Good(Follow(s, k, acc))
    <2>1. Keeps(Retime(s.tm, s.fw[k][1], acc), s.tm)
      BY <1>5, RetimeKeeps, KeepsTrans
    <2>2. Keeps(Retime(s.tm, s.fw[k][1], acc), tm)
      BY <1>5, <2>1, KeepsTrans
    <2> HIDE DEF Keeps
    <2> QED BY <1>5, <2>2 DEF Follow
  <1>6. Bad = {}
    <2> SUFFICES ASSUME Bad # {} PROVE FALSE
      OBVIOUS
    <2>1. PICK k \in Bad : \A m \in Bad : k <= m
      <3>1. Bad \in SUBSET Nat
        BY <1>1
      <3> HIDE DEF Bad
      <3> QED BY <3>1, Least
    <2>2. Keeps(tm, tm)
      BY KeepsTrans
    <2>3. k # 0
      BY <1>1, <1>4, <2>2
    <2>4. k \in 0 .. n /\ ~Good(f[k])
      OBVIOUS
    <2> HIDE DEF Good
    <2>5. k - 1 \in 0 .. n /\ k - 1 \notin Bad
      <3> HIDE DEF Bad
      <3> QED BY <1>1, <2>1, <2>3, <2>4
    <2>6. Good(f[k - 1])
      BY <2>5
    <2>7. Good(f[k])
      BY <1>4, <1>5, <2>3, <2>4, <2>6
    <2> QED BY <2>4, <2>7
  <1> QED BY <1>1, <1>3, <1>6

LEMMA BackwardKeeps ==
  ASSUME NEW tm, Stored(tm), NEW first
  PROVE  Keeps(Backward(tm, first), tm)
  <1> DEFINE n == (N + 1) * (N + 1)
             f == CHOOSE g : IsBackward(g, tm, first, n)
  <1>1. n \in Nat
    BY TopoAssumption
  <1>2. IsBackward(f, tm, first, n)
    BY <1>1, BackwardExists
  <1>3. Backward(tm, first) = f[n].tm
    BY DEF Backward, IsBackward
  <1> HIDE DEF f, n
  <1>4. \A k \in 0 .. n :
          f[k] = IF k = 0 THEN [tm |-> tm, bw |-> first]
                 ELSE IF k > Len(f[k - 1].bw) THEN f[k - 1] ELSE Precede(f[k - 1], k)
    BY <1>2 DEF IsBackward
  <1> DEFINE Good(s) == Keeps(s.tm, tm)
             Bad == {k \in 0 .. n : ~Good(f[k])}
  <1>5. ASSUME NEW s, Good(s), NEW k
        PROVE  Good(Precede(s, k))
    <2>1. Keeps(Reslack(s.tm, s.bw[k]), s.tm)
      BY <1>5, ReslackKeeps, KeepsTrans
    <2>2. Keeps(Reslack(s.tm, s.bw[k]), tm)
      BY <1>5, <2>1, KeepsTrans
    <2> HIDE DEF Keeps
    <2> QED BY <2>2 DEF Precede
  <1>6. Bad = {}
    <2> SUFFICES ASSUME Bad # {} PROVE FALSE
      OBVIOUS
    <2>1. PICK k \in Bad : \A m \in Bad : k <= m
      <3>1. Bad \in SUBSET Nat
        BY <1>1
      <3> HIDE DEF Bad
      <3> QED BY <3>1, Least
    <2>2. Keeps(tm, tm)
      BY KeepsTrans
    <2>3. k # 0
      BY <1>1, <1>4, <2>2
    <2>4. k \in 0 .. n /\ ~Good(f[k])
      OBVIOUS
    <2> HIDE DEF Good
    <2>5. k - 1 \in 0 .. n /\ k - 1 \notin Bad
      <3> HIDE DEF Bad
      <3> QED BY <1>1, <2>1, <2>3, <2>4
    <2>6. Good(f[k - 1])
      BY <2>5
    <2>7. Good(f[k])
      BY <1>4, <1>5, <2>3, <2>4, <2>6
    <2> QED BY <2>4, <2>7
  <1> QED BY <1>1, <1>3, <1>6

-----------------------------------------------------------------------------
(* Pins and loads.                                                         *)

\* A move changes no load but those of the drivers of the cell.
LEMMA OtherLoads ==
  ASSUME Netlist, NEW row, NEW S, row \in [Cells -> S], NEW c \in Cells, NEW v,
         NEW d \in Drivers \ Fi(c)
  PROVE  Load([row EXCEPT ![c] = v], d) = Load(row, d)
  <1>1. c \notin Fo(d)
    BY PinFacts
  <1>2. CapsOn([row EXCEPT ![c] = v], d) = CapsOn(row, d)
    BY <1>1 DEF CapsOn
  <1> HIDE DEF CapsOn
  <1> QED BY <1>2 DEF Load

\* What every timing leaves, full or not.
Settled(tm) ==
  /\ Stored(tm) /\ tm.row \in [Cells -> 0 .. MaxRow]
  /\ DOMAIN tm.tot = Drivers /\ DOMAIN tm.wire = Drivers
  /\ \A d \in Drivers : LoadHolds(tm, d)
  /\ DOMAIN tm.tofs = AllPins
  /\ AllPins \subseteq DOMAIN tm.tran /\ tm.tran[Out(0)] = Const(0)

LEMMA ReloadSettles ==
  ASSUME Netlist, NEW tm, Settled(tm), NEW c \in Cells, NEW row \in 0 .. MaxRow
  PROVE  LET placed == Placed(tm, c, row)
             new == Reload(placed, c)
         IN Stored(placed) /\ Stored(new) /\ Settled(new) /\ new.tofs = tm.tofs /\ new.gb = tm.gb
  <1> DEFINE placed == Placed(tm, c, row)
             new == Reload(placed, c)
             load(d) == Load(placed.row, d)
             other == {d \in Fi(c) : load(d) # placed.tot[d]}
  <1>1. /\ Stored(placed) /\ placed.row = [tm.row EXCEPT ![c] = row]
        /\ placed.tot = tm.tot /\ placed.wire = tm.wire /\ placed.tofs = tm.tofs
        /\ placed.tran = tm.tran /\ placed.gb = tm.gb
    BY DEF Placed, Stored, Settled
  <1>2. /\ Stored(new) /\ new.row = placed.row /\ new.tofs = placed.tofs
        /\ new.tran = placed.tran /\ new.gb = placed.gb
        /\ new.tot = [d \in DOMAIN placed.tot \cup other |->
                        IF d \in other THEN load(d) ELSE placed.tot[d]]
        /\ new.wire = [d \in DOMAIN placed.wire \cup other |->
                        IF d \in other THEN WireTab(load(d)) ELSE placed.wire[d]]
    BY <1>1 DEF Reload, Stored, Put
  <1>3. placed.row \in [Cells -> 0 .. MaxRow]
    BY <1>1 DEF Settled
  <1>4. other \subseteq Drivers
    BY PinFacts
  <1>5. DOMAIN new.tot = Drivers /\ DOMAIN new.wire = Drivers
    BY <1>1, <1>2, <1>4 DEF Settled
  <1>6. \A d \in Drivers :
          /\ new.tot[d] = IF d \in other THEN load(d) ELSE tm.tot[d]
          /\ new.wire[d] = IF d \in other THEN WireTab(load(d)) ELSE tm.wire[d]
    BY <1>1, <1>2 DEF Settled
  <1>7. ASSUME NEW d \in Drivers PROVE LoadHolds(new, d)
    <2>1. tm.tot[d] = Load(tm.row, d) /\ tm.wire[d] = WireTab(tm.tot[d])
      BY DEF Settled, LoadHolds
    <2>2. d \notin other => load(d) = tm.tot[d]
      <3>1. CASE d \in Fi(c)
        BY <1>1, <3>1
      <3>2. CASE d \notin Fi(c)
        <4>1. tm.row \in [Cells -> 0 .. MaxRow] /\ d \in Drivers \ Fi(c)
          BY <3>2 DEF Settled
        <4>2. Load([tm.row EXCEPT ![c] = row], d) = Load(tm.row, d)
          BY <4>1, OtherLoads
        <4> QED BY <1>1, <2>1, <4>2
      <3> QED BY <3>1, <3>2
    <2>3. new.tot[d] = load(d) /\ new.wire[d] = WireTab(load(d))
      BY <1>6, <2>1, <2>2
    <2>4. load(d) = Load(new.row, d)
      BY <1>2
    <2> HIDE DEF new, load
    <2> QED BY <2>3, <2>4 DEF LoadHolds
  <1>8. DOMAIN new.tofs = AllPins /\ AllPins \subseteq DOMAIN new.tran /\ new.tran[Out(0)] = Const(0)
    BY <1>1, <1>2 DEF Settled
  <1> HIDE DEF new, placed
  <1> QED BY <1>1, <1>2, <1>3, <1>5, <1>7, <1>8 DEF Settled, new, placed

(* OneTimer keeps all of this, whatever it does to slews, arrivals and     *)
(* required times.                                                         *)
LEMMA MoveSettles ==
  ASSUME Netlist, NEW tm, Settled(tm), NEW c \in Cells, NEW row \in 0 .. MaxRow,
         NEW order, NEW acc
  PROVE  LET new == OneTimer(Placed(tm, c, row), c, order, acc)
         IN Settled(new) /\ new.tofs = tm.tofs /\ new.gb = tm.gb
  <1> DEFINE new == Reload(Placed(tm, c, row), c)
             first == [k \in DOMAIN order |-> Out(order[k])] \o <<Out(c)>>
             fwd == Forward(new, first, acc)
             end == Backward(fwd.tm, Reverse(fwd.bw))
  <1>1. Stored(new) /\ Settled(new) /\ new.tofs = tm.tofs /\ new.gb = tm.gb
    BY ReloadSettles
  <1>2. OneTimer(Placed(tm, c, row), c, order, acc) = end
    BY DEF OneTimer, Backed
  <1> HIDE DEF new
  <1>3. Keeps(fwd.tm, new)
    BY <1>1, ForwardKeeps
  <1>4. Stored(fwd.tm)
    BY <1>3, KeepsTrans
  <1>5. Keeps(end, fwd.tm)
    BY <1>4, BackwardKeeps
  <1> HIDE DEF fwd, end
  <1>6. Keeps(end, new)
    BY <1>3, <1>5, KeepsTrans
  <1>7. Settled(end) /\ end.tofs = new.tofs /\ end.gb = new.gb
    <2>1. \A d \in Drivers : LoadHolds(new, d) => LoadHolds(end, d)
      BY <1>6 DEF LoadHolds, Keeps, Carries, SameRows, SameLoads
    <2>2. Out(0) \in AllPins
      BY DEF AllPins, Drivers
    <2> QED BY <1>1, <1>6, <2>1, <2>2 DEF Settled, Keeps, Carries, SameRows, SameLoads, SameInput
  <1> QED BY <1>1, <1>2, <1>7

-----------------------------------------------------------------------------
(* The sweeps of a full timing, forward.                                   *)

\* What a cell computes from its input pins, and what it puts on its net.
Own(kind, tm, x, c) ==
  IF kind = "tran" THEN LookupST([tm EXCEPT !.tran = x], c) ELSE Arrival([tm EXCEPT !.aat = x], c)
OnNet(kind, tm, own, c, p) ==
  IF kind = "tran" THEN Sum(IF p = Out(c) THEN own ELSE WireTran(tm, c, own), tm.tofs[p])
  ELSE IF p = Out(c) THEN own ELSE Sum(own, Const(tm.wire[c]))
Value(kind, tm, x, c, p) == OnNet(kind, tm, Own(kind, tm, x, c), c, p)

LEMMA AdvanceNet ==
  ASSUME NEW kind \in {"tran", "aat"}, NEW tm, NEW x, NEW c, AllPins \subseteq DOMAIN x
  PROVE  LET y == Advance(kind, tm, x, c)
         IN /\ DOMAIN x \subseteq DOMAIN y
            /\ \A p \in AllPins : y[p] = IF p \in Net(c) THEN Value(kind, tm, x, c, p) ELSE x[p]
  <1>1. CASE kind = "tran"
    BY <1>1 DEF Advance, TranStep, Put, Value, OnNet, Own
  <1>2. CASE kind = "aat"
    BY <1>2 DEF Advance, ArrivalStep, ArrivalOn, Put, Value, OnNet, Own
  <1> QED BY <1>1, <1>2

\* A cell reads its input pins only, a flop not even these.
LEMMA OwnLocal ==
  ASSUME NEW kind \in {"tran", "aat"}, NEW tm, Stored(tm), NEW x, NEW y, NEW c,
         c \notin flops => \A p \in In(c) : x[p] = y[p]
  PROVE  Own(kind, tm, x, c) = Own(kind, tm, y, c)
  <1>1. CASE kind = "tran"
    <2>1. ASSUME c \notin flops, NEW e
          PROVE  {TranTab(tm.row[c], e, x[p][Src(c, e)], tm.tot[c]) : p \in In(c)}
                 = {TranTab(tm.row[c], e, y[p][Src(c, e)], tm.tot[c]) : p \in In(c)}
      BY <2>1
    <2> QED BY <1>1, <2>1 DEF Own, LookupST, OnEdges, IsFF, Stored
  <1>2. CASE kind = "aat"
    <2>1. ASSUME c \notin flops, NEW e
          PROVE  {tm.dly[p][e] + x[p][Src(c, e)] : p \in In(c)}
                 = {tm.dly[p][e] + y[p][Src(c, e)] : p \in In(c)}
      BY <2>1
    <2> QED BY <1>2, <2>1 DEF Own, Arrival, OnEdges, IsFF, Stored
  <1> QED BY <1>1, <1>2

LEMMA NetFacts ==
  ASSUME Netlist
  PROVE  /\ \A d \in Drivers : Net(d) \subseteq AllPins /\ Out(d) \in Net(d) /\ On(d) \subseteq Net(d)
         /\ \A d, c \in Drivers : \A p \in Net(d) : p \in Net(c) => d = c
         /\ \A c \in Cells : \A p \in In(c) : /\ p[1] \in Fi(c) /\ p[2] = c /\ p \in On(p[1])
                                               /\ p = <<p[1], c>> /\ p \in AllPins
         /\ \A p \in AllPins : p[1] \in Drivers /\ p \in Net(p[1])
  <1>1. \A d \in Drivers : Fo(d) \subseteq Cells \cup {PO}
    BY PinFacts
  <1>2. \A d \in Drivers : \A c \in Fo(d) : <<d, c>> \in Pins
    BY <1>1 DEF Pins
  <1>3. \A d \in Drivers : Net(d) \subseteq AllPins /\ Out(d) \in Net(d) /\ On(d) \subseteq Net(d)
    BY <1>2 DEF Net, On, AllPins
  <1>4. \A d, p : p \in Net(d) => p[1] = d
    BY DEF Net, On, Out
  <1>5. ASSUME NEW c \in Cells, NEW p \in In(c)
        PROVE  /\ p[1] \in Fi(c) /\ p[2] = c /\ p \in On(p[1])
               /\ p = <<p[1], c>> /\ p \in AllPins
    <2>1. PICK d \in Fi(c) : p = <<d, c>>
      BY DEF In
    <2>2. d \in Drivers /\ c \in Fo(d)
      BY PinFacts
    <2> QED BY <1>2, <2>1, <2>2 DEF On, AllPins
  <1>6. ASSUME NEW p \in AllPins PROVE p[1] \in Drivers /\ p \in Net(p[1])
    <2>1. CASE p \in Pins
      BY <2>1 DEF Pins, Net, On
    <2>2. CASE p \notin Pins
      BY <2>2 DEF AllPins, Out, Net
    <2> QED BY <2>1, <2>2
  <1> QED BY <1>3, <1>4, <1>5, <1>6

(* A sweep along topolist solves the equations of all cells: what a cell   *)
(* reads is not written once it was met.                                   *)
LEMMA ForwardSweep ==
  ASSUME InOrder, NEW kind \in {"tran", "aat"}, NEW tm, Stored(tm),
         NEW first, AllPins \subseteq DOMAIN first,
         NEW f, IsAlong(f, kind, tm, first, topolist, Len(topolist))
  PROVE  LET x == f[Len(topolist)]
         IN /\ DOMAIN first \subseteq DOMAIN x
            /\ \A c \in Cells : \A p \in Net(c) : x[p] = Value(kind, tm, x, c, p)
            /\ \A p \in Net(0) : x[p] = first[p]
  <1> DEFINE n == Len(topolist)
             Good(k) ==
               /\ DOMAIN first \subseteq DOMAIN f[k]
               /\ \A p \in Net(0) : f[k][p] = first[p]
               /\ \A j \in 1 .. k : \A p \in Net(topolist[j]) :
                    f[k][p] = Value(kind, tm, f[k], topolist[j], p)
             Bad == {k \in 0 .. n : ~Good(k)}
  <1>1. /\ n \in Nat /\ \A i \in 1 .. n : topolist[i] \in Cells
        /\ \A i, j \in 1 .. n : topolist[i] = topolist[j] => i = j
        /\ \A c \in Cells : \E i \in 1 .. n : topolist[i] = c
    BY ListsFacts DEF InOrder
  <1>2. Netlist
    BY DEF InOrder
  <1>3. /\ f[0] = first
        /\ \A k \in 1 .. n : k - 1 \in 0 .. n /\ f[k] = Advance(kind, tm, f[k - 1], topolist[k])
    <2>1. f = [k \in 0 .. n |-> IF k = 0 THEN first ELSE Advance(kind, tm, f[k - 1], topolist[k])]
      BY DEF IsAlong
    <2>2. \A k \in 1 .. n : k \in 0 .. n /\ k # 0 /\ k - 1 \in 0 .. n
      BY <1>1
    <2>3. 0 \in 0 .. n
      BY <1>1
    <2> HIDE DEF n
    <2> QED BY <2>1, <2>2, <2>3
  <1> HIDE DEF n
  <1>4. Good(0)
    BY <1>3
  <1>5. ASSUME NEW k \in 1 .. n, Good(k - 1)
        PROVE  Good(k)
    <2> DEFINE c == topolist[k]
               x == f[k - 1]
               y == f[k]
    <2>1. c \in Cells /\ c \in Drivers /\ c # 0 /\ 0 \in Drivers
      BY <1>1, <1>2, PinFacts DEF Drivers
    <2>2. AllPins \subseteq DOMAIN x /\ y = Advance(kind, tm, x, c)
      BY <1>3, <1>5
    <2>3. /\ DOMAIN x \subseteq DOMAIN y
          /\ \A p \in AllPins : y[p] = IF p \in Net(c) THEN Value(kind, tm, x, c, p) ELSE x[p]
      BY <2>2, AdvanceNet
    <2>4. ASSUME NEW j \in 1 .. k, topolist[j] \notin flops, NEW q \in In(topolist[j])
          PROVE  x[q] = y[q]
      <3> DEFINE b == topolist[j]
      <3>1. j \in 1 .. n /\ b \in Cells
        BY <1>1
      <3>2. q[1] \in Fi(b) /\ q \in AllPins /\ q \in Net(q[1]) /\ q[1] \in Drivers
        BY <1>2, <3>1, NetFacts
      <3>3. CASE q \in Net(c)
        <4>1. q[1] = c
          BY <1>2, <2>1, <3>2, <3>3, NetFacts
        <4>2. wires[c][b] # 0
          BY <1>2, <2>1, <3>1, <3>2, <4>1, PinFacts
        <4>3. Before(topolist, c, b)
          BY <2>1, <2>4, <3>1, <4>2 DEF InOrder
        <4>4. k < j
          BY <3>1, <4>3 DEF Before, n
        <4> QED BY <4>4
      <3>4. CASE q \notin Net(c)
        BY <2>3, <3>2, <3>4
      <3> QED BY <3>3, <3>4
    <2>5. \A j \in 1 .. k : Own(kind, tm, x, topolist[j]) = Own(kind, tm, y, topolist[j])
      BY <2>4, OwnLocal
    <2>6. \A j \in 1 .. k : \A p : Value(kind, tm, x, topolist[j], p) = Value(kind, tm, y, topolist[j], p)
      BY <2>5 DEF Value
    <2>7. ASSUME NEW j \in 1 .. k, NEW p \in Net(topolist[j])
          PROVE  y[p] = Value(kind, tm, y, topolist[j], p)
      <3>1. j \in 1 .. n /\ topolist[j] \in Drivers
        BY <1>1 DEF Drivers
      <3>2. p \in AllPins
        BY <1>2, <3>1, NetFacts
      <3>3. CASE j = k
        BY <2>3, <2>6, <2>7, <3>2, <3>3
      <3>4. CASE j # k
        <4>1. j \in 1 .. k - 1 /\ topolist[j] # c
          BY <1>1, <3>1, <3>4
        <4>2. p \notin Net(c)
          BY <1>2, <2>1, <2>7, <3>1, <4>1, NetFacts
        <4>3. x[p] = Value(kind, tm, x, topolist[j], p)
          BY <1>5, <2>7, <4>1
        <4> QED BY <2>3, <2>6, <3>2, <4>2, <4>3
      <3> QED BY <3>3, <3>4
    <2>8. ASSUME NEW p \in Net(0) PROVE y[p] = first[p]
      <3>1. p \in AllPins /\ p \notin Net(c)
        BY <1>2, <2>1, <2>8, NetFacts
      <3> QED BY <1>5, <2>3, <2>8, <3>1
    <2>9. DOMAIN first \subseteq DOMAIN y
      BY <1>5, <2>3
    <2> HIDE DEF y
    <2> QED BY <2>7, <2>8, <2>9 DEF y
  <1>6. Bad = {}
    <2> SUFFICES ASSUME Bad # {} PROVE FALSE
      OBVIOUS
    <2> HIDE DEF Good
    <2>1. PICK k \in Bad : \A m \in Bad : k <= m
      <3>1. Bad \in SUBSET Nat
        BY <1>1
      <3> HIDE DEF Bad
      <3> QED BY <3>1, Least
    <2>2. k \in 0 .. n /\ ~Good(k) /\ k # 0
      BY <1>4
    <2>3. k \in 1 .. n /\ k - 1 \in 0 .. n
      BY <1>1, <2>2
    <2>4. k - 1 \notin Bad
      <3> HIDE DEF Bad
      <3> QED BY <1>1, <2>1, <2>3
    <2>5. Good(k - 1)
      BY <2>3, <2>4
    <2> QED BY <1>5, <2>2, <2>3, <2>5
  <1>7. Good(n)
    BY <1>1, <1>6
  <1>8. \A c \in Cells : \A p \in Net(c) : f[n][p] = Value(kind, tm, f[n], c, p)
    BY <1>1, <1>7
  <1> QED BY <1>7, <1>8 DEF n

-----------------------------------------------------------------------------
(* The slews and the arrivals of a full timing.                            *)

LEMMA SlewsAlong ==
  ASSUME InOrder, NEW tm, Stored(tm), AllPins \subseteq DOMAIN tm.tran
  PROVE  LET x == TranAlong(tm)
         IN /\ AllPins \subseteq DOMAIN x /\ x[Out(0)] = tm.tran[Out(0)]
            /\ \A p \in On(0) :
                 x[p] = OnEdges(LAMBDA e : WireTran(tm, 0, tm.tran[Out(0)])[e] + tm.tofs[p][Other(e)])
            /\ \A c \in Cells : \A p \in Net(c) : x[p] = Value("tran", tm, x, c, p)
  <1> DEFINE swapped(p) == OnEdges(LAMBDA e : WireTran(tm, 0, tm.tran[Out(0)])[e] + tm.tofs[p][Other(e)])
             first == SetOn(tm.tran, 0, swapped)
             Along(f) == f = [k \in 0 .. Len(topolist) |->
                                IF k = 0 THEN first ELSE TranStep(tm, f[k - 1], topolist[k])]
             f == CHOOSE g : Along(g)
  <1>1. TranAlong(tm) = f[Len(topolist)]
    BY DEF TranAlong
  <1> HIDE DEF swapped
  <1>2. /\ AllPins \subseteq DOMAIN first /\ DOMAIN first = DOMAIN tm.tran \cup On(0)
        /\ first[Out(0)] = tm.tran[Out(0)]
        /\ \A p \in On(0) : first[p] = swapped(p)
    <2>1. Out(0) \in AllPins
      BY DEF AllPins, Drivers
    <2>2. Out(0) \notin On(0)
      BY TopoAssumption DEF Out, On, Fo, PO, Cells
    <2> QED BY <2>1, <2>2 DEF SetOn, Put
  <1> HIDE DEF first
  <1>3. \A g : Along(g) <=> IsAlong(g, "tran", tm, first, topolist, Len(topolist))
    BY DEF IsAlong, Advance
  <1>4. Len(topolist) \in Nat
    BY ListsFacts DEF InOrder
  <1>5. \E g : IsAlong(g, "tran", tm, first, topolist, Len(topolist))
    BY <1>4, AlongExists
  <1> HIDE DEF Along
  <1>6. IsAlong(f, "tran", tm, first, topolist, Len(topolist))
    BY <1>3, <1>5
  <1> HIDE DEF f
  <1> DEFINE x == f[Len(topolist)]
  <1>7. /\ DOMAIN first \subseteq DOMAIN x
        /\ \A c \in Cells : \A p \in Net(c) : x[p] = Value("tran", tm, x, c, p)
        /\ \A p \in Net(0) : x[p] = first[p]
    <2>1. "tran" \in {"tran", "aat"}
      OBVIOUS
    <2> QED BY <1>2, <1>6, <2>1, ForwardSweep
  <1>8. Out(0) \in Net(0) /\ On(0) \subseteq Net(0)
    BY DEF Net
  <1> QED BY <1>1, <1>2, <1>7, <1>8 DEF swapped

LEMMA ArrivalsAlong ==
  ASSUME InOrder, NEW tm, Stored(tm)
  PROVE  LET x == ArrivalAlong(tm)
         IN /\ x[Out(0)] = Const(0)
            /\ \A p \in On(0) : x[p] = Sum(Const(0), Const(tm.wire[0]))
            /\ \A c \in Cells : \A p \in Net(c) : x[p] = Value("aat", tm, x, c, p)
  <1> DEFINE first == ArrivalOn(tm, [p \in AllPins |-> Const(0)], 0, Const(0))
             Along(f) == f = [k \in 0 .. Len(topolist) |->
                                IF k = 0 THEN first ELSE ArrivalStep(tm, f[k - 1], topolist[k])]
             f == CHOOSE g : Along(g)
  <1>1. ArrivalAlong(tm) = f[Len(topolist)]
    BY DEF ArrivalAlong
  <1>2. /\ AllPins \subseteq DOMAIN first
        /\ first[Out(0)] = Const(0)
        /\ \A p \in On(0) : first[p] = Sum(Const(0), Const(tm.wire[0]))
    <2>1. Out(0) \in AllPins
      BY DEF AllPins, Drivers
    <2>2. Out(0) \notin On(0)
      BY TopoAssumption DEF Out, On, Fo, PO, Cells
    <2> QED BY <2>1, <2>2 DEF ArrivalOn, Put, Net
  <1> HIDE DEF first
  <1>3. \A g : Along(g) <=> IsAlong(g, "aat", tm, first, topolist, Len(topolist))
    BY DEF IsAlong, Advance
  <1>4. Len(topolist) \in Nat
    BY ListsFacts DEF InOrder
  <1>5. \E g : IsAlong(g, "aat", tm, first, topolist, Len(topolist))
    BY <1>4, AlongExists
  <1> HIDE DEF Along
  <1>6. IsAlong(f, "aat", tm, first, topolist, Len(topolist))
    BY <1>3, <1>5
  <1> HIDE DEF f
  <1> DEFINE x == f[Len(topolist)]
  <1>7. /\ \A c \in Cells : \A p \in Net(c) : x[p] = Value("aat", tm, x, c, p)
        /\ \A p \in Net(0) : x[p] = first[p]
    <2>1. "aat" \in {"tran", "aat"}
      OBVIOUS
    <2> QED BY <1>2, <1>6, <2>1, ForwardSweep
  <1>8. Out(0) \in Net(0) /\ On(0) \subseteq Net(0)
    BY DEF Net
  <1> QED BY <1>1, <1>2, <1>7, <1>8

-----------------------------------------------------------------------------
(* The parts of a full timing.                                             *)

\* What a full timing starts from.
Ready(tm) ==
  /\ Stored(tm) /\ tm.row \in [Cells -> 0 .. MaxRow]
  /\ DOMAIN tm.tot = Drivers /\ \A d \in Drivers : tm.tot[d] = Load(tm.row, d)
  /\ DOMAIN tm.tofs = AllPins
  /\ AllPins \subseteq DOMAIN tm.tran /\ tm.tran[Out(0)] = Const(0)

Slewing(tm) == CalcTran(CalcWire(tm))
Delaying(tm) == CalcDelay(Slewing(tm))
Arriving(tm) == CalcArrival(Delaying(tm))

LEMMA SettledReady ==
  ASSUME NEW tm, Settled(tm) PROVE Ready(tm)
  BY DEF Settled, Ready, LoadHolds

LEMMA FullParts ==
  ASSUME NEW tm, Ready(tm)
  PROVE  LET w == CalcWire(tm) s == Slewing(tm) g == Delaying(tm) a == Arriving(tm) new == CallTimer(tm)
         IN /\ Stored(w) /\ Stored(s) /\ Stored(g) /\ Stored(a) /\ Stored(new)
            /\ SameRows(w, tm) /\ SameRows(s, tm) /\ SameRows(g, tm) /\ SameRows(a, tm) /\ SameRows(new, tm)
            /\ w.tot = tm.tot /\ s.tot = tm.tot /\ g.tot = tm.tot /\ a.tot = tm.tot /\ new.tot = tm.tot
            /\ w.wire = [d \in Drivers |-> WireTab(Load(tm.row, d))] /\ w.tran = tm.tran
            /\ s.wire = w.wire /\ s.tran = TranAlong(w)
            /\ g.wire = w.wire /\ g.tran = TranAlong(w) /\ g.dly = DelayAlong(s) /\ g.ck = ClockAlong(s)
            /\ a.wire = w.wire /\ a.tran = TranAlong(w) /\ a.dly = g.dly /\ a.ck = g.ck
            /\ a.aat = ArrivalAlong(g)
            /\ new.wire = w.wire /\ new.tran = TranAlong(w) /\ new.dly = g.dly /\ new.ck = g.ck
            /\ new.aat = ArrivalAlong(g) /\ new.rat = RequiredAlong(a)
  <1> DEFINE w == CalcWire(tm)
             s == CalcTran(w)
             g == CalcDelay(s)
             a == CalcArrival(g)
             new == CalcRequired(a)
  <1>1. /\ Stored(w) /\ SameRows(w, tm) /\ w.tot = tm.tot /\ w.tran = tm.tran
        /\ w.wire = [d \in Drivers |-> WireTab(Load(tm.row, d))]
    BY DEF Ready, CalcWire, Stored, SameRows
  <1> HIDE DEF w
  <1>2. Stored(s) /\ SameRows(s, tm) /\ s.tot = tm.tot /\ s.wire = w.wire /\ s.tran = TranAlong(w)
    BY <1>1 DEF CalcTran, Stored, SameRows
  <1> HIDE DEF s
  <1>3. /\ Stored(g) /\ SameRows(g, tm) /\ g.tot = tm.tot /\ g.wire = w.wire /\ g.tran = s.tran
        /\ g.dly = DelayAlong(s) /\ g.ck = ClockAlong(s)
    BY <1>2 DEF CalcDelay, Stored, SameRows
  <1> HIDE DEF g
  <1>4. /\ Stored(a) /\ SameRows(a, tm) /\ a.tot = tm.tot /\ a.wire = w.wire /\ a.tran = s.tran
        /\ a.dly = g.dly /\ a.ck = g.ck /\ a.aat = ArrivalAlong(g)
    BY <1>3 DEF CalcArrival, Stored, SameRows
  <1> HIDE DEF a
  <1>5. /\ Stored(new) /\ SameRows(new, tm) /\ new.tot = tm.tot /\ new.wire = w.wire /\ new.tran = s.tran
        /\ new.dly = g.dly /\ new.ck = g.ck /\ new.aat = a.aat /\ new.rat = RequiredAlong(a)
    BY <1>4 DEF CalcRequired, Stored, SameRows
  <1>6. s = Slewing(tm) /\ g = Delaying(tm) /\ a = Arriving(tm) /\ new = CallTimer(tm)
    BY DEF Slewing, Delaying, Arriving, CallTimer, w, s, g, a
  <1> HIDE DEF new
  <1> QED BY <1>1, <1>2, <1>3, <1>4, <1>5, <1>6 DEF w

LEMMA FullSettles ==
  ASSUME InOrder, NEW tm, Ready(tm)
  PROVE  Settled(CallTimer(tm)) /\ CallTimer(tm).tofs = tm.tofs
  <1> DEFINE new == CallTimer(tm)
             w == CalcWire(tm)
  <1>1. /\ Stored(w) /\ w.tran = tm.tran /\ Stored(new) /\ SameRows(new, tm) /\ new.tot = tm.tot
        /\ new.wire = [d \in Drivers |-> WireTab(Load(tm.row, d))] /\ new.tran = TranAlong(w)
    BY FullParts
  <1> HIDE DEF new, w
  <1>2. AllPins \subseteq DOMAIN w.tran
    BY <1>1 DEF Ready
  <1>3. AllPins \subseteq DOMAIN new.tran /\ new.tran[Out(0)] = tm.tran[Out(0)]
    BY <1>1, <1>2, SlewsAlong
  <1>4. \A d \in Drivers : LoadHolds(new, d)
    BY <1>1 DEF LoadHolds, SameRows, Ready
  <1>5. Settled(new) /\ new.tofs = tm.tofs
    BY <1>1, <1>3, <1>4 DEF Settled, Ready, SameRows
  <1> QED BY <1>5 DEF new

\* No offsets.
NoBias(tm) == \A p \in AllPins : tm.tofs[p] = Const(0)

LEMMA SameLookup ==
  ASSUME NEW tm, NEW new, Stored(tm), SameRows(new, tm), new.tot = tm.tot, NEW c
  PROVE  LookupST([tm EXCEPT !.tran = new.tran], c) = LookupST(new, c)
  <1> DEFINE old == [tm EXCEPT !.tran = new.tran]
  <1>1. old.row = new.row /\ old.tot = new.tot /\ old.tran = new.tran
    BY DEF Stored, SameRows
  <1> HIDE DEF old
  <1>2. LookupST(old, c) = LookupST(new, c)
    BY <1>1 DEF LookupST
  <1> QED BY <1>2 DEF old

LEMMA SlewsHold ==
  ASSUME InOrder, NEW tm, Ready(tm), NoBias(tm)
  PROVE  \A d \in Drivers : SlewHolds(CallTimer(tm), d)
  <1> DEFINE new == CallTimer(tm)
             w == CalcWire(tm)
  <1>1. /\ Stored(w) /\ w.tran = tm.tran /\ SameRows(w, tm) /\ w.tot = tm.tot /\ w.wire = new.wire
        /\ SameRows(new, tm) /\ new.tot = tm.tot /\ new.tran = TranAlong(w)
    BY FullParts
  <1> HIDE DEF new, w
  <1>2. AllPins \subseteq DOMAIN w.tran
    BY <1>1 DEF Ready
  <1>3. /\ new.tran[Out(0)] = w.tran[Out(0)]
        /\ \A p \in On(0) :
             new.tran[p] = OnEdges(LAMBDA e : WireTran(w, 0, w.tran[Out(0)])[e] + w.tofs[p][Other(e)])
        /\ \A c \in Cells : \A p \in Net(c) : new.tran[p] = Value("tran", w, new.tran, c, p)
    BY <1>1, <1>2, SlewsAlong
  <1>4. \A c : LookupST([w EXCEPT !.tran = new.tran], c) = LookupST(new, c)
    <2>1. SameRows(new, w) /\ new.tot = w.tot
      BY <1>1 DEF SameRows
    <2> QED BY <1>1, <2>1, SameLookup
  <1>5. \A d \in Drivers : Net(d) \subseteq AllPins /\ Out(d) \in Net(d) /\ On(d) \subseteq Net(d)
    BY NetFacts DEF InOrder
  <1>6. \A d, a : WireTran(w, d, a) = WireTran(new, d, a)
    BY <1>1 DEF WireTran, OnEdges
  <1>7. w.tofs = new.tofs
    BY <1>1 DEF SameRows
  <1>8. ASSUME NEW c \in Cells PROVE SlewHolds(new, c)
    <2>1. c # 0 /\ c \in Drivers
      BY TopoAssumption DEF Cells, Drivers
    <2>2. \A p \in Net(c) :
            new.tran[p] = Sum(IF p = Out(c) THEN LookupST(new, c) ELSE WireTran(new, c, LookupST(new, c)), new.tofs[p])
      <3>1. Own("tran", w, new.tran, c) = LookupST(new, c)
        BY <1>4 DEF Own
      <3>2. \A p \in Net(c) : new.tran[p] = OnNet("tran", w, LookupST(new, c), c, p)
        BY <1>3, <3>1 DEF Value
      <3>3. WireTran(w, c, LookupST(new, c)) = WireTran(new, c, LookupST(new, c))
        BY <1>6
      <3> QED BY <1>7, <3>2, <3>3 DEF OnNet
    <2>3. Out(c) \notin On(c)
      BY TopoAssumption DEF Out, On, Fo, PO, Cells
    <2> QED BY <1>5, <2>1, <2>2, <2>3 DEF SlewHolds
  <1>9. SlewHolds(new, 0)
    <2>1. ASSUME NEW p \in On(0)
          PROVE  new.tran[p] = Sum(WireTran(new, 0, new.tran[Out(0)]), new.tofs[p])
      <3>1. new.tofs[p] = Const(0)
        <4>1. p \in AllPins
          BY <1>5, <2>1 DEF Drivers
        <4> QED BY <1>1, <4>1 DEF NoBias, SameRows
      <3>2. new.tran[p] = OnEdges(LAMBDA e : WireTran(new, 0, new.tran[Out(0)])[e] + Const(0)[Other(e)])
        <4>1. WireTran(w, 0, w.tran[Out(0)]) = WireTran(new, 0, new.tran[Out(0)])
          BY <1>3, <1>6
        <4> QED BY <1>3, <1>7, <2>1, <3>1, <4>1 DEF OnEdges
      <3>3. \A e \in Edges : Const(0)[Other(e)] = Const(0)[e]
        BY DEF Const, Other, Edges
      <3> QED BY <3>1, <3>2 DEF Sum, OnEdges, Const, Other
    <2> QED BY <2>1 DEF SlewHolds
  <1>10. \A d \in Drivers : SlewHolds(new, d)
    BY <1>8, <1>9 DEF Drivers
  <1> QED BY <1>10 DEF new

\* What the delays along the list are.
LEMMA DelaysAlong ==
  ASSUME InOrder, NEW tm, Stored(tm)
  PROVE  /\ \A c \in Cells : \A p \in In(c) : DelayAlong(tm)[p] = ArcDelay(tm, p)
         /\ \A c \in Cells : ClockAlong(tm)[c] = ClockToQ(tm, c)
  <1>1. Range(topolist) = Cells
    BY DEF InOrder, Lists
  <1> QED BY <1>1 DEF DelayAlong, ClockAlong, Put

LEMMA ArrivalsHold ==
  ASSUME InOrder, NEW tm, Ready(tm)
  PROVE  \A d \in Drivers : ArrivalHolds(CallTimer(tm), d)
  <1> DEFINE new == CallTimer(tm)
             s == Slewing(tm)
             g == Delaying(tm)
  <1>1. /\ Stored(s) /\ Stored(g) /\ SameRows(s, tm) /\ SameRows(g, tm) /\ s.tot = tm.tot /\ g.tot = tm.tot
        /\ s.tran = new.tran /\ g.dly = DelayAlong(s) /\ g.ck = ClockAlong(s) /\ g.wire = new.wire
        /\ Stored(new) /\ SameRows(new, tm) /\ new.tot = tm.tot /\ new.dly = g.dly
        /\ new.aat = ArrivalAlong(g)
    BY FullParts
  <1> HIDE DEF new, s, g
  <1>2. /\ new.aat[Out(0)] = Const(0)
        /\ \A p \in On(0) : new.aat[p] = Sum(Const(0), Const(new.wire[0]))
        /\ \A c \in Cells : \A p \in Net(c) : new.aat[p] = Value("aat", g, new.aat, c, p)
    BY <1>1, ArrivalsAlong
  <1>3. /\ \A c \in Cells : \A p \in In(c) : g.dly[p] = ArcDelay(s, p)
        /\ \A c \in Cells : g.ck[c] = ClockToQ(s, c)
    BY <1>1, DelaysAlong
  <1>4. s.row = new.row /\ s.tot = new.tot /\ s.tran = new.tran
    BY <1>1 DEF SameRows
  <1>5. \A p : ArcDelay(s, p) = ArcDelay(new, p)
    BY <1>4 DEF ArcDelay
  <1>6. \A c : ClockToQ(s, c) = ClockToQ(new, c)
    BY <1>4 DEF ClockToQ
  <1>7. \A d \in Drivers : Net(d) \subseteq AllPins /\ Out(d) \in Net(d) /\ On(d) \subseteq Net(d)
    BY NetFacts DEF InOrder
  <1>8. ASSUME NEW c \in Cells PROVE ArrivalHolds(new, c)
    <2> DEFINE own == Arrival([g EXCEPT !.aat = new.aat], c)
               anew == [new EXCEPT !.dly = LookupDT(new, c)]
    <2>1. c # 0 /\ c \in Drivers
      BY TopoAssumption DEF Cells, Drivers
    <2>2. \A p \in Net(c) : new.aat[p] = IF p = Out(c) THEN own ELSE Sum(own, Const(new.wire[c]))
      BY <1>1, <1>2 DEF Value, OnNet, Own
    <2>3. Out(c) \notin On(c)
      BY TopoAssumption DEF Out, On, Fo, PO, Cells
    <2>4. own = IF IsFF(c) THEN ClockToQ(new, c) ELSE Arrival(anew, c)
      <3> DEFINE old == [g EXCEPT !.aat = new.aat]
      <3>1. old.ck = g.ck /\ old.dly = g.dly /\ old.aat = new.aat
        BY <1>1 DEF Stored
      <3>2. anew.dly = LookupDT(new, c) /\ anew.aat = new.aat
        BY <1>1 DEF Stored
      <3> HIDE DEF anew, old
      <3>3. own = Arrival(old, c)
        BY DEF old
      <3>4. CASE IsFF(c)
        <4>1. own = OnEdges(LAMBDA e : ClockToQ(new, c)[e])
          BY <1>3, <1>6, <3>1, <3>3, <3>4 DEF Arrival, OnEdges
        <4> QED BY <3>4, <4>1 DEF OnEdges, ClockToQ
      <3>5. CASE ~IsFF(c)
        <4>1. \A p \in In(c) : anew.dly[p] = old.dly[p]
          BY <1>3, <1>5, <3>1, <3>2 DEF LookupDT, Put
        <4>2. \A e : {old.dly[p][e] + old.aat[p][Src(c, e)] : p \in In(c)}
                   = {anew.dly[p][e] + anew.aat[p][Src(c, e)] : p \in In(c)}
          BY <3>1, <3>2, <4>1
        <4>3. Arrival(old, c) = Arrival(anew, c)
          BY <3>5, <4>2 DEF Arrival, OnEdges
        <4> QED BY <3>3, <3>5, <4>3
      <3> QED BY <3>4, <3>5
    <2> HIDE DEF own, anew
    <2>5. new.aat[Out(c)] = own /\ \A p \in On(c) : new.aat[p] = Sum(own, Const(new.wire[c]))
      BY <1>7, <2>1, <2>2, <2>3
    <2> QED BY <2>4, <2>5 DEF ArrivalHolds, anew
  <1>9. ArrivalHolds(new, 0)
    BY <1>2 DEF ArrivalHolds
  <1>10. \A d \in Drivers : ArrivalHolds(new, d)
    BY <1>8, <1>9 DEF Drivers
  <1> QED BY <1>10 DEF new

-----------------------------------------------------------------------------
(* The required times of a full timing.                                    *)

Pairs == [r : Int, f : Int]

\* Delays and wires are numbers.
Numbered(tm) ==
  /\ \A c \in Cells : \A p \in In(c) : \A e \in Edges : tm.dly[p][e] \in Int
  /\ \A d \in Drivers : tm.wire[d] \in Int

LEMMA TwoNumbers ==
  ASSUME NEW a \in Int, NEW b \in Int
  PROVE  /\ Max({a, b}) = IF a >= b THEN a ELSE b
         /\ Min({a, b}) = IF a <= b THEN a ELSE b
  BY DEF Max, Min

LEMMA LeastIsMin ==
  ASSUME NEW S \in SUBSET Int, NEW v \in S, \A y \in S : v <= y
  PROVE  Min(S) = v
  <1>1. \A x \in S : (\A y \in S : x <= y) => x = v
    <2> TAKE x \in S
    <2> HAVE \A y \in S : x <= y
    <2>1. x <= v /\ v <= x /\ x \in Int /\ v \in Int
      OBVIOUS
    <2> QED BY <2>1
  <1> QED BY <1>1 DEF Min

LEMMA LesserFacts ==
  ASSUME NEW a \in Pairs, NEW b \in Pairs
  PROVE  /\ Lesser(a, b) \in Pairs
         /\ \A e \in Edges : Lesser(a, b)[e] = IF a[e] <= b[e] THEN a[e] ELSE b[e]
  <1>1. a.r \in Int /\ a.f \in Int /\ b.r \in Int /\ b.f \in Int
    BY DEF Pairs
  <1>2. /\ Min({a.r, b.r}) = IF a.r <= b.r THEN a.r ELSE b.r
        /\ Min({a.f, b.f}) = IF a.f <= b.f THEN a.f ELSE b.f
    BY <1>1, TwoNumbers
  <1>3. Lesser(a, b) = [r |-> Min({a.r, b.r}), f |-> Min({a.f, b.f})]
    BY DEF Lesser, OnEdges
  <1> QED BY <1>1, <1>2, <1>3 DEF Pairs, Edges

LEMMA LessFacts ==
  ASSUME NEW a \in Pairs, NEW w \in Int
  PROVE  Less(a, w) \in Pairs /\ \A e \in Edges : Less(a, w)[e] = a[e] - w
  BY DEF Less, OnEdges, Pairs, Edges

LEMMA ConstFacts ==
  ASSUME NEW a \in Int
  PROVE  Const(a) \in Pairs /\ \A e \in Edges : Const(a)[e] = a
  BY DEF Const, Pairs, Edges

LEMMA NeedsFacts ==
  ASSUME Netlist, NEW tm, Stored(tm), Numbered(tm), NEW x, NEW c \in Cells,
         c \notin flops => x[Out(c)] \in Pairs, NEW p \in In(c)
  PROVE  Needs(tm, x, p) \in Pairs
  <1> DEFINE old == [tm EXCEPT !.rat = x]
  <1>1. old.rat = x /\ old.dly = tm.dly
    BY DEF Stored
  <1> HIDE DEF old
  <1>2. p[2] = c
    BY NetFacts
  <1>3. tm.dly[p]["r"] \in Int /\ tm.dly[p]["f"] \in Int
    BY DEF Numbered, Edges
  <1>4. Src(c, "r") \in {"r", "f"} /\ Src(c, "f") \in {"r", "f"}
    BY DEF Src, Other
  <1>5. Required(old, p) \in Pairs
    <2>1. CASE c \in flops
      BY <1>1, <1>2, <1>3, <2>1, TimerAssumption DEF Required, OnEdges, IsFF, Pairs
    <2>2. CASE c \notin flops
      <3>1. \A e \in {"r", "f"} : x[Out(c)][e] \in Int /\ tm.dly[p][e] \in Int
        BY <1>3, <2>2 DEF Pairs
      <3>2. Required(old, p) = [r |-> x[Out(c)][Src(c, "r")] - tm.dly[p][Src(c, "r")],
                                f |-> x[Out(c)][Src(c, "f")] - tm.dly[p][Src(c, "f")]]
        BY <1>1, <1>2, <2>2 DEF Required, OnEdges, IsFF
      <3> QED BY <1>4, <3>1, <3>2 DEF Pairs
    <2> QED BY <2>1, <2>2
  <1>6. Const(Far) \in Pairs
    BY ConstFacts, TimerAssumption
  <1> QED BY <1>5, <1>6, LesserFacts DEF Needs, old

LEMMA NeedsLocal ==
  ASSUME Netlist, NEW tm, Stored(tm), NEW x, NEW y, NEW c \in Cells,
         c \notin flops => x[Out(c)] = y[Out(c)], NEW p \in In(c)
  PROVE  Needs(tm, x, p) = Needs(tm, y, p)
  <1>1. p[2] = c
    BY NetFacts
  <1>2. /\ [tm EXCEPT !.rat = x].rat = x /\ [tm EXCEPT !.rat = x].dly = tm.dly
        /\ [tm EXCEPT !.rat = y].rat = y /\ [tm EXCEPT !.rat = y].dly = tm.dly
    BY DEF Stored
  <1>3. Required([tm EXCEPT !.rat = x], p) = Required([tm EXCEPT !.rat = y], p)
    BY <1>1, <1>2 DEF Required, OnEdges, IsFF
  <1> QED BY <1>3 DEF Needs

\* What meeting c makes of x: its input pins are final, its drivers lowered.
SteppedBack(tm, x, c, y) ==
  /\ AllPins \subseteq DOMAIN y
  /\ \A p \in In(c) : y[p] = Needs(tm, x, p)
  /\ \A d \in Fi(c) : y[Out(d)] = Lesser(x[Out(d)], Less(Needs(tm, x, <<d, c>>), tm.wire[d]))
  /\ \A p \in AllPins : p[2] # c /\ (p[2] # 0 \/ p[1] \notin Fi(c)) => y[p] = x[p]

LEMMA BackStep ==
  ASSUME Netlist, NEW tm, NEW x, AllPins \subseteq DOMAIN x, NEW c \in Cells
  PROVE  SteppedBack(tm, x, c, RequiredStep(tm, x, c))
  <1> DEFINE y == RequiredStep(tm, x, c)
             S == In(c) \cup {Out(d) : d \in Fi(c)}
  <1>1. y = [p \in DOMAIN x \cup S |->
               IF p \in S
               THEN IF p[2] = c THEN Needs(tm, x, p)
                    ELSE Lesser(x[p], Less(Needs(tm, x, <<p[1], c>>), tm.wire[p[1]]))
               ELSE x[p]]
    BY DEF RequiredStep, Put
  <1>2. \A p \in In(c) : p[2] = c /\ p \in S
    BY NetFacts
  <1>3. \A d \in Fi(c) : Out(d) \in S /\ Out(d)[1] = d /\ Out(d)[2] # c
    BY TopoAssumption DEF Out, Cells
  <1>4. \A p \in S : p[2] = c \/ (p[2] = 0 /\ p[1] \in Fi(c))
    BY <1>2 DEF Out
  <1> HIDE DEF y, S
  <1>5. AllPins \subseteq DOMAIN y
    BY <1>1
  <1>6. \A p \in In(c) : y[p] = Needs(tm, x, p)
    BY <1>1, <1>2
  <1>7. \A d \in Fi(c) : y[Out(d)] = Lesser(x[Out(d)], Less(Needs(tm, x, <<d, c>>), tm.wire[d]))
    BY <1>1, <1>3
  <1>8. \A p \in AllPins : p[2] # c /\ (p[2] # 0 \/ p[1] \notin Fi(c)) => y[p] = x[p]
    BY <1>1, <1>4
  <1>9. SteppedBack(tm, x, c, y)
    BY <1>5, <1>6, <1>7, <1>8 DEF SteppedBack
  <1> QED BY <1>9 DEF y

-----------------------------------------------------------------------------
(* The sweep back: the pins of the cells met so far have their final       *)
(* times, and each driver the least any of its pins met so far asks for.   *)

\* The pins whose required time is known after k steps.
Met(p, k) == p[2] = PO \/ \E j \in 1 .. k : p[2] = rtopolist[j]

\* x at the output of d is the least of Far and what pins of S ask for.
LeastOf(tm, x, d, S) ==
  \A e \in Edges :
    /\ x[Out(d)][e] <= Far
    /\ \A p \in S : x[Out(d)][e] <= x[p][e] - tm.wire[d]
    /\ x[Out(d)][e] = Far \/ \E p \in S : x[Out(d)][e] = x[p][e] - tm.wire[d]

BackTo(tm, x, k) ==
  /\ AllPins \subseteq DOMAIN x
  /\ \A p \in AllPins : x[p] \in Pairs /\ (p[2] = PO => x[p] = Const(Period))
  /\ \A j \in 1 .. k : \A p \in In(rtopolist[j]) : x[p] = Needs(tm, x, p)
  /\ \A d \in Drivers : LeastOf(tm, x, d, {p \in On(d) : Met(p, k)})

LEMMA SweptFirst ==
  ASSUME Netlist, NEW tm, Numbered(tm)
  PROVE  BackTo(tm, AtPorts(tm), 0)
  <1> DEFINE x == AtPorts(tm)
  <1>1. /\ DOMAIN x = AllPins
        /\ \A p \in AllPins : x[p] = IF p[2] = PO THEN Const(Period)
              ELSE IF p[2] = 0 /\ PO \in Fo(p[1])
                   THEN Lesser(Const(Far), Less(Const(Period), tm.wire[p[1]]))
                   ELSE Const(Far)
    BY DEF AtPorts
  <1> HIDE DEF x
  <1>2. Period \in Int /\ Far \in Int /\ \A d \in Drivers : tm.wire[d] \in Int
    BY TimerAssumption DEF Numbered
  <1>3. /\ Const(Period) \in Pairs /\ Const(Far) \in Pairs
        /\ \A e \in Edges : Const(Period)[e] = Period /\ Const(Far)[e] = Far
    BY <1>2, ConstFacts
  <1>4. ASSUME NEW d \in Drivers
        PROVE  /\ Less(Const(Period), tm.wire[d]) \in Pairs
               /\ Lesser(Const(Far), Less(Const(Period), tm.wire[d])) \in Pairs
               /\ \A e \in Edges :
                    Lesser(Const(Far), Less(Const(Period), tm.wire[d]))[e]
                      = IF Far <= Period - tm.wire[d] THEN Far ELSE Period - tm.wire[d]
    <2>1. /\ Less(Const(Period), tm.wire[d]) \in Pairs
          /\ \A e \in Edges : Less(Const(Period), tm.wire[d])[e] = Period - tm.wire[d]
      <3> DEFINE a == Const(Period)
                 w == tm.wire[d]
      <3>1. a \in Pairs /\ w \in Int /\ \A e \in Edges : a[e] = Period
        BY <1>2, <1>3
      <3> HIDE DEF a, w
      <3>2. Less(a, w) \in Pairs /\ \A e \in Edges : Less(a, w)[e] = a[e] - w
        BY <3>1, LessFacts
      <3> QED BY <3>1, <3>2 DEF a, w
    <2> QED BY <1>3, <2>1, LesserFacts
  <1>5. \A p \in AllPins : x[p] \in Pairs /\ (p[2] = PO => x[p] = Const(Period))
    <2>1. \A p \in AllPins : p[1] \in Drivers
      BY NetFacts
    <2> QED BY <1>1, <1>3, <1>4, <2>1
  <1>6. ASSUME NEW d \in Drivers PROVE LeastOf(tm, x, d, {p \in On(d) : Met(p, 0)})
    <2> DEFINE S == {p \in On(d) : Met(p, 0)}
    <2>1. /\ Out(d) \in AllPins /\ Out(d)[2] = 0 /\ Out(d)[1] = d /\ PO # 0
          /\ On(d) \subseteq AllPins
      BY NetFacts, PinFacts DEF Out
    <2>2. \A p \in S : p \in On(d) /\ p[2] = PO /\ p \in AllPins
      BY <2>1 DEF Met
    <2>3. \A p \in S : \A e \in Edges : x[p][e] = Period
      BY <1>3, <1>5, <2>2
    <2>4. S = {} \/ PO \in Fo(d)
      BY <2>2 DEF On
    <2>5. PO \in Fo(d) => <<d, PO>> \in S
      BY DEF On, Met
    <2>6. CASE PO \in Fo(d)
      <3>1. \A e \in Edges : x[Out(d)][e] = IF Far <= Period - tm.wire[d] THEN Far ELSE Period - tm.wire[d]
        BY <1>1, <1>4, <2>1, <2>6
      <3> HIDE DEF S
      <3> QED BY <1>2, <2>3, <2>5, <2>6, <3>1 DEF LeastOf, S
    <2>7. CASE PO \notin Fo(d)
      <3>1. \A e \in Edges : x[Out(d)][e] = Far
        BY <1>1, <1>3, <2>1, <2>7
      <3>2. S = {}
        BY <2>4, <2>7
      <3> HIDE DEF S
      <3> QED BY <1>2, <3>1, <3>2 DEF LeastOf, S
    <2> QED BY <2>6, <2>7
  <1> QED BY <1>1, <1>5, <1>6 DEF BackTo, x

LEMMA SweptStep ==
  ASSUME InOrder, NEW tm, Stored(tm), Numbered(tm), NEW k \in 1 .. Len(rtopolist),
         NEW x, BackTo(tm, x, k - 1)
  PROVE  BackTo(tm, RequiredStep(tm, x, rtopolist[k]), k)
  <1> DEFINE c == rtopolist[k]
             y == RequiredStep(tm, x, c)
             need(d) == Needs(tm, x, <<d, c>>)
  <1>1. /\ Len(rtopolist) \in Nat /\ \A i \in 1 .. Len(rtopolist) : rtopolist[i] \in Cells
        /\ \A i, j \in 1 .. Len(rtopolist) : rtopolist[i] = rtopolist[j] => i = j
    BY ListsFacts DEF InOrder
  <1>2. Netlist /\ c \in Cells /\ c \in Drivers /\ c # 0 /\ c # PO /\ PO # 0
    BY <1>1, PinFacts DEF InOrder, Drivers
  <1>3. /\ AllPins \subseteq DOMAIN x
        /\ \A p \in AllPins : x[p] \in Pairs /\ (p[2] = PO => x[p] = Const(Period))
        /\ \A j \in 1 .. k - 1 : \A p \in In(rtopolist[j]) : x[p] = Needs(tm, x, p)
        /\ \A d \in Drivers : LeastOf(tm, x, d, {p \in On(d) : Met(p, k - 1)})
    BY DEF BackTo
  <1>4. /\ AllPins \subseteq DOMAIN y
        /\ \A p \in In(c) : y[p] = Needs(tm, x, p)
        /\ \A d \in Fi(c) : y[Out(d)] = Lesser(x[Out(d)], Less(need(d), tm.wire[d]))
        /\ \A p \in AllPins : p[2] # c /\ (p[2] # 0 \/ p[1] \notin Fi(c)) => y[p] = x[p]
    <2> HIDE DEF c
    <2>1. SteppedBack(tm, x, c, y)
      BY <1>2, <1>3, BackStep
    <2> HIDE DEF y
    <2> QED BY <2>1 DEF need, SteppedBack
  <1> HIDE DEF y
  <1>5. \A p \in In(c) : Needs(tm, x, p) \in Pairs
    <2>1. Out(c) \in AllPins
      BY <1>2 DEF AllPins
    <2>2. x[Out(c)] \in Pairs
      BY <1>3, <2>1
    <2> QED BY <1>2, <2>2, NeedsFacts
  <1>6. \A d \in Fi(c) : <<d, c>> \in In(c) /\ d \in Drivers /\ need(d) \in Pairs /\ tm.wire[d] \in Int
    <2>1. \A d \in Fi(c) : <<d, c>> \in In(c) /\ d \in Drivers
      BY <1>2, PinFacts DEF In
    <2> QED BY <1>5, <2>1 DEF Numbered
  <1> HIDE DEF need
  <1>7. ASSUME NEW d \in Fi(c)
        PROVE  /\ y[Out(d)] \in Pairs
               /\ \A e \in Edges : y[Out(d)][e] = IF x[Out(d)][e] <= need(d)[e] - tm.wire[d]
                                                  THEN x[Out(d)][e] ELSE need(d)[e] - tm.wire[d]
    <2>1. Out(d) \in AllPins
      BY <1>6 DEF AllPins
    <2>2. x[Out(d)] \in Pairs
      BY <1>3, <2>1
    <2>3. /\ Less(need(d), tm.wire[d]) \in Pairs
          /\ \A e \in Edges : Less(need(d), tm.wire[d])[e] = need(d)[e] - tm.wire[d]
      BY <1>6, LessFacts
    <2> QED BY <1>4, <2>2, <2>3, LesserFacts
  <1>8. ASSUME NEW p \in AllPins PROVE y[p] \in Pairs /\ (p[2] = PO => y[p] = Const(Period))
    <2>1. CASE p[2] = c
      <3>1. p \in Net(p[1]) /\ p[1] \in Drivers
        BY <1>2, NetFacts
      <3>2. p \in On(p[1])
        BY <1>2, <2>1, <3>1 DEF Net, Out
      <3>3. c \in Fo(p[1]) /\ p = <<p[1], c>>
        BY <2>1, <3>2 DEF On
      <3>4. p \in In(c)
        BY <1>2, <3>1, <3>3, PinFacts DEF In
      <3> QED BY <1>2, <1>4, <1>5, <2>1, <3>4
    <2>2. CASE p[2] = 0 /\ p[1] \in Fi(c)
      <3>1. p = Out(p[1])
        <4>1. p \in Net(p[1]) /\ p[1] \in Drivers
          BY <1>2, NetFacts
        <4>2. p \notin On(p[1])
          BY <1>2, <2>2, <4>1, PinFacts DEF On
        <4> QED BY <4>1, <4>2 DEF Net
      <3> QED BY <1>2, <1>7, <2>2, <3>1
    <2>3. CASE p[2] # c /\ (p[2] # 0 \/ p[1] \notin Fi(c))
      BY <1>3, <1>4, <2>3
    <2> QED BY <2>1, <2>2, <2>3
  <1>9. ASSUME NEW j \in 1 .. k, NEW p \in In(rtopolist[j])
        PROVE  y[p] = Needs(tm, y, p)
    <2> DEFINE b == rtopolist[j]
    <2>1. j \in 1 .. Len(rtopolist) /\ b \in Cells /\ p[2] = b /\ p \in AllPins
      BY <1>1, <1>2, <1>9, NetFacts
    <2>2. b \notin flops => x[Out(b)] = y[Out(b)]
      <3> SUFFICES ASSUME b \notin flops PROVE x[Out(b)] = y[Out(b)]
        OBVIOUS
      <3>1. b \notin Fi(c)
        <4> SUFFICES ASSUME b \in Fi(c) PROVE FALSE
          OBVIOUS
        <4>1. wires[b][c] # 0
          BY <1>2, <2>1, PinFacts
        <4>2. Before(rtopolist, c, b)
          BY <1>2, <2>1, <4>1 DEF InOrder
        <4>3. k < j
          BY <2>1, <4>2 DEF Before
        <4> QED BY <4>3
      <3>2. Out(b) \in AllPins /\ Out(b)[2] = 0 /\ Out(b)[1] = b
        BY <2>1 DEF AllPins, Drivers, Out
      <3> QED BY <1>2, <1>4, <3>1, <3>2
    <2>3. Needs(tm, x, p) = Needs(tm, y, p)
      <3> HIDE DEF b
      <3>1. p \in In(b)
        BY <1>9 DEF b
      <3> QED BY <1>2, <2>1, <2>2, <3>1, NeedsLocal
    <2>4. CASE j = k
      BY <1>4, <1>9, <2>3, <2>4
    <2>5. CASE j # k
      <3>1. j \in 1 .. k - 1 /\ b # c /\ b # 0
        BY <1>1, <1>2, <2>1, <2>5, PinFacts
      <3>2. y[p] = x[p]
        BY <1>4, <2>1, <3>1
      <3> QED BY <1>3, <1>9, <2>3, <3>1, <3>2
    <2> QED BY <2>4, <2>5
  <1>10. \A p : Met(p, k) <=> Met(p, k - 1) \/ p[2] = c
    BY <1>1 DEF Met
  <1>11. \A p : Met(p, k - 1) => p[2] # c
    BY <1>1, <1>2 DEF Met
  <1>12. ASSUME NEW d \in Drivers PROVE LeastOf(tm, y, d, {p \in On(d) : Met(p, k)})
    <2> DEFINE S == {p \in On(d) : Met(p, k - 1)}
               T == {p \in On(d) : Met(p, k)}
    <2>1. /\ Out(d) \in AllPins /\ Out(d)[2] = 0 /\ Out(d)[1] = d /\ On(d) \subseteq AllPins
          /\ \A p \in On(d) : p[2] # 0 /\ p[1] = d
      <3>1. \A p \in On(d) : p[2] # 0 /\ p[1] = d
        BY <1>2, PinFacts DEF On
      <3> QED BY <1>2, <3>1, NetFacts DEF Out
    <2>2. S \subseteq T /\ \A p \in S : p[2] # c /\ y[p] = x[p]
      BY <1>4, <1>10, <1>11, <2>1
    <2>3. LeastOf(tm, x, d, S)
      BY <1>3
    <2>4. CASE d \in Fi(c)
      <3> DEFINE q == <<d, c>>
      <3>1. q \in On(d) /\ q[2] = c /\ y[q] = need(d)
        <4>1. q \in In(c)
          BY <1>6, <2>4
        <4>2. c \in Fo(d)
          BY <1>2, <2>4, PinFacts
        <4> QED BY <1>4, <4>1, <4>2 DEF On, need
      <3>2. T = S \cup {q}
        <4>1. \A p \in On(d) : p[2] = c => p = q
          BY DEF On
        <4> QED BY <1>10, <3>1, <4>1
      <3>3. /\ x[Out(d)] \in Pairs /\ need(d) \in Pairs /\ tm.wire[d] \in Int
            /\ \A p \in S : x[p] \in Pairs
        BY <1>3, <1>6, <2>1, <2>4
      <3> HIDE DEF S, T, q
      <3>4. ASSUME NEW e \in Edges
            PROVE  /\ y[Out(d)][e] <= Far
                   /\ \A p \in T : y[Out(d)][e] <= y[p][e] - tm.wire[d]
                   /\ y[Out(d)][e] = Far \/ \E p \in T : y[Out(d)][e] = y[p][e] - tm.wire[d]
        <4>1. y[Out(d)][e] = IF x[Out(d)][e] <= need(d)[e] - tm.wire[d]
                             THEN x[Out(d)][e] ELSE need(d)[e] - tm.wire[d]
          BY <1>7, <2>4
        <4>2. /\ x[Out(d)][e] <= Far
              /\ \A p \in S : x[Out(d)][e] <= x[p][e] - tm.wire[d]
              /\ x[Out(d)][e] = Far \/ \E p \in S : x[Out(d)][e] = x[p][e] - tm.wire[d]
          BY <2>3 DEF LeastOf
        <4>3. /\ x[Out(d)][e] \in Int /\ need(d)[e] \in Int /\ tm.wire[d] \in Int /\ Far \in Int
              /\ \A p \in S : x[p][e] \in Int
          BY <3>3, TimerAssumption DEF Pairs, Edges
        <4>4. \A p \in S : y[p][e] = x[p][e]
          BY <2>2
        <4>5. y[q][e] = need(d)[e]
          BY <3>1
        <4>6. CASE x[Out(d)][e] <= need(d)[e] - tm.wire[d]
          BY <3>2, <4>1, <4>2, <4>3, <4>4, <4>5, <4>6
        <4>7. CASE ~(x[Out(d)][e] <= need(d)[e] - tm.wire[d])
          <5>1. y[Out(d)][e] = y[q][e] - tm.wire[d] /\ y[Out(d)][e] <= x[Out(d)][e]
            BY <4>1, <4>3, <4>5, <4>7
          <5>2. y[Out(d)][e] <= Far
            BY <4>2, <4>3, <4>5, <5>1
          <5>3. \A p \in S : y[Out(d)][e] <= y[p][e] - tm.wire[d]
            BY <4>2, <4>3, <4>4, <4>5, <5>1
          <5>4. y[Out(d)][e] <= y[q][e] - tm.wire[d]
            BY <4>3, <4>5, <5>1
          <5> QED BY <3>2, <5>1, <5>2, <5>3, <5>4
        <4> QED BY <4>6, <4>7
      <3> QED BY <3>4 DEF LeastOf, T
    <2>5. CASE d \notin Fi(c)
      <3>1. T = S
        <4>1. \A p \in On(d) : p[2] # c
          BY <1>2, <2>5, PinFacts DEF On
        <4> QED BY <1>10, <4>1
      <3>2. y[Out(d)] = x[Out(d)]
        BY <1>2, <1>4, <2>1, <2>5
      <3> HIDE DEF S, T
      <3>3. LeastOf(tm, y, d, S)
        BY <2>2, <2>3, <3>2 DEF LeastOf
      <3> QED BY <3>1, <3>3 DEF T
    <2> QED BY <2>4, <2>5
  <1>13. BackTo(tm, y, k)
    BY <1>4, <1>8, <1>9, <1>12 DEF BackTo
  <1> QED BY <1>13 DEF y

-----------------------------------------------------------------------------
(* Slews, delays and wires are numbers if the tables hold numbers.         *)

TablesTyped ==
  /\ \A row \in 0 .. MaxRow : CapOf(row) \in Nat
  /\ \A row \in 0 .. MaxRow, e \in Edges, tran \in Int, load \in Nat :
       TranTab(row, e, tran, load) \in Int /\ DelayTab(row, e, tran, load) \in Int
  /\ \A e \in Edges, tran \in Int : SetupTab(e, tran) \in Int
  /\ \A load \in Nat : WireTab(load) \in Int

LEMMA LoadIsNat ==
  ASSUME TablesTyped, Netlist, NEW row \in [Cells -> 0 .. MaxRow], NEW d \in Drivers
  PROVE  Load(row, d) \in Nat
  <1> DEFINE f == CapsOn(row, d)
  <1>1. f \in [Cells -> Nat]
    <2>1. ASSUME NEW c \in Cells, c \in Fo(d) PROVE Mult(d, c) * CapOf(row[c]) \in Nat
      <3>1. Mult(d, c) \in Nat
        BY TopoAssumption DEF Mult, Drivers, Netlist
      <3>2. CapOf(row[c]) \in Nat
        BY DEF TablesTyped
      <3> DEFINE m == Mult(d, c)
                 n == CapOf(row[c])
      <3> HIDE DEF m, n
      <3>3. m \in Nat /\ n \in Nat => m * n \in Nat
        OBVIOUS
      <3> QED BY <3>1, <3>2, <3>3 DEF m, n
    <2>2. \A c \in Cells : f[c] \in Nat
      BY <2>1 DEF CapsOn
    <2> QED BY <2>2 DEF CapsOn
  <1> HIDE DEF f
  <1>2. Total(f) = Sums(f)[Cells]
    BY DEF Total, MapThenSumSet, MapThenFoldSet, Sums, IsSums, Pick
  <1>3. Total(f) \in Nat
    BY <1>1, <1>2, SumsNat
  <1>4. Load(row, d) = 1 + (IF PO \in Fo(d) THEN 1 ELSE 0) + Total(f)
    BY DEF Load, NetCap, f
  <1> QED BY <1>3, <1>4

\* A finite set of numbers has a largest one.
LEMMA MaxIsInt ==
  ASSUME NEW S \in SUBSET Int, IsFiniteSet(S), S # {}
  PROVE  Max(S) \in Int
  <1> DEFINE Bad == {n \in Nat : \E T \in SUBSET S :
                       T # {} /\ Cardinality(T) = n /\ ~ \E x \in T : \A y \in T : x >= y}
  <1>1. CASE Bad = {}
    <2>1. Cardinality(S) \in Nat
      BY FS_CardinalityType
    <2>2. \E x \in S : \A y \in S : x >= y
      BY <1>1, <2>1
    <2> QED BY <2>2 DEF Max
  <1>2. CASE Bad # {}
    <2>1. PICK n \in Bad : \A m \in Bad : n <= m
      BY <1>2, Least
    <2>2. PICK T \in SUBSET S : T # {} /\ Cardinality(T) = n /\ ~ \E x \in T : \A y \in T : x >= y
      BY <2>1
    <2>3. PICK a \in T : TRUE
      BY <2>2
    <2> DEFINE U == T \ {a}
    <2>4. IsFiniteSet(T) /\ IsFiniteSet(U) /\ Cardinality(U) = n - 1 /\ n - 1 \in Nat
      <3>1. IsFiniteSet(T)
        BY FS_Subset
      <3>2. IsFiniteSet(U) /\ Cardinality(U) = Cardinality(T) - 1
        BY <3>1, FS_RemoveElement
      <3>3. Cardinality(U) \in Nat
        BY <3>2, FS_CardinalityType
      <3> QED BY <2>2, <3>1, <3>2, <3>3
    <2>5. n - 1 \notin Bad
      <3>1. n \in Nat
        OBVIOUS
      <3> HIDE DEF Bad
      <3> QED BY <2>1, <2>4, <3>1
    <2>6. CASE U = {}
      <3>1. T = {a} /\ a \in Int
        BY <2>6
      <3> QED BY <2>2, <3>1
    <2>7. CASE U # {}
      <3>1. PICK m \in U : \A y \in U : m >= y
        BY <2>4, <2>5, <2>7
      <3>2. T = U \cup {a} /\ a \in Int /\ m \in Int /\ U \subseteq Int
        OBVIOUS
      <3> HIDE DEF U
      <3>3. IF m >= a THEN \A y \in T : m >= y ELSE \A y \in T : a >= y
        BY <3>1, <3>2
      <3> QED BY <2>2, <3>2, <3>3
    <2> QED BY <2>6, <2>7
  <1> QED BY <1>1, <1>2

LEMMA LargestIsInt ==
  ASSUME Netlist, NEW c \in Cells, NEW g, \A p \in In(c) : g[p] \in Int
  PROVE  Max({0} \cup {g[p] : p \in In(c)}) \in Int
  <1> DEFINE T == {g[p] : p \in In(c)}
  <1>1. IsFiniteSet(Drivers)
    <2>1. Drivers = 0 .. N
      BY TopoAssumption DEF Drivers, Cells
    <2> QED BY <2>1, TopoAssumption, FS_Interval
  <1>2. IsFiniteSet(Fi(c))
    BY <1>1, PinFacts, FS_Subset
  <1> DEFINE h == [d \in Fi(c) |-> g[<<d, c>>]]
  <1>3. h \in Surjection(Fi(c), T)
    BY DEF Surjection, In
  <1>4. IsFiniteSet(T)
    BY <1>2, <1>3, FS_Surjection
  <1>5. IsFiniteSet(T \cup {0})
    BY <1>4, FS_AddElement
  <1>6. T \cup {0} = {0} \cup T /\ {0} \cup T \in SUBSET Int
    OBVIOUS
  <1> HIDE DEF T
  <1>7. Max({0} \cup T) \in Int
    BY <1>5, <1>6, MaxIsInt
  <1> QED BY <1>7 DEF T

LEMMA LookupTyped ==
  ASSUME TablesTyped, Netlist, NEW tm, Settled(tm), NEW c \in Cells,
         c \notin flops => \A p \in In(c) : tm.tran[p] \in Pairs
  PROVE  LookupST(tm, c) \in Pairs
  <1>1. tm.row[c] \in 0 .. MaxRow /\ tm.tot[c] \in Nat
    <2>1. tm.row \in [Cells -> 0 .. MaxRow] /\ c \in Drivers /\ tm.tot[c] = Load(tm.row, c)
      BY DEF Settled, LoadHolds, Drivers
    <2> QED BY <2>1, LoadIsNat
  <1>2. ASSUME NEW e \in Edges PROVE LookupST(tm, c)[e] \in Int
    <2>1. LookupST(tm, c)[e] =
            IF IsFF(c) THEN TranTab(tm.row[c], e, ClockTran, tm.tot[c])
            ELSE Max({0} \cup {TranTab(tm.row[c], e, tm.tran[p][Src(c, e)], tm.tot[c]) : p \in In(c)})
      <3>1. CASE e = "r"
        BY <3>1 DEF LookupST, OnEdges
      <3>2. CASE e = "f"
        BY <3>2 DEF LookupST, OnEdges
      <3> QED BY <3>1, <3>2 DEF Edges
    <2>2. CASE IsFF(c)
      BY <1>1, <2>1, <2>2 DEF TablesTyped, ClockTran
    <2>3. CASE ~IsFF(c)
      <3> DEFINE g == [p \in In(c) |-> TranTab(tm.row[c], e, tm.tran[p][Src(c, e)], tm.tot[c])]
      <3>1. ASSUME NEW p \in In(c) PROVE g[p] \in Int
        <4>1. tm.tran[p] \in Pairs /\ Src(c, e) \in Edges
          BY <2>3 DEF IsFF, Src, Other, Edges
        <4>2. tm.tran[p][Src(c, e)] \in Int
          BY <4>1 DEF Pairs, Edges
        <4> QED BY <1>1, <4>2 DEF TablesTyped
      <3>2. {TranTab(tm.row[c], e, tm.tran[p][Src(c, e)], tm.tot[c]) : p \in In(c)} = {g[p] : p \in In(c)}
        OBVIOUS
      <3> HIDE DEF g
      <3>3. Max({0} \cup {g[p] : p \in In(c)}) \in Int
        BY <3>1, LargestIsInt
      <3> QED BY <2>1, <2>3, <3>2, <3>3
    <2> QED BY <2>2, <2>3
  <1> DEFINE v == LookupST(tm, c)
  <1>3. v["r"] \in Int /\ v["f"] \in Int
    BY <1>2 DEF Edges
  <1>4. v = [r |-> v["r"], f |-> v["f"]]
    BY DEF LookupST, OnEdges
  <1> HIDE DEF v
  <1>5. v \in Pairs
    BY <1>3, <1>4 DEF Pairs
  <1> QED BY <1>5 DEF v

\* The slews are typed: by the first cell of the list whose are not.
LEMMA SlewsTyped ==
  ASSUME TablesTyped, InOrder, NEW tm, Settled(tm), NoBias(tm),
         \A d \in Drivers : SlewHolds(tm, d)
  PROVE  \A p \in AllPins : tm.tran[p] \in Pairs
  <1> DEFINE Typed(d) == \A p \in Net(d) : tm.tran[p] \in Pairs
             n == Len(topolist)
             Bad == {k \in 1 .. n : ~Typed(topolist[k])}
  <1>1. /\ n \in Nat /\ \A i \in 1 .. n : topolist[i] \in Cells
        /\ \A c \in Cells : \E i \in 1 .. n : topolist[i] = c
    BY ListsFacts DEF InOrder
  <1> HIDE DEF n
  <1>2. Netlist
    BY DEF InOrder
  <1>3. ASSUME NEW d \in Drivers, NEW own \in Pairs, NEW p \in Net(d)
        PROVE  /\ Sum(own, tm.tofs[p]) \in Pairs
               /\ Sum(WireTran(tm, d, own), tm.tofs[p]) \in Pairs
    <2>1. tm.tofs[p] = Const(0)
      BY <1>2, NetFacts DEF NoBias
    <2>2. tm.wire[d] \in Int
      <3>1. tm.row \in [Cells -> 0 .. MaxRow] /\ tm.wire[d] = WireTab(Load(tm.row, d))
        BY DEF Settled, LoadHolds
      <3> QED BY <1>2, <3>1, LoadIsNat DEF TablesTyped
    <2>3. own.r \in Int /\ own.f \in Int
      BY DEF Pairs
    <2> QED BY <2>1, <2>2, <2>3 DEF Sum, WireTran, OnEdges, Const, Pairs
  <1>4. Typed(0)
    <2>1. tm.tran[Out(0)] = Const(0) /\ Const(0) \in Pairs /\ 0 \in Drivers
      BY ConstFacts DEF Settled, Drivers
    <2>2. \A p \in On(0) : tm.tran[p] = Sum(WireTran(tm, 0, Const(0)), tm.tofs[p])
      BY <2>1 DEF SlewHolds
    <2>3. On(0) \subseteq Net(0)
      BY DEF Net
    <2> QED BY <1>3, <2>1, <2>2, <2>3 DEF Net
  <1>5. ASSUME NEW c \in Cells, c \notin flops => \A p \in In(c) : tm.tran[p] \in Pairs
        PROVE  Typed(c)
    <2> DEFINE own == LookupST(tm, c)
    <2>1. own \in Pairs
      BY <1>2, <1>5, LookupTyped
    <2>2. c \in Drivers /\ c # 0
      BY <1>2, PinFacts DEF Drivers
    <2>3. /\ tm.tran[Out(c)] = Sum(own, tm.tofs[Out(c)])
          /\ \A p \in On(c) : tm.tran[p] = Sum(WireTran(tm, c, own), tm.tofs[p])
      BY <2>2 DEF SlewHolds
    <2> HIDE DEF own
    <2>4. \A p \in Net(c) : p = Out(c) \/ p \in On(c)
      BY DEF Net
    <2> QED BY <1>3, <2>1, <2>2, <2>3, <2>4
  <1>6. Bad = {}
    <2> SUFFICES ASSUME Bad # {} PROVE FALSE
      OBVIOUS
    <2> HIDE DEF Typed
    <2>1. PICK k \in Bad : \A m \in Bad : k <= m
      <3>1. Bad \in SUBSET Nat
        BY <1>1
      <3> HIDE DEF Bad
      <3> QED BY <3>1, Least
    <2>2. k \in 1 .. n /\ ~Typed(topolist[k])
      OBVIOUS
    <2> DEFINE c == topolist[k]
    <2>3. c \in Cells
      BY <1>1, <2>2
    <2>4. ASSUME c \notin flops, NEW p \in In(c) PROVE tm.tran[p] \in Pairs
      <3> DEFINE d == p[1]
      <3>1. d \in Fi(c) /\ d \in Drivers /\ p \in Net(d)
        BY <1>2, <2>3, <2>4, NetFacts
      <3>2. CASE d = 0
        BY <1>4, <3>1, <3>2 DEF Typed
      <3>3. CASE d # 0
        <4>1. d \in Cells /\ wires[d][c] # 0
          BY <1>2, <2>3, <3>1, <3>3, PinFacts DEF Drivers
        <4>2. Before(topolist, d, c)
          BY <2>3, <2>4, <4>1 DEF InOrder
        <4>3. PICK m \in 1 .. n : topolist[m] = d
          BY <1>1, <4>1
        <4>4. m < k
          BY <2>2, <4>2, <4>3 DEF Before, n
        <4>5. m \notin Bad
          <5> HIDE DEF Bad
          <5>1. ~(k <= m)
            BY <2>2, <4>4
          <5> QED BY <2>1, <5>1
        <4>6. Typed(d)
          BY <4>3, <4>5
        <4> QED BY <3>1, <4>6 DEF Typed
      <3> QED BY <3>2, <3>3
    <2>5. Typed(c)
      BY <1>5, <2>3, <2>4
    <2> QED BY <2>2, <2>5
  <1>7. \A d \in Drivers : Typed(d)
    BY <1>1, <1>4, <1>6 DEF Drivers
  <1> QED BY <1>2, <1>7, NetFacts

-----------------------------------------------------------------------------
(* All equations at once.                                                  *)

LEMMA FullNumbered ==
  ASSUME TablesTyped, InOrder, NEW tm, Ready(tm), NoBias(tm)
  PROVE  Numbered(Arriving(tm))
  <1> DEFINE new == CallTimer(tm)
             s == Slewing(tm)
             a == Arriving(tm)
  <1>1. /\ Stored(s) /\ SameRows(s, tm) /\ SameRows(new, tm) /\ s.tot = tm.tot /\ new.tot = tm.tot
        /\ s.tran = new.tran /\ a.dly = DelayAlong(s) /\ a.wire = new.wire
    BY FullParts
  <1>2. Settled(new) /\ new.tofs = tm.tofs
    BY FullSettles
  <1>3. \A d \in Drivers : SlewHolds(new, d)
    BY SlewsHold
  <1> HIDE DEF new, s, a
  <1>4. NoBias(new)
    BY <1>2 DEF NoBias
  <1>5. \A p \in AllPins : new.tran[p] \in Pairs
    BY <1>2, <1>3, <1>4, SlewsTyped
  <1>6. Netlist
    BY DEF InOrder
  <1>7. \A d \in Drivers : new.wire[d] \in Int /\ new.tot[d] \in Nat
    <2>1. new.row \in [Cells -> 0 .. MaxRow]
          /\ \A d \in Drivers : new.tot[d] = Load(new.row, d) /\ new.wire[d] = WireTab(new.tot[d])
      BY <1>2 DEF Settled, LoadHolds
    <2> QED BY <1>6, <2>1, LoadIsNat DEF TablesTyped
  <1>8. ASSUME NEW c \in Cells, NEW p \in In(c), NEW e \in Edges
        PROVE  a.dly[p][e] \in Int
    <2>1. p[2] = c /\ p \in AllPins
      BY <1>6, NetFacts
    <2>2. a.dly[p] = ArcDelay(s, p)
      BY <1>1, DelaysAlong
    <2>3. /\ new.row[c] \in 0 .. MaxRow /\ s.row = new.row /\ s.tot[c] \in Nat
          /\ new.tran[p] \in Pairs
      BY <1>1, <1>2, <1>5, <1>7, <2>1 DEF Settled, SameRows, Drivers
    <2>4. \A i \in {"r", "f"} : s.tran[p][i] \in Int
      BY <1>1, <2>3 DEF Pairs
    <2>5. Src(c, e) \in {"r", "f"} /\ e \in {"r", "f"}
      BY DEF Src, Other, Edges
    <2>6. ArcDelay(s, p)[e] = IF IsFF(c) THEN SetupTab(e, s.tran[p][e])
                              ELSE DelayTab(s.row[c], e, s.tran[p][Src(c, e)], s.tot[c])
      <3>1. CASE e = "r"
        BY <2>1, <3>1 DEF ArcDelay, OnEdges
      <3>2. CASE e = "f"
        BY <2>1, <3>2 DEF ArcDelay, OnEdges
      <3> QED BY <3>1, <3>2 DEF Edges
    <2> QED BY <2>2, <2>3, <2>4, <2>5, <2>6 DEF TablesTyped
  <1>9. Numbered(a)
    BY <1>1, <1>7, <1>8 DEF Numbered
  <1> QED BY <1>9 DEF a

LEMMA RequiredSwept ==
  ASSUME InOrder, NEW tm, Stored(tm), Numbered(tm)
  PROVE  BackTo(tm, RequiredAlong(tm), Len(rtopolist))
  <1> DEFINE n == Len(rtopolist)
             Along(f) == f = [k \in 0 .. Len(rtopolist) |->
                                IF k = 0 THEN AtPorts(tm) ELSE RequiredStep(tm, f[k - 1], rtopolist[k])]
             f == CHOOSE g : Along(g)
  <1>1. RequiredAlong(tm) = f[n]
    BY DEF RequiredAlong
  <1>2. \A g : Along(g) <=> IsAlong(g, "rat", tm, AtPorts(tm), rtopolist, n)
    BY DEF IsAlong, Advance
  <1>3. n \in Nat /\ Netlist
    BY ListsFacts DEF InOrder
  <1>4. \E g : IsAlong(g, "rat", tm, AtPorts(tm), rtopolist, n)
    BY <1>3, AlongExists
  <1> HIDE DEF Along
  <1>5. Along(f)
    BY <1>2, <1>4
  <1> HIDE DEF f
  <1>6. /\ f[0] = AtPorts(tm)
        /\ \A k \in 1 .. n : k - 1 \in 0 .. n /\ f[k] = RequiredStep(tm, f[k - 1], rtopolist[k])
    <2>1. f = [k \in 0 .. n |-> IF k = 0 THEN AtPorts(tm) ELSE RequiredStep(tm, f[k - 1], rtopolist[k])]
      BY <1>5 DEF Along
    <2>2. \A k \in 1 .. n : k \in 0 .. n /\ k # 0 /\ k - 1 \in 0 .. n
      BY <1>3
    <2>3. 0 \in 0 .. n
      BY <1>3
    <2> HIDE DEF n
    <2> QED BY <2>1, <2>2, <2>3
  <1> DEFINE Bad == {k \in 0 .. n : ~BackTo(tm, f[k], k)}
  <1>7. Bad = {}
    <2> SUFFICES ASSUME Bad # {} PROVE FALSE
      OBVIOUS
    <2>1. PICK k \in Bad : \A m \in Bad : k <= m
      <3>1. Bad \in SUBSET Nat
        BY <1>3
      <3> HIDE DEF Bad
      <3> QED BY <3>1, Least
    <2>2. k \in 0 .. n /\ ~BackTo(tm, f[k], k)
      OBVIOUS
    <2>3. BackTo(tm, f[0], 0)
      BY <1>3, <1>6, SweptFirst
    <2>4. k \in 1 .. n /\ k - 1 \in 0 .. n
      BY <1>3, <2>2, <2>3
    <2>5. k - 1 \notin Bad
      <3> HIDE DEF Bad
      <3> QED BY <1>3, <2>1, <2>4
    <2>6. BackTo(tm, f[k - 1], k - 1)
      BY <2>4, <2>5
    <2>7. BackTo(tm, RequiredStep(tm, f[k - 1], rtopolist[k]), k)
      BY <2>4, <2>6, SweptStep
    <2> QED BY <1>6, <2>2, <2>4, <2>7
  <1> QED BY <1>1, <1>3, <1>7

RequiredExact(tm) ==
  \A p \in AllPins : IF p[2] \in Cells THEN tm.rat[p] = Lesser(Const(Far), Required(tm, p))
                                       ELSE RequiredHolds(tm, p)

LEMMA RequiredHold ==
  ASSUME TablesTyped, InOrder, NEW tm, Ready(tm), NoBias(tm)
  PROVE  RequiredExact(CallTimer(tm))
  <1> DEFINE new == CallTimer(tm)
             a == Arriving(tm)
             n == Len(rtopolist)
  <1>1. /\ Stored(a) /\ a.dly = new.dly /\ a.wire = new.wire /\ new.rat = RequiredAlong(a)
    BY FullParts
  <1>2. Numbered(a)
    BY FullNumbered
  <1> HIDE DEF new, a
  <1>3. BackTo(a, new.rat, n)
    BY <1>1, <1>2, RequiredSwept
  <1> DEFINE x == new.rat
  <1>4. /\ \A p \in AllPins : x[p] \in Pairs /\ (p[2] = PO => x[p] = Const(Period))
        /\ \A j \in 1 .. n : \A p \in In(rtopolist[j]) : x[p] = Needs(a, x, p)
        /\ \A d \in Drivers : LeastOf(a, x, d, {p \in On(d) : Met(p, n)})
    BY <1>3 DEF BackTo
  <1>5. Netlist /\ \A c \in Cells : \E j \in 1 .. n : rtopolist[j] = c
    BY ListsFacts DEF InOrder
  <1> HIDE DEF n
  <1>6. \A p : Required([a EXCEPT !.rat = x], p) = Required(new, p)
    <2>1. [a EXCEPT !.rat = x].rat = new.rat /\ [a EXCEPT !.rat = x].dly = new.dly
      BY <1>1 DEF Stored
    <2> QED BY <2>1 DEF Required, OnEdges
  <1>7. ASSUME NEW p \in AllPins, p[2] \in Cells
        PROVE  new.rat[p] = Lesser(Const(Far), Required(new, p))
    <2>1. p[1] \in Drivers /\ p \in Net(p[1])
      BY <1>5, NetFacts
    <2>2. p \in On(p[1])
      BY <1>5, <1>7, <2>1, PinFacts DEF Net, Out
    <2>3. p \in In(p[2])
      <3>1. p[2] \in Fo(p[1]) /\ p = <<p[1], p[2]>>
        BY <2>2 DEF On
      <3>2. p[1] \in Fi(p[2])
        BY <1>5, <1>7, <2>1, <3>1, PinFacts
      <3> QED BY <3>1, <3>2 DEF In
    <2> QED BY <1>4, <1>5, <1>6, <1>7, <2>3 DEF Needs
  <1>8. ASSUME NEW p \in AllPins, p[2] \notin Cells PROVE RequiredHolds(new, p)
    <2>1. CASE p[2] # 0
      <3>1. p[1] \in Drivers /\ p \in Net(p[1])
        BY <1>5, NetFacts
      <3>2. p[2] = PO
        BY <1>5, <1>8, <2>1, <3>1, PinFacts DEF Net, On, Out
      <3> QED BY <1>4, <2>1, <3>2 DEF RequiredHolds
    <2>2. CASE p[2] = 0
      <3> DEFINE d == p[1]
      <3>1. d \in Drivers /\ p \in Net(d)
        BY <1>5, NetFacts
      <3>2. p = Out(d) /\ On(d) \subseteq AllPins
        BY <1>5, <2>2, <3>1, PinFacts, NetFacts DEF Net, On
      <3>3. \A q \in On(d) : Met(q, n)
        <4>1. \A q \in On(d) : q[2] \in Cells \cup {PO}
          BY <1>5, <3>1, PinFacts DEF On
        <4> QED BY <1>5, <4>1 DEF Met
      <3>4. LeastOf(a, x, d, On(d))
        <4>1. {q \in On(d) : Met(q, n)} = On(d)
          BY <3>3
        <4> QED BY <1>4, <3>1, <4>1
      <3>5. ASSUME NEW e \in Edges
            PROVE  Min({Far} \cup {x[q][e] - new.wire[d] : q \in On(d)}) = x[p][e]
        <4> DEFINE S == {Far} \cup {x[q][e] - new.wire[d] : q \in On(d)}
                   v == x[p][e]
        <4>1. /\ v <= Far /\ (\A q \in On(d) : v <= x[q][e] - new.wire[d])
              /\ v = Far \/ \E q \in On(d) : v = x[q][e] - new.wire[d]
          BY <1>1, <3>2, <3>4 DEF LeastOf
        <4>2. /\ Far \in Int /\ new.wire[d] \in Int
              /\ \A q \in On(d) : x[q][e] \in Int
          BY <1>1, <1>2, <1>4, <3>1, <3>2, TimerAssumption DEF Numbered, Pairs, Edges
        <4> HIDE DEF v, d, x
        <4>3. S \in SUBSET Int /\ v \in S /\ \A y \in S : v <= y
          BY <4>1, <4>2
        <4> HIDE DEF S
        <4>4. Min(S) = v
          BY <4>3, LeastIsMin
        <4> QED BY <4>4 DEF S, v
      <3>6. Earliest(new, d) = [r |-> x[p]["r"], f |-> x[p]["f"]]
        <4>1. "r" \in Edges /\ "f" \in Edges
          BY DEF Edges
        <4> QED BY <3>5, <4>1 DEF Earliest, OnEdges
      <3>7. x[p] = [r |-> x[p]["r"], f |-> x[p]["f"]]
        BY <1>4 DEF Pairs
      <3> QED BY <2>2, <3>6, <3>7 DEF RequiredHolds
    <2> QED BY <2>1, <2>2
  <1> QED BY <1>7, <1>8 DEF RequiredExact, new

-----------------------------------------------------------------------------
(* CorrelatePT leaves what every timing leaves.                            *)

\* The first step of the fit, and a fit of n steps.
Fitted(tm, gold) ==
  Fit(tm, gold, [tofs |-> [tm.tofs EXCEPT ![Out(0)] = Const(0)], tran |-> tm.tran],
      On(0), 0, tm.tran[Out(0)])

IsFit(f, tm, gold, n) ==
  f = [k \in 0 .. n |-> IF k = 0 THEN Fitted(tm, gold) ELSE FitStep(tm, gold, f[k - 1], topolist[k])]

LEMMA FitExists ==
  ASSUME NEW tm, NEW gold, NEW n \in Nat
  PROVE  \E f : IsFit(f, tm, gold, n)
  <1> DEFINE Bad == {m \in 0 .. n : ~ \E f : IsFit(f, tm, gold, m)}
  <1> SUFFICES ASSUME Bad # {} PROVE FALSE
    OBVIOUS
  <1>1. PICK m \in Bad : \A k \in Bad : m <= k
    <2>1. Bad \in SUBSET Nat
      OBVIOUS
    <2> HIDE DEF Bad
    <2> QED BY <2>1, Least
  <1>2. m # 0
    <2>1. IsFit([k \in 0 .. 0 |-> Fitted(tm, gold)], tm, gold, 0)
      BY DEF IsFit
    <2> QED BY <2>1
  <1>3. m \in 1 .. n /\ m - 1 \in 0 .. n /\ m - 1 \notin Bad
    <2>1. m \in 1 .. n
      BY <1>2
    <2> HIDE DEF Bad
    <2> QED BY <1>1, <2>1
  <1>4. PICK g : IsFit(g, tm, gold, m - 1)
    BY <1>3
  <1> DEFINE h == [k \in 0 .. m |-> IF k = 0 THEN Fitted(tm, gold)
                                    ELSE FitStep(tm, gold, g[k - 1], topolist[k])]
  <1>5. \A k \in 0 .. m - 1 : k \in 0 .. m /\ h[k] = g[k]
    <2>1. \A k \in 0 .. m - 1 : g[k] = IF k = 0 THEN Fitted(tm, gold)
                                       ELSE FitStep(tm, gold, g[k - 1], topolist[k])
      BY <1>4 DEF IsFit
    <2>2. \A k \in 0 .. m - 1 : k \in 0 .. m
      BY <1>3
    <2> QED BY <2>1, <2>2
  <1>6. \A k \in 0 .. m : k # 0 => k - 1 \in 0 .. m - 1
    BY <1>3
  <1>7. \A k \in 0 .. m : k # 0 => h[k - 1] = g[k - 1]
    BY <1>5, <1>6
  <1>8. IsFit(h, tm, gold, m)
    BY <1>7 DEF IsFit
  <1> QED BY <1>8

(* After k steps the pins of the nets dealt with have OpenSTA's slews, and *)
(* the input keeps its own.                                                *)
FitTo(tm, gold, x, k) ==
  /\ DOMAIN x.tofs = AllPins /\ AllPins \subseteq DOMAIN x.tran
  /\ x.tran[Out(0)] = tm.tran[Out(0)]
  /\ \A p \in On(0) : x.tran[p] = GoldenTran(gold, p)
  /\ \A j \in 1 .. k : \A p \in Net(topolist[j]) : x.tran[p] = GoldenTran(gold, p)

\* Offsets and slews of all pins.
OnPins(x) == DOMAIN x.tofs = AllPins /\ AllPins \subseteq DOMAIN x.tran

LEMMA FitFacts ==
  ASSUME NEW tm, NEW gold, NEW x, OnPins(x), NEW S \in SUBSET AllPins, NEW d, NEW own
  PROVE  LET y == Fit(tm, gold, x, S, d, own)
         IN /\ OnPins(y)
            /\ \A p \in AllPins : y.tran[p] = IF p \in S THEN GoldenTran(gold, p) ELSE x.tran[p]
  <1> DEFINE y == Fit(tm, gold, x, S, d, own)
  <1>1. /\ DOMAIN y.tofs = DOMAIN x.tofs \cup S
        /\ y.tran = [p \in DOMAIN x.tran \cup S |-> IF p \in S THEN GoldenTran(gold, p) ELSE x.tran[p]]
    BY DEF Fit, Put
  <1> HIDE DEF y
  <1> QED BY <1>1 DEF OnPins, y

LEMMA FitSweep ==
  ASSUME InOrder, NEW tm, NEW gold, DOMAIN tm.tofs = AllPins, AllPins \subseteq DOMAIN tm.tran
  PROVE  FitTo(tm, gold, FitAlong(tm, gold), Len(topolist))
  <1> DEFINE n == Len(topolist)
             f == CHOOSE g : IsFit(g, tm, gold, n)
  <1>1. FitAlong(tm, gold) = f[n]
    BY DEF FitAlong, IsFit, Fitted
  <1>2. /\ n \in Nat /\ \A i \in 1 .. n : topolist[i] \in Cells
        /\ \A i, j \in 1 .. n : topolist[i] = topolist[j] => i = j
    BY ListsFacts DEF InOrder
  <1>3. Netlist
    BY DEF InOrder
  <1>4. IsFit(f, tm, gold, n)
    BY <1>2, FitExists
  <1> HIDE DEF f
  <1>5. /\ f[0] = Fitted(tm, gold)
        /\ \A k \in 1 .. n : k - 1 \in 0 .. n /\ f[k] = FitStep(tm, gold, f[k - 1], topolist[k])
    <2>1. f = [k \in 0 .. n |-> IF k = 0 THEN Fitted(tm, gold) ELSE FitStep(tm, gold, f[k - 1], topolist[k])]
      BY <1>4 DEF IsFit
    <2>2. \A k \in 1 .. n : k \in 0 .. n /\ k # 0 /\ k - 1 \in 0 .. n
      BY <1>2
    <2>3. 0 \in 0 .. n
      BY <1>2
    <2> HIDE DEF n
    <2> QED BY <2>1, <2>2, <2>3
  <1>6. /\ \A d \in Drivers : Net(d) \subseteq AllPins /\ Out(d) \in Net(d) /\ On(d) \subseteq Net(d)
        /\ \A d, c \in Drivers : \A p \in Net(d) : p \in Net(c) => d = c
        /\ 0 \in Drivers /\ Cells \subseteq Drivers /\ 0 \notin Cells
        /\ Out(0) \notin On(0)
    <2>1. 0 \notin Cells /\ Out(0) \notin On(0)
      BY TopoAssumption DEF Out, On, Fo, PO, Cells
    <2> QED BY <1>3, <2>1, NetFacts DEF Drivers
  <1>7. FitTo(tm, gold, f[0], 0)
    <2> DEFINE x == [tofs |-> [tm.tofs EXCEPT ![Out(0)] = Const(0)], tran |-> tm.tran]
               own == tm.tran[Out(0)]
    <2>1. OnPins(x) /\ x.tran = tm.tran
      BY DEF OnPins
    <2>2. f[0] = Fit(tm, gold, x, On(0), 0, own)
      BY <1>5 DEF Fitted
    <2> HIDE DEF x, own
    <2>3. On(0) \in SUBSET AllPins /\ Out(0) \in AllPins
      BY <1>6
    <2>4. /\ OnPins(f[0])
          /\ \A p \in AllPins : f[0].tran[p] = IF p \in On(0) THEN GoldenTran(gold, p) ELSE x.tran[p]
      BY <2>1, <2>2, <2>3, FitFacts
    <2> QED BY <1>6, <2>1, <2>3, <2>4 DEF FitTo, OnPins
  <1>8. ASSUME NEW k \in 1 .. n, FitTo(tm, gold, f[k - 1], k - 1)
        PROVE  FitTo(tm, gold, f[k], k)
    <2> DEFINE c == topolist[k]
               x == f[k - 1]
               own == LookupST([tm EXCEPT !.tran = x.tran], c)
    <2>1. f[k] = Fit(tm, gold, x, Net(c), c, own)
      BY <1>5 DEF FitStep
    <2> HIDE DEF own
    <2>2. c \in Cells /\ c \in Drivers /\ Net(c) \in SUBSET AllPins
      BY <1>2, <1>6
    <2>3. OnPins(x)
      BY <1>8 DEF FitTo, OnPins
    <2> DEFINE y == f[k]
    <2>4. /\ OnPins(y)
          /\ \A p \in AllPins : y.tran[p] = IF p \in Net(c) THEN GoldenTran(gold, p) ELSE x.tran[p]
      <3> HIDE DEF x, c
      <3> QED BY <2>1, <2>2, <2>3, FitFacts
    <2>5. Out(0) \notin Net(c) /\ Out(0) \in AllPins /\ On(0) \subseteq AllPins
      BY <1>6, <2>2
    <2>6. \A j \in 1 .. k : j \in 1 .. n /\ Net(topolist[j]) \subseteq AllPins
                            /\ (j = k \/ j \in 1 .. k - 1)
      BY <1>2, <1>6
    <2> HIDE DEF y
    <2> QED BY <1>8, <2>4, <2>5, <2>6 DEF FitTo, OnPins, y
  <1> DEFINE Bad == {k \in 0 .. n : ~FitTo(tm, gold, f[k], k)}
  <1>9. Bad = {}
    <2> SUFFICES ASSUME Bad # {} PROVE FALSE
      OBVIOUS
    <2>1. PICK k \in Bad : \A m \in Bad : k <= m
      <3>1. Bad \in SUBSET Nat
        BY <1>2
      <3> HIDE DEF Bad
      <3> QED BY <3>1, Least
    <2>2. k \in 0 .. n /\ ~FitTo(tm, gold, f[k], k)
      OBVIOUS
    <2>3. k \in 1 .. n /\ k - 1 \in 0 .. n
      BY <1>2, <1>7, <2>2
    <2>4. k - 1 \notin Bad
      <3> HIDE DEF Bad
      <3> QED BY <1>2, <2>1, <2>3
    <2>5. FitTo(tm, gold, f[k - 1], k - 1)
      BY <2>3, <2>4
    <2> QED BY <1>8, <2>2, <2>3, <2>5
  <1> QED BY <1>1, <1>2, <1>9

LEMMA CorrelateParts ==
  ASSUME InOrder, NEW tm, Settled(tm)
  PROVE  LET new == CorrelatePT(tm)
         IN /\ Settled(new) /\ new.row = tm.row /\ new.tot = tm.tot /\ new.gb = tm.gb
            /\ \A c \in Cells : \A p \in Net(c) : new.tran[p] = GoldenTran(Golden(tm), p)
            /\ \A p \in On(0) : new.tran[p] = GoldenTran(Golden(tm), p)
  <1> DEFINE gold == Golden(tm)
             w == CalcWire(tm)
             fitted == FitAlong(w, gold)
             s == [w EXCEPT !.tofs = fitted.tofs, !.tran = fitted.tran]
             g == CalcDelay(s)
             a == CalcArrival(g)
             r == CalcRequired(a)
             new == CorrPT(r, gold)
  <1> HIDE DEF gold
  <1>1. /\ Stored(w) /\ SameRows(w, tm) /\ w.tot = tm.tot /\ w.tran = tm.tran
        /\ w.wire = [d \in Drivers |-> WireTab(Load(tm.row, d))]
    BY DEF Settled, CalcWire, Stored, SameRows
  <1> HIDE DEF w
  <1>2. FitTo(w, gold, fitted, Len(topolist))
    <2>1. DOMAIN w.tofs = AllPins /\ AllPins \subseteq DOMAIN w.tran
      BY <1>1 DEF Settled, SameRows
    <2> QED BY <2>1, FitSweep
  <1> HIDE DEF fitted
  <1>3. /\ Stored(s) /\ s.row = tm.row /\ s.tot = tm.tot /\ s.wire = w.wire /\ s.gb = tm.gb
        /\ s.tran = fitted.tran /\ s.tofs = fitted.tofs
    BY <1>1 DEF Stored, SameRows
  <1> HIDE DEF s
  <1>4. /\ Stored(g) /\ g.gb = s.gb /\ g.row = s.row /\ g.tot = s.tot /\ g.wire = s.wire /\ g.tran = s.tran /\ g.tofs = s.tofs
    BY <1>3 DEF CalcDelay, Stored
  <1> HIDE DEF g
  <1>5. /\ Stored(a) /\ a.gb = g.gb /\ a.row = g.row /\ a.tot = g.tot /\ a.wire = g.wire /\ a.tran = g.tran /\ a.tofs = g.tofs
    BY <1>4 DEF CalcArrival, Stored
  <1> HIDE DEF a
  <1>6. /\ Stored(r) /\ r.gb = a.gb /\ r.row = a.row /\ r.tot = a.tot /\ r.wire = a.wire /\ r.tran = a.tran /\ r.tofs = a.tofs
    BY <1>5 DEF CalcRequired, Stored
  <1> HIDE DEF r
  <1>7. /\ Stored(new) /\ new.row = r.row /\ new.tot = r.tot /\ new.wire = r.wire /\ new.tran = r.tran
        /\ new.tofs = r.tofs /\ new.gb = r.gb
    BY <1>6 DEF CorrPT, Stored
  <1>8. CorrelatePT(tm) = new
    BY DEF CorrelatePT, CalcTranCorr, gold, w, fitted, s, g, a, r
  <1> HIDE DEF new
  <1>9. /\ new.row = tm.row /\ new.tot = tm.tot /\ new.gb = tm.gb /\ new.tran = fitted.tran /\ new.tofs = fitted.tofs
        /\ new.wire = [d \in Drivers |-> WireTab(Load(tm.row, d))]
    BY <1>1, <1>3, <1>4, <1>5, <1>6, <1>7
  <1>10. \A d \in Drivers : LoadHolds(new, d)
    BY <1>9 DEF LoadHolds, Settled
  <1>11. Settled(new)
    BY <1>1, <1>2, <1>7, <1>9, <1>10 DEF Settled, FitTo
  <1>12. \A c \in Cells : \E j \in 1 .. Len(topolist) : topolist[j] = c
    BY ListsFacts DEF InOrder
  <1> QED BY <1>2, <1>8, <1>9, <1>11, <1>12 DEF FitTo, gold

-----------------------------------------------------------------------------
(* The theorem.                                                            *)

Exact(tm) ==
  /\ \A d \in Drivers : SlewHolds(tm, d) /\ ArrivalHolds(tm, d)
  /\ RequiredExact(tm)

-----------------------------------------------------------------------------
(* Without offsets a netlist has one timing: two that satisfy all equations *)
(* for the same rows agree on slews and arrivals, cell by cell along        *)
(* topolist, and then on required times along rtopolist.                    *)

LEMMA AllForward ==
  ASSUME InOrder, NEW S,
         \A c \in Cells : (c \notin flops => \A d \in Cells : wires[d][c] # 0 => d \in S) => c \in S
  PROVE  Cells \subseteq S
  <1> DEFINE n == Len(topolist)
             Bad == {k \in 1 .. n : topolist[k] \notin S}
  <1>1. /\ n \in Nat /\ \A i \in 1 .. n : topolist[i] \in Cells
        /\ \A c \in Cells : \E i \in 1 .. n : topolist[i] = c
    BY ListsFacts DEF InOrder
  <1>2. Bad = {}
    <2> SUFFICES ASSUME Bad # {} PROVE FALSE
      OBVIOUS
    <2>1. PICK k \in Bad : \A m \in Bad : k <= m
      <3>1. Bad \in SUBSET Nat
        BY <1>1
      <3> HIDE DEF Bad
      <3> QED BY <3>1, Least
    <2> DEFINE c == topolist[k]
    <2>2. k \in 1 .. n /\ c \in Cells /\ c \notin S
      BY <1>1
    <2>3. PICK d \in Cells : c \notin flops /\ wires[d][c] # 0 /\ d \notin S
      BY <2>2
    <2>4. PICK m \in 1 .. n : topolist[m] = d
      BY <1>1
    <2>5. m < k
      BY <2>2, <2>3, <2>4 DEF InOrder, Before
    <2>6. m \in Bad
      BY <2>3, <2>4
    <2> HIDE DEF Bad
    <2>7. k <= m
      BY <2>1, <2>6
    <2> QED BY <1>1, <2>2, <2>5, <2>7
  <1> QED BY <1>1, <1>2

LEMMA AllBackward ==
  ASSUME InOrder, NEW S,
         \A c \in Cells : (c \notin flops => \A b \in Cells : wires[c][b] # 0 => b \in S) => c \in S
  PROVE  Cells \subseteq S
  <1> DEFINE n == Len(rtopolist)
             Bad == {k \in 1 .. n : rtopolist[k] \notin S}
  <1>1. /\ n \in Nat /\ \A i \in 1 .. n : rtopolist[i] \in Cells
        /\ \A c \in Cells : \E i \in 1 .. n : rtopolist[i] = c
    BY ListsFacts DEF InOrder
  <1>2. Bad = {}
    <2> SUFFICES ASSUME Bad # {} PROVE FALSE
      OBVIOUS
    <2>1. PICK k \in Bad : \A m \in Bad : k <= m
      <3>1. Bad \in SUBSET Nat
        BY <1>1
      <3> HIDE DEF Bad
      <3> QED BY <3>1, Least
    <2> DEFINE c == rtopolist[k]
    <2>2. k \in 1 .. n /\ c \in Cells /\ c \notin S
      BY <1>1
    <2>3. PICK b \in Cells : c \notin flops /\ wires[c][b] # 0 /\ b \notin S
      BY <2>2
    <2>4. PICK m \in 1 .. n : rtopolist[m] = b
      BY <1>1
    <2>5. m < k
      BY <2>2, <2>3, <2>4 DEF InOrder, Before
    <2>6. m \in Bad
      BY <2>3, <2>4
    <2> HIDE DEF Bad
    <2>7. k <= m
      BY <2>1, <2>6
    <2> QED BY <1>1, <2>2, <2>5, <2>7
  <1> QED BY <1>1, <1>2

\* The stored delays are those of the stored slews.
DelaysHold(tm) == \A c \in Cells : \A p \in In(c) : tm.dly[p] = ArcDelay(tm, p)

\* A timing without offsets, all of its equations satisfied.
Bare(tm) ==
  /\ Settled(tm) /\ NoBias(tm) /\ Exact(tm) /\ DelaysHold(tm)
  /\ tm.aat[Out(0)] = Const(0)

LEMMA SameSlews ==
  ASSUME InOrder, NEW x, NEW y, Bare(x), Bare(y), x.row = y.row
  PROVE  /\ \A d \in Drivers : x.tot[d] = y.tot[d] /\ x.wire[d] = y.wire[d]
         /\ \A p \in AllPins : x.tran[p] = y.tran[p]
  <1>1. \A d \in Drivers : x.tot[d] = y.tot[d] /\ x.wire[d] = y.wire[d]
    BY DEF Bare, Settled, LoadHolds
  <1>2. Netlist
    BY DEF InOrder
  <1>3. /\ \A d \in Drivers : Net(d) \subseteq AllPins /\ On(d) \subseteq Net(d)
        /\ \A d \in Drivers : \A p \in Net(d) : p = Out(d) \/ p \in On(d)
        /\ \A d \in Drivers : \A p \in Net(d) : x.tofs[p] = Const(0) /\ y.tofs[p] = Const(0)
    BY <1>2, NetFacts DEF Net, Bare, NoBias
  <1>4. \A d \in Drivers : \A a : WireTran(x, d, a) = WireTran(y, d, a)
    BY <1>1 DEF WireTran, OnEdges
  <1> DEFINE S == {c \in Cells : \A p \in Net(c) : x.tran[p] = y.tran[p]}
  <1>5. \A p \in Net(0) : x.tran[p] = y.tran[p]
    <2>1. 0 \in Drivers /\ x.tran[Out(0)] = Const(0) /\ y.tran[Out(0)] = Const(0)
      BY DEF Drivers, Bare, Settled
    <2>2. /\ \A p \in On(0) : x.tran[p] = Sum(WireTran(x, 0, Const(0)), x.tofs[p])
          /\ \A p \in On(0) : y.tran[p] = Sum(WireTran(y, 0, Const(0)), y.tofs[p])
      BY <2>1 DEF Bare, Exact, SlewHolds
    <2>3. \A p \in On(0) : x.tofs[p] = y.tofs[p]
      BY <1>3, <2>1
    <2> QED BY <1>3, <1>4, <2>1, <2>2, <2>3
  <1>6. ASSUME NEW c \in Cells, c \notin flops => \A d \in Cells : wires[d][c] # 0 => d \in S
        PROVE  c \in S
    <2>1. c \in Drivers /\ c # 0
      BY <1>2, PinFacts DEF Drivers
    <2>2. ASSUME c \notin flops, NEW p \in In(c) PROVE x.tran[p] = y.tran[p]
      <3>1. p[1] \in Fi(c) /\ p \in Net(p[1]) /\ p[1] \in Drivers
        BY <1>2, NetFacts
      <3>2. CASE p[1] = 0
        BY <1>5, <3>1, <3>2
      <3>3. CASE p[1] # 0
        <4>1. p[1] \in Cells /\ wires[p[1]][c] # 0
          BY <1>2, <3>1, <3>3, PinFacts DEF Drivers
        <4>2. p[1] \in S
          BY <1>6, <2>2, <4>1
        <4> QED BY <3>1, <4>2
      <3> QED BY <3>2, <3>3
    <2>3. LookupST(x, c) = LookupST(y, c)
      <3>1. ASSUME c \notin flops, NEW e
            PROVE  {TranTab(x.row[c], e, x.tran[p][Src(c, e)], x.tot[c]) : p \in In(c)}
                   = {TranTab(y.row[c], e, y.tran[p][Src(c, e)], y.tot[c]) : p \in In(c)}
        BY <1>1, <2>1, <2>2, <3>1
      <3> QED BY <1>1, <2>1, <3>1 DEF LookupST, OnEdges, IsFF
    <2>4. ASSUME NEW p \in Net(c) PROVE x.tran[p] = y.tran[p]
      <3> DEFINE a == LookupST(x, c)
      <3>1. /\ x.tran[Out(c)] = Sum(a, x.tofs[Out(c)])
            /\ y.tran[Out(c)] = Sum(a, y.tofs[Out(c)])
            /\ \A q \in On(c) : x.tran[q] = Sum(WireTran(x, c, a), x.tofs[q])
            /\ \A q \in On(c) : y.tran[q] = Sum(WireTran(y, c, a), y.tofs[q])
        BY <2>1, <2>3 DEF Bare, Exact, SlewHolds
      <3> HIDE DEF a
      <3>2. x.tofs[p] = y.tofs[p] /\ (p = Out(c) \/ p \in On(c))
        BY <1>3, <2>1
      <3>3. WireTran(x, c, a) = WireTran(y, c, a)
        BY <1>4, <2>1
      <3> QED BY <3>1, <3>2, <3>3
    <2> QED BY <2>4
  <1>7. Cells \subseteq S
    <2> HIDE DEF S
    <2> QED BY <1>6, AllForward
  <1>8. ASSUME NEW p \in AllPins PROVE x.tran[p] = y.tran[p]
    <2>1. p[1] \in Drivers /\ p \in Net(p[1])
      BY <1>2, NetFacts
    <2> QED BY <1>5, <1>7, <2>1 DEF Drivers
  <1> QED BY <1>1, <1>8

LEMMA SameArrivals ==
  ASSUME InOrder, NEW x, NEW y, Bare(x), Bare(y), x.row = y.row
  PROVE  \A p \in AllPins : x.aat[p] = y.aat[p]
  <1>1. /\ \A d \in Drivers : x.tot[d] = y.tot[d] /\ x.wire[d] = y.wire[d]
        /\ \A p \in AllPins : x.tran[p] = y.tran[p]
    BY SameSlews
  <1>2. Netlist
    BY DEF InOrder
  <1>3. /\ \A d \in Drivers : Net(d) \subseteq AllPins
        /\ \A d \in Drivers : \A p \in Net(d) : p = Out(d) \/ p \in On(d)
    BY <1>2, NetFacts DEF Net
  <1>4. \A c \in Cells : \A p \in In(c) : ArcDelay(x, p) = ArcDelay(y, p)
    <2> TAKE c \in Cells
    <2> TAKE p \in In(c)
    <2>1. p[2] = c /\ c \in Drivers /\ p \in AllPins
      BY <1>2, NetFacts DEF Drivers
    <2> QED BY <1>1, <2>1 DEF ArcDelay, OnEdges
  <1>5. \A c \in Cells : ClockToQ(x, c) = ClockToQ(y, c)
    BY <1>1 DEF ClockToQ, OnEdges, Drivers
  <1> DEFINE S == {c \in Cells : \A p \in Net(c) : x.aat[p] = y.aat[p]}
  <1>6. \A p \in Net(0) : x.aat[p] = y.aat[p]
    <2>1. 0 \in Drivers
      BY DEF Drivers
    <2>2. x.aat[Out(0)] = y.aat[Out(0)]
      BY DEF Bare
    <2>3. /\ \A p \in On(0) : x.aat[p] = Sum(x.aat[Out(0)], Const(x.wire[0]))
          /\ \A p \in On(0) : y.aat[p] = Sum(y.aat[Out(0)], Const(y.wire[0]))
      BY <2>1 DEF Bare, Exact, ArrivalHolds
    <2> QED BY <1>1, <1>3, <2>1, <2>2, <2>3
  <1>7. ASSUME NEW c \in Cells, c \notin flops => \A d \in Cells : wires[d][c] # 0 => d \in S
        PROVE  c \in S
    <2>1. c \in Drivers /\ c # 0
      BY <1>2, PinFacts DEF Drivers
    <2>2. ASSUME c \notin flops, NEW p \in In(c) PROVE x.aat[p] = y.aat[p]
      <3>1. p[1] \in Fi(c) /\ p \in Net(p[1]) /\ p[1] \in Drivers
        BY <1>2, NetFacts
      <3>2. CASE p[1] = 0
        BY <1>6, <3>1, <3>2
      <3>3. CASE p[1] # 0
        <4>1. p[1] \in Cells /\ wires[p[1]][c] # 0
          BY <1>2, <3>1, <3>3, PinFacts DEF Drivers
        <4>2. p[1] \in S
          BY <1>7, <2>2, <4>1
        <4> QED BY <3>1, <4>2
      <3> QED BY <3>2, <3>3
    <2> DEFINE own(z) == IF IsFF(c) THEN ClockToQ(z, c) ELSE Arrival([z EXCEPT !.dly = LookupDT(z, c)], c)
    <2>3. own(x) = own(y)
      <3>1. CASE IsFF(c)
        BY <1>5, <3>1
      <3>2. CASE ~IsFF(c)
        <4> DEFINE a == [x EXCEPT !.dly = LookupDT(x, c)]
                   b == [y EXCEPT !.dly = LookupDT(y, c)]
        <4>1. /\ a.dly = LookupDT(x, c) /\ a.aat = x.aat
              /\ b.dly = LookupDT(y, c) /\ b.aat = y.aat
          BY DEF Bare, Settled, Stored
        <4> HIDE DEF a, b
        <4>2. \A p \in In(c) : a.dly[p] = b.dly[p] /\ a.aat[p] = b.aat[p]
          BY <1>4, <2>2, <3>2, <4>1 DEF LookupDT, Put, IsFF
        <4>3. \A e : {a.dly[p][e] + a.aat[p][Src(c, e)] : p \in In(c)}
                   = {b.dly[p][e] + b.aat[p][Src(c, e)] : p \in In(c)}
          BY <4>2
        <4>4. Arrival(a, c) = Arrival(b, c)
          BY <3>2, <4>3 DEF Arrival, OnEdges
        <4> QED BY <3>2, <4>4 DEF a, b
      <3> QED BY <3>1, <3>2
    <2>4. ASSUME NEW p \in Net(c) PROVE x.aat[p] = y.aat[p]
      <3>1. /\ x.aat[Out(c)] = own(x) /\ y.aat[Out(c)] = own(y)
            /\ \A q \in On(c) : x.aat[q] = Sum(x.aat[Out(c)], Const(x.wire[c]))
            /\ \A q \in On(c) : y.aat[q] = Sum(y.aat[Out(c)], Const(y.wire[c]))
        BY <2>1 DEF Bare, Exact, ArrivalHolds
      <3> HIDE DEF own
      <3>2. p = Out(c) \/ p \in On(c)
        BY <1>3, <2>1
      <3>3. x.wire[c] = y.wire[c]
        BY <1>1, <2>1
      <3> QED BY <2>3, <3>1, <3>2, <3>3
    <2> QED BY <2>4
  <1>8. Cells \subseteq S
    <2> HIDE DEF S
    <2> QED BY <1>7, AllForward
  <1>9. ASSUME NEW p \in AllPins PROVE x.aat[p] = y.aat[p]
    <2>1. p[1] \in Drivers /\ p \in Net(p[1])
      BY <1>2, NetFacts
    <2> QED BY <1>6, <1>8, <2>1 DEF Drivers
  <1> QED BY <1>9

LEMMA SameRequired ==
  ASSUME InOrder, NEW x, NEW y, Bare(x), Bare(y), x.row = y.row
  PROVE  \A p \in AllPins : x.rat[p] = y.rat[p]
  <1>1. /\ \A d \in Drivers : x.tot[d] = y.tot[d] /\ x.wire[d] = y.wire[d]
        /\ \A p \in AllPins : x.tran[p] = y.tran[p]
    BY SameSlews
  <1>2. Netlist
    BY DEF InOrder
  <1>3. \A c \in Cells : \A p \in In(c) : x.dly[p] = y.dly[p]
    <2> TAKE c \in Cells
    <2> TAKE p \in In(c)
    <2>1. p[2] = c /\ c \in Drivers /\ p \in AllPins
      BY <1>2, NetFacts DEF Drivers
    <2>2. ArcDelay(x, p) = ArcDelay(y, p)
      BY <1>1, <2>1 DEF ArcDelay, OnEdges
    <2> QED BY <2>2 DEF Bare, DelaysHold
  <1>4. /\ \A d \in Drivers : On(d) \subseteq AllPins /\ Out(d) \in AllPins
        /\ \A d \in Drivers : \A p \in On(d) : p[1] = d /\ p[2] \in Cells \cup {PO} /\ p = <<d, p[2]>>
        /\ \A c \in Cells : \A p \in In(c) : p[2] = c /\ p \in AllPins
        /\ \A d \in Drivers : Out(d)[1] = d /\ Out(d)[2] = 0
        /\ 0 \notin Cells /\ PO \notin Cells /\ PO # 0
    BY <1>2, NetFacts, PinFacts DEF On, Out
  <1>5. \A d \in Drivers, c \in Cells : <<d, c>> \in On(d) => <<d, c>> \in In(c) /\ (d \in Cells => wires[d][c] # 0)
    <2> TAKE d \in Drivers, c \in Cells
    <2> HAVE <<d, c>> \in On(d)
    <2>1. c \in Fo(d)
      BY DEF On
    <2> QED BY <1>2, <2>1, PinFacts DEF In
  <1> DEFINE S == {c \in Cells : \A p \in In(c) : x.rat[p] = y.rat[p]}
  <1>6. ASSUME NEW d \in Drivers, \A c \in Cells : <<d, c>> \in On(d) => c \in S
        PROVE  x.rat[Out(d)] = y.rat[Out(d)]
    <2>1. ASSUME NEW p \in On(d) PROVE x.rat[p] = y.rat[p]
      <3>1. p \in AllPins /\ p = <<d, p[2]>> /\ (p[2] = PO \/ p[2] \in Cells)
        BY <1>4
      <3>2. CASE p[2] = PO
        BY <1>4, <3>1, <3>2 DEF Bare, Exact, RequiredExact, RequiredHolds
      <3>3. CASE p[2] \in Cells
        <4>1. p[2] \in S
          BY <1>6, <3>1, <3>3
        <4> QED BY <1>5, <3>1, <3>3, <4>1
      <3> QED BY <3>1, <3>2, <3>3
    <2>2. x.wire[d] = y.wire[d]
      BY <1>1
    <2>3. Earliest(x, d) = Earliest(y, d)
      <3>1. \A e : {x.rat[p][e] - x.wire[d] : p \in On(d)} = {y.rat[p][e] - y.wire[d] : p \in On(d)}
        BY <2>1, <2>2
      <3> QED BY <3>1 DEF Earliest, OnEdges
    <2>4. x.rat[Out(d)] = Earliest(x, d) /\ y.rat[Out(d)] = Earliest(y, d)
      BY <1>4 DEF Bare, Exact, RequiredExact, RequiredHolds
    <2> QED BY <2>3, <2>4
  <1>7. ASSUME NEW c \in Cells, c \notin flops => \A b \in Cells : wires[c][b] # 0 => b \in S
        PROVE  c \in S
    <2>1. c \in Drivers
      BY DEF Drivers
    <2>2. c \notin flops => x.rat[Out(c)] = y.rat[Out(c)]
      <3> HIDE DEF S
      <3> QED BY <1>5, <1>6, <1>7, <2>1
    <2>3. ASSUME NEW p \in In(c) PROVE x.rat[p] = y.rat[p]
      <3>1. p[2] = c /\ p \in AllPins
        BY <1>4
      <3>2. Required(x, p) = Required(y, p)
        BY <1>3, <2>2, <3>1 DEF Required, OnEdges, IsFF
      <3> QED BY <3>1, <3>2 DEF Bare, Exact, RequiredExact
    <2> QED BY <2>3
  <1>8. Cells \subseteq S
    <2> HIDE DEF S
    <2> QED BY <1>7, AllBackward
  <1>9. ASSUME NEW p \in AllPins PROVE x.rat[p] = y.rat[p]
    <2>1. p[1] \in Drivers /\ p \in Net(p[1])
      BY <1>2, NetFacts
    <2>2. CASE p = Out(p[1])
      <3> HIDE DEF S
      <3> QED BY <1>6, <1>8, <2>1, <2>2
    <2>3. CASE p \in On(p[1])
      <3>1. p = <<p[1], p[2]>> /\ (p[2] = PO \/ p[2] \in Cells)
        BY <1>4, <2>1, <2>3
      <3>2. CASE p[2] = PO
        BY <1>4, <3>2 DEF Bare, Exact, RequiredExact, RequiredHolds
      <3>3. CASE p[2] \in Cells
        BY <1>5, <1>8, <2>1, <2>3, <3>1, <3>3
      <3> QED BY <3>1, <3>2, <3>3
    <2> QED BY <2>1, <2>2, <2>3 DEF Net
  <1> QED BY <1>9

-----------------------------------------------------------------------------
(* A correlation: what it fits to is typed, and so is what it computes.     *)

BiasTyped ==
  \A p \in Drivers \X (Drivers \cup {PO}), e \in Edges : Bias(p, e) \in Int /\ SlackBias(p, e) \in Int

LEMMA ArcsTyped ==
  ASSUME TablesTyped, Netlist, NEW tm, tm.row \in [Cells -> 0 .. MaxRow],
         \A d \in Drivers : tm.tot[d] = Load(tm.row, d),
         \A p \in AllPins : tm.tran[p] \in Pairs
  PROVE  \A c \in Cells : /\ ClockToQ(tm, c) \in Pairs
                          /\ \A p \in In(c) : ArcDelay(tm, p) \in Pairs
  <1> TAKE c \in Cells
  <1>1. tm.row[c] \in 0 .. MaxRow /\ tm.tot[c] \in Nat
    BY LoadIsNat DEF Drivers
  <1>2. \A e \in Edges, a \in Int : DelayTab(tm.row[c], e, a, tm.tot[c]) \in Int /\ SetupTab(e, a) \in Int
    BY <1>1 DEF TablesTyped
  <1>3. "r" \in Edges /\ "f" \in Edges /\ \A e \in Edges : Src(c, e) \in Edges
    BY DEF Edges, Src, Other
  <1>4. ClockToQ(tm, c) \in Pairs
    <2>1. ClockTran \in Int
      BY DEF ClockTran
    <2>2. ClockToQ(tm, c) = [r |-> DelayTab(tm.row[c], "r", ClockTran, tm.tot[c]),
                             f |-> DelayTab(tm.row[c], "f", ClockTran, tm.tot[c])]
      BY DEF ClockToQ, OnEdges
    <2>3. DelayTab(tm.row[c], "r", ClockTran, tm.tot[c]) \in Int /\ DelayTab(tm.row[c], "f", ClockTran, tm.tot[c]) \in Int
      BY <1>2, <1>3, <2>1
    <2> QED BY <2>2, <2>3 DEF Pairs
  <1>5. ASSUME NEW p \in In(c) PROVE ArcDelay(tm, p) \in Pairs
    <2>1. p[2] = c /\ p \in AllPins
      BY NetFacts
    <2>2. \A e \in Edges : tm.tran[p][e] \in Int
      BY <2>1 DEF Pairs, Edges
    <2>3. CASE c \in flops
      <3>1. ArcDelay(tm, p) = [r |-> SetupTab("r", tm.tran[p]["r"]), f |-> SetupTab("f", tm.tran[p]["f"])]
        BY <2>1, <2>3 DEF ArcDelay, OnEdges, IsFF
      <3>2. SetupTab("r", tm.tran[p]["r"]) \in Int /\ SetupTab("f", tm.tran[p]["f"]) \in Int
        BY <1>2, <1>3, <2>2
      <3> QED BY <3>1, <3>2 DEF Pairs
    <2>4. CASE c \notin flops
      <3>1. ArcDelay(tm, p) = [r |-> DelayTab(tm.row[c], "r", tm.tran[p][Src(c, "r")], tm.tot[c]),
                               f |-> DelayTab(tm.row[c], "f", tm.tran[p][Src(c, "f")], tm.tot[c])]
        BY <2>1, <2>4 DEF ArcDelay, OnEdges, IsFF
      <3>2. /\ DelayTab(tm.row[c], "r", tm.tran[p][Src(c, "r")], tm.tot[c]) \in Int
            /\ DelayTab(tm.row[c], "f", tm.tran[p][Src(c, "f")], tm.tot[c]) \in Int
        BY <1>2, <1>3, <2>2
      <3> QED BY <3>1, <3>2 DEF Pairs
    <2> QED BY <2>3, <2>4
  <1> QED BY <1>4, <1>5

LEMMA ArrivalsTyped ==
  ASSUME InOrder, NEW tm, Stored(tm), Numbered(tm), \A c \in Cells : tm.ck[c] \in Pairs
  PROVE  \A p \in AllPins : ArrivalAlong(tm)[p] \in Pairs
  <1> DEFINE x == ArrivalAlong(tm)
             S == {c \in Cells : \A p \in Net(c) : x[p] \in Pairs}
  <1>1. Netlist
    BY DEF InOrder
  <1>2. /\ x[Out(0)] = Const(0)
        /\ \A p \in On(0) : x[p] = Sum(Const(0), Const(tm.wire[0]))
        /\ \A c \in Cells : \A p \in Net(c) : x[p] = Value("aat", tm, x, c, p)
    BY ArrivalsAlong
  <1> HIDE DEF x
  <1>3. \A d \in Drivers, a \in Pairs : Sum(a, Const(tm.wire[d])) \in Pairs
    BY DEF Numbered, Sum, OnEdges, Const, Pairs
  <1>4. \A p \in Net(0) : x[p] \in Pairs
    <2>1. Const(0) \in Pairs /\ 0 \in Drivers
      BY ConstFacts DEF Drivers
    <2> QED BY <1>2, <1>3, <2>1 DEF Net
  <1>5. ASSUME NEW c \in Cells, c \notin flops => \A d \in Cells : wires[d][c] # 0 => d \in S
        PROVE  c \in S
    <2>1. c \in Drivers /\ c # 0
      BY <1>1, PinFacts DEF Drivers
    <2>2. ASSUME c \notin flops, NEW p \in In(c) PROVE x[p] \in Pairs
      <3>1. p[1] \in Fi(c) /\ p \in Net(p[1]) /\ p[1] \in Drivers
        BY <1>1, NetFacts
      <3>2. CASE p[1] = 0
        BY <1>4, <3>1, <3>2
      <3>3. CASE p[1] # 0
        <4>1. p[1] \in Cells /\ wires[p[1]][c] # 0
          BY <1>1, <3>1, <3>3, PinFacts DEF Drivers
        <4>2. p[1] \in S
          BY <1>5, <2>2, <4>1
        <4> QED BY <3>1, <4>2
      <3> QED BY <3>2, <3>3
    <2> DEFINE z == [tm EXCEPT !.aat = x]
               own == Arrival(z, c)
    <2>3. z.aat = x /\ z.ck = tm.ck /\ z.dly = tm.dly
      BY DEF Stored
    <2> HIDE DEF z
    <2>4. own \in Pairs
      <3>1. CASE c \in flops
        <4>1. own = [r |-> tm.ck[c]["r"], f |-> tm.ck[c]["f"]]
          BY <2>3, <3>1 DEF Arrival, OnEdges, IsFF
        <4> QED BY <4>1 DEF Pairs
      <3>2. CASE c \notin flops
        <4>1. ASSUME NEW e \in Edges
              PROVE  Max({0} \cup {tm.dly[p][e] + x[p][Src(c, e)] : p \in In(c)}) \in Int
          <5> DEFINE g == [p \in In(c) |-> tm.dly[p][e] + x[p][Src(c, e)]]
          <5>1. \A p \in In(c) : g[p] \in Int
            <6> TAKE p \in In(c)
            <6>1. Src(c, e) \in Edges /\ x[p] \in Pairs /\ tm.dly[p][e] \in Int
              BY <2>2, <3>2 DEF Src, Other, Edges, Numbered
            <6>2. x[p][Src(c, e)] \in Int
              BY <6>1 DEF Pairs, Edges
            <6> QED BY <6>1, <6>2
          <5>2. {tm.dly[p][e] + x[p][Src(c, e)] : p \in In(c)} = {g[p] : p \in In(c)}
            OBVIOUS
          <5> HIDE DEF g
          <5>3. Max({0} \cup {g[p] : p \in In(c)}) \in Int
            BY <1>1, <5>1, LargestIsInt
          <5> QED BY <5>2, <5>3
        <4>2. own = [r |-> Max({0} \cup {tm.dly[p]["r"] + x[p][Src(c, "r")] : p \in In(c)}),
                     f |-> Max({0} \cup {tm.dly[p]["f"] + x[p][Src(c, "f")] : p \in In(c)})]
          BY <2>3, <3>2 DEF Arrival, OnEdges, IsFF
        <4>3. "r" \in Edges /\ "f" \in Edges
          BY DEF Edges
        <4> QED BY <4>1, <4>2, <4>3 DEF Pairs
      <3> QED BY <3>1, <3>2
    <2>5. ASSUME NEW p \in Net(c) PROVE x[p] \in Pairs
      <3>1. x[p] = IF p = Out(c) THEN own ELSE Sum(own, Const(tm.wire[c]))
        BY <1>2 DEF Value, OnNet, Own, z
      <3> HIDE DEF own
      <3> QED BY <1>3, <2>1, <2>4, <3>1
    <2> QED BY <2>5
  <1>6. Cells \subseteq S
    <2> HIDE DEF S
    <2> QED BY <1>5, AllForward
  <1>7. ASSUME NEW p \in AllPins PROVE x[p] \in Pairs
    <2>1. p[1] \in Drivers /\ p \in Net(p[1])
      BY <1>1, NetFacts
    <2> QED BY <1>4, <1>6, <2>1 DEF Drivers
  <1> QED BY <1>7 DEF x

\* OpenSTA's timing satisfies all equations, with numbers.
LEMMA GoldenBare ==
  ASSUME TablesTyped, InOrder, NEW tm, Settled(tm)
  PROVE  LET g == Golden(tm)
         IN /\ Bare(g) /\ g.row = tm.row
            /\ \A p \in AllPins : g.tran[p] \in Pairs /\ g.aat[p] \in Pairs /\ g.rat[p] \in Pairs
  <1> DEFINE x == [tm EXCEPT !.tofs = NoOffsets, !.sofs = NoOffsets, !.gb = 0]
             new == CallTimer(x)
             s == Slewing(x)
             g == Delaying(x)
             a == Arriving(x)
  <1>1. Golden(tm) = new
    BY DEF Golden
  <1>2. /\ Stored(x) /\ x.row = tm.row /\ x.tot = tm.tot /\ x.tofs = NoOffsets /\ x.tran = tm.tran
    BY DEF Settled, Stored
  <1> HIDE DEF x
  <1>3. Ready(x) /\ NoBias(x)
    BY <1>2 DEF Ready, Settled, LoadHolds, NoBias, NoOffsets
  <1>4. /\ Stored(s) /\ Stored(g) /\ Stored(a) /\ SameRows(s, x) /\ SameRows(new, x) /\ s.tot = x.tot /\ new.tot = x.tot
        /\ s.tran = new.tran /\ g.dly = DelayAlong(s) /\ g.ck = ClockAlong(s) /\ g.wire = new.wire
        /\ a.dly = g.dly /\ a.wire = new.wire /\ new.dly = g.dly
        /\ new.aat = ArrivalAlong(g) /\ new.rat = RequiredAlong(a)
    <2>1. /\ Stored(s) /\ Stored(g) /\ Stored(a) /\ SameRows(s, x) /\ SameRows(new, x)
          /\ s.tot = x.tot /\ new.tot = x.tot
      BY <1>3, FullParts
    <2>2. s.tran = new.tran /\ g.dly = DelayAlong(s) /\ g.ck = ClockAlong(s) /\ g.wire = new.wire
      BY <1>3, FullParts
    <2>3. a.dly = g.dly /\ a.wire = new.wire /\ new.dly = g.dly
      BY <1>3, FullParts
    <2>4. new.aat = ArrivalAlong(g) /\ new.rat = RequiredAlong(a)
      BY <1>3, FullParts
    <2> HIDE DEF s, g, a, new
    <2> QED BY <2>1, <2>2, <2>3, <2>4
  <1>5. Settled(new) /\ new.tofs = x.tofs
    BY <1>3, FullSettles
  <1>6. Exact(new)
    BY <1>3, SlewsHold, ArrivalsHold, RequiredHold DEF Exact
  <1>7. Numbered(a)
    BY <1>3, FullNumbered
  <1> HIDE DEF new, s, g, a
  <1>8. NoBias(new)
    BY <1>3, <1>5 DEF NoBias
  <1>9. \A p \in AllPins : new.tran[p] \in Pairs
    BY <1>5, <1>6, <1>8, SlewsTyped DEF Exact
  <1>10. s.row = new.row /\ s.tot = new.tot
    BY <1>4 DEF SameRows
  <1>11. /\ \A c \in Cells : \A p \in In(c) : g.dly[p] = ArcDelay(s, p)
         /\ \A c \in Cells : g.ck[c] = ClockToQ(s, c)
    BY <1>4, DelaysAlong
  <1>12. DelaysHold(new)
    <2>1. \A p : ArcDelay(s, p) = ArcDelay(new, p)
      BY <1>4, <1>10 DEF ArcDelay
    <2> QED BY <1>4, <1>11, <2>1 DEF DelaysHold
  <1>13. new.aat[Out(0)] = Const(0)
    BY <1>4, ArrivalsAlong
  <1>14. Netlist
    BY DEF InOrder
  <1>15. \A c \in Cells : ClockToQ(s, c) \in Pairs
    <2>1. s.row \in [Cells -> 0 .. MaxRow] /\ \A d \in Drivers : s.tot[d] = Load(s.row, d)
      BY <1>5, <1>10 DEF Settled, LoadHolds
    <2>2. \A p \in AllPins : s.tran[p] \in Pairs
      BY <1>4, <1>9
    <2> QED BY <1>14, <2>1, <2>2, ArcsTyped
  <1>16. Numbered(g)
    BY <1>4, <1>7 DEF Numbered
  <1>17. \A p \in AllPins : new.aat[p] \in Pairs
    BY <1>4, <1>11, <1>15, <1>16, ArrivalsTyped
  <1>18. \A p \in AllPins : new.rat[p] \in Pairs
    <2>1. BackTo(a, RequiredAlong(a), Len(rtopolist))
      BY <1>4, <1>7, RequiredSwept
    <2> QED BY <1>4, <2>1 DEF BackTo
  <1>19. Bare(new) /\ new.row = tm.row
    BY <1>2, <1>4, <1>5, <1>6, <1>8, <1>12, <1>13 DEF Bare, SameRows
  <1> QED BY <1>1, <1>9, <1>17, <1>18, <1>19

\* tm is correlated to gold.
FittedTo(tm, gold) ==
  \A p \in AllPins \ {Out(0)}, e \in Edges :
    LET slack == Slack(tm, p)[e]
        its == GoldenSlack(gold, p)[e]
    IN /\ tm.tran[p] = GoldenTran(gold, p)
       /\ IF its = Far \/ tm.sofs[p][e] = Far THEN slack = Far
          ELSE slack \in {its + tm.gb, its + 2 * tm.gb}

LEMMA CorrelateFits ==
  ASSUME TablesTyped, BiasTyped, InOrder, NEW tm, Settled(tm), tm.gb \in Int
  PROVE  FittedTo(CorrelatePT(tm), Golden(tm)) /\ CorrelatePT(tm).gb = tm.gb
  <1> DEFINE gold == Golden(tm)
             s == CalcTranCorr(tm, gold)
             g == CalcDelay(s)
             a == CalcArrival(g)
             r == CalcRequired(a)
             new == CorrPT(r, gold)
  <1>1. /\ Bare(gold) /\ gold.row = tm.row
        /\ \A p \in AllPins : gold.tran[p] \in Pairs /\ gold.aat[p] \in Pairs /\ gold.rat[p] \in Pairs
    BY GoldenBare
  <1> HIDE DEF gold
  <1>2. CorrelatePT(tm) = new
    BY DEF CorrelatePT, gold
  <1>3. /\ Settled(new) /\ new.row = tm.row /\ new.tot = tm.tot
        /\ \A c \in Cells : \A p \in Net(c) : new.tran[p] = GoldenTran(gold, p)
        /\ \A p \in On(0) : new.tran[p] = GoldenTran(gold, p)
    BY <1>2, CorrelateParts DEF gold
  <1>4. Stored(s) /\ s.row = tm.row /\ s.tot = tm.tot /\ s.gb = tm.gb
    BY DEF CalcTranCorr, CalcWire, Stored, Settled
  <1> HIDE DEF s
  <1>5. /\ Stored(g) /\ g.wire = s.wire /\ g.tran = s.tran /\ g.gb = s.gb /\ g.row = s.row /\ g.tot = s.tot
        /\ g.dly = DelayAlong(s) /\ g.ck = ClockAlong(s)
    BY <1>4 DEF CalcDelay, Stored
  <1> HIDE DEF g
  <1>6. /\ Stored(a) /\ a.wire = g.wire /\ a.tran = g.tran /\ a.gb = g.gb
        /\ a.dly = g.dly /\ a.aat = ArrivalAlong(g)
    BY <1>5 DEF CalcArrival, Stored
  <1> HIDE DEF a
  <1>7. /\ Stored(r) /\ r.wire = a.wire /\ r.tran = a.tran /\ r.gb = a.gb /\ r.aat = a.aat
        /\ r.rat = RequiredAlong(a)
    BY <1>6 DEF CalcRequired, Stored
  <1> HIDE DEF r
  <1>8. /\ new.wire = r.wire /\ new.tran = r.tran /\ new.gb = r.gb /\ new.aat = r.aat /\ new.rat = r.rat
        /\ new.sofs = [p \in AllPins |-> OnEdges(LAMBDA e :
             LET target == GoldenSlack(gold, p)[e]
                 raw == r.rat[p][e] - r.aat[p][e]
             IN IF target = Far THEN Far ELSE target - raw + (IF e = "r" THEN r.gb ELSE 0))]
    BY <1>7 DEF CorrPT, Stored
  <1> HIDE DEF new
  <1>9. Netlist /\ "r" \in Edges /\ "f" \in Edges
    BY DEF InOrder, Edges
  <1>10. AllPins \subseteq Drivers \X (Drivers \cup {PO})
    <2>1. Fo(0) \subseteq Cells \cup {PO} /\ \A c \in Cells : Fo(c) \subseteq Cells \cup {PO}
      BY <1>9, PinFacts DEF Drivers
    <2> QED BY <2>1 DEF AllPins, Pins, Out, Drivers
  <1>11. \A p \in AllPins : p = Out(0) \/ new.tran[p] = GoldenTran(gold, p)
    <2> TAKE p \in AllPins
    <2>1. p[1] \in Drivers /\ p \in Net(p[1])
      BY <1>9, NetFacts
    <2> QED BY <1>3, <2>1 DEF Net, Drivers
  <1>12. \A p \in AllPins : new.tran[p] \in Pairs
    <2> TAKE p \in AllPins
    <2>1. CASE p = Out(0)
      <3>1. Const(0) \in Pairs
        BY ConstFacts
      <3> QED BY <1>3, <2>1, <3>1 DEF Settled
    <2>2. CASE p # Out(0)
      <3>1. \A e \in Edges : gold.tran[p][e] \in Int /\ Bias(p, e) \in Int
        BY <1>1, <1>10 DEF Pairs, Edges, BiasTyped
      <3>2. new.tran[p] = [r |-> gold.tran[p]["r"] + Bias(p, "r"), f |-> gold.tran[p]["f"] + Bias(p, "f")]
        BY <1>11, <2>2 DEF GoldenTran, OnEdges
      <3>3. gold.tran[p]["r"] + Bias(p, "r") \in Int /\ gold.tran[p]["f"] + Bias(p, "f") \in Int
        BY <1>9, <3>1
      <3> QED BY <3>2, <3>3 DEF Pairs
    <2> QED BY <2>1, <2>2
  <1>13. /\ \A c \in Cells : \A p \in In(c) : g.dly[p] = ArcDelay(s, p)
         /\ \A c \in Cells : g.ck[c] = ClockToQ(s, c)
    BY <1>4, <1>5, DelaysAlong
  <1>14. \A c \in Cells : ClockToQ(s, c) \in Pairs /\ \A p \in In(c) : ArcDelay(s, p) \in Pairs
    <2>1. s.row \in [Cells -> 0 .. MaxRow] /\ \A d \in Drivers : s.tot[d] = Load(s.row, d)
      BY <1>4 DEF Settled, LoadHolds
    <2>2. \A p \in AllPins : s.tran[p] \in Pairs
      BY <1>5, <1>6, <1>7, <1>8, <1>12
    <2> QED BY <1>9, <2>1, <2>2, ArcsTyped
  <1>15. Numbered(g) /\ Numbered(a)
    <2>1. \A d \in Drivers : new.wire[d] \in Int
      <3>1. new.row \in [Cells -> 0 .. MaxRow] /\ \A d \in Drivers : new.wire[d] = WireTab(Load(new.row, d))
        BY <1>3 DEF Settled, LoadHolds
      <3> QED BY <1>9, <3>1, LoadIsNat DEF TablesTyped
    <2>2. \A c \in Cells : \A p \in In(c) : \A e \in Edges : g.dly[p][e] \in Int
      BY <1>13, <1>14 DEF Pairs, Edges
    <2> QED BY <1>5, <1>6, <1>7, <1>8, <2>1, <2>2 DEF Numbered
  <1>16. \A p \in AllPins : new.aat[p] \in Pairs
    BY <1>5, <1>6, <1>7, <1>8, <1>13, <1>14, <1>15, ArrivalsTyped
  <1>17. \A p \in AllPins : new.rat[p] \in Pairs
    <2>1. BackTo(a, RequiredAlong(a), Len(rtopolist))
      BY <1>6, <1>15, RequiredSwept
    <2> QED BY <1>7, <1>8, <2>1 DEF BackTo
  <1>18. new.gb = tm.gb /\ new.gb \in Int /\ r.gb = new.gb /\ Far \in Int
    <2>1. Far \in Int
      BY TimerAssumption
    <2>2. new.gb = tm.gb /\ r.gb = new.gb
      BY <1>4, <1>5, <1>6, <1>7, <1>8
    <2> QED BY <2>1, <2>2
  <1>19. ASSUME NEW p \in AllPins \ {Out(0)}, NEW e \in Edges
         PROVE  LET slack == Slack(new, p)[e]
                    its == GoldenSlack(gold, p)[e]
                IN IF its = Far \/ new.sofs[p][e] = Far THEN slack = Far
                   ELSE slack \in {its + new.gb, its + 2 * new.gb}
    <2> DEFINE slack == Slack(new, p)[e]
               its == GoldenSlack(gold, p)[e]
               raw == new.rat[p][e] - new.aat[p][e]
    <2>1. new.rat[p][e] \in Int /\ new.aat[p][e] \in Int /\ its \in Int
      <3>1. /\ new.rat[p] \in Pairs /\ new.aat[p] \in Pairs /\ gold.rat[p] \in Pairs /\ gold.aat[p] \in Pairs
            /\ SlackBias(p, e) \in Int
        BY <1>1, <1>10, <1>16, <1>17 DEF BiasTyped
      <3>2. /\ new.rat[p][e] \in Int /\ new.aat[p][e] \in Int
            /\ gold.rat[p][e] \in Int /\ gold.aat[p][e] \in Int
        BY <3>1 DEF Pairs, Edges
      <3>3. its = IF gold.rat[p][e] > Unbounded THEN Far
                  ELSE gold.rat[p][e] - gold.aat[p][e] + SlackBias(p, e)
        BY DEF GoldenSlack, OnEdges, Edges
      <3> QED BY <1>18, <3>1, <3>2, <3>3
    <2>2. new.sofs[p][e] = IF its = Far THEN Far ELSE its - raw + (IF e = "r" THEN new.gb ELSE 0)
      BY <1>8 DEF OnEdges, Edges
    <2>3. slack = IF new.sofs[p][e] = Far THEN Far
                  ELSE new.rat[p][e] - new.aat[p][e] + new.sofs[p][e] + new.gb
      BY DEF Slack, OnEdges, Edges
    <2>4. raw \in Int /\ raw = new.rat[p][e] - new.aat[p][e]
      BY <2>1
    <2> HIDE DEF its, slack, raw
    <2>5. IF its = Far \/ new.sofs[p][e] = Far THEN slack = Far
          ELSE slack \in {its + new.gb, its + 2 * new.gb}
      <3>1. CASE its = Far \/ new.sofs[p][e] = Far
        BY <2>2, <2>3, <3>1
      <3>2. CASE its # Far /\ new.sofs[p][e] # Far
        <4>1. slack = raw + (its - raw + (IF e = "r" THEN new.gb ELSE 0)) + new.gb
          BY <2>2, <2>3, <2>4, <3>2
        <4>2. slack = its + new.gb \/ slack = its + 2 * new.gb
          BY <1>18, <2>1, <2>4, <4>1
        <4> QED BY <3>2, <4>2
      <3> QED BY <3>1, <3>2
    <2> QED BY <2>5 DEF its, slack
  <1>20. FittedTo(new, gold)
    BY <1>11, <1>19 DEF FittedTo
  <1> QED BY <1>2, <1>18, <1>20 DEF gold

(* Whatever timing of the cells without offsets it was fitted to, it is     *)
(* fitted to the one of the cells as they are.                              *)
LEMMA FittedToAny ==
  ASSUME InOrder, TablesTyped, NEW tm, Settled(tm), NEW gold, Bare(gold), gold.row = tm.row, FittedTo(tm, gold)
  PROVE  FittedTo(tm, Golden(tm))
  <1> DEFINE its == Golden(tm)
  <1>1. Bare(its) /\ its.row = tm.row
    BY GoldenBare
  <1> HIDE DEF its
  <1>2. \A p \in AllPins : its.tran[p] = gold.tran[p] /\ its.aat[p] = gold.aat[p] /\ its.rat[p] = gold.rat[p]
    BY <1>1, SameSlews, SameArrivals, SameRequired
  <1>3. \A p \in AllPins : GoldenTran(its, p) = GoldenTran(gold, p) /\ GoldenSlack(its, p) = GoldenSlack(gold, p)
    BY <1>2 DEF GoldenTran, GoldenSlack, OnEdges
  <1>4. FittedTo(tm, its)
    BY <1>3 DEF FittedTo
  <1> QED BY <1>4 DEF its


\* A timing is settled, exact after a full one without offsets, and after a
\* correlation fitted to the one its cells have without offsets.
FittedToOne(tm) == \E gold : Bare(gold) /\ gold.row = tm.row /\ FittedTo(tm, gold)
Timely(tm, came) ==
  /\ Settled(tm) /\ tm.gb = Band
  /\ came = <<"timer">> /\ NoBias(tm) => Exact(tm)
  /\ came = <<"corr">> /\ BiasTyped => FittedToOne(tm)

TimerInv == t # <<>> \/ last # <<>> => pc = "done" /\ LoopFree /\ Timely(t, last)

LEMMA FullGood ==
  ASSUME TablesTyped, InOrder, NEW tm, Ready(tm), tm.gb = Band
  PROVE  Timely(CallTimer(tm), <<"timer">>)
  <1>1. Settled(CallTimer(tm)) /\ CallTimer(tm).tofs = tm.tofs
    BY FullSettles
  <1>2. ASSUME NoBias(CallTimer(tm)) PROVE Exact(CallTimer(tm))
    <2>1. NoBias(tm)
      BY <1>1, <1>2 DEF NoBias
    <2> QED BY <2>1, SlewsHold, ArrivalsHold, RequiredHold DEF Exact
  <1>3. CallTimer(tm).gb = Band
    BY FullParts DEF SameRows
  <1>4. <<"timer">> # <<"corr">>
    OBVIOUS
  <1> QED BY <1>1, <1>2, <1>3, <1>4 DEF Timely

LEMMA EquationsKept ==
  ASSUME UNCHANGED vars, NEW tm
  PROVE  /\ Settled(tm)' <=> Settled(tm)
         /\ NoBias(tm)' <=> NoBias(tm)
         /\ Exact(tm)' <=> Exact(tm)
         /\ DelaysHold(tm)' <=> DelaysHold(tm)
         /\ AllPins' = AllPins
  <1>1. wires' = wires /\ flops' = flops /\ sinks' = sinks
    BY DEF vars
  <1>2. \A c : Fi(c)' = Fi(c)
    BY <1>1 DEF Fi
  <1>3. /\ \A d : Fo(d)' = Fo(d)
        /\ \A d, c : Mult(d, c)' = Mult(d, c)
        /\ \A c : IsFF(c)' = IsFF(c)
    BY <1>1, <1>2 DEF Fo, Mult, IsFF
  <1>4. Pins' = Pins
    BY <1>3 DEF Pins
  <1>5. AllPins' = AllPins /\ (\A d : On(d)' = On(d)) /\ (\A c : In(c)' = In(c))
    BY <1>2, <1>3, <1>4 DEF AllPins, On, In
  <1>6. \A row, d : CapsOn(row, d)' = CapsOn(row, d)
    BY <1>3 DEF CapsOn
  <1>7. \A row, d : Load(row, d)' = Load(row, d)
    BY <1>3, <1>6 DEF Load
  <1>8. \A d : LoadHolds(tm, d)' <=> LoadHolds(tm, d)
    BY <1>7 DEF LoadHolds
  <1>9. Settled(tm)' <=> Settled(tm)
    BY <1>5, <1>8 DEF Settled
  <1>10. \A c : LookupST(tm, c)' = LookupST(tm, c)
    BY <1>3, <1>5 DEF LookupST, OnEdges
  <1>11. \A x, c : Arrival(x, c)' = Arrival(x, c)
    BY <1>3, <1>5 DEF Arrival, OnEdges
  <1>12. \A p : ArcDelay(tm, p)' = ArcDelay(tm, p)
    BY <1>3 DEF ArcDelay, OnEdges
  <1>13. \A c : LookupDT(tm, c)' = LookupDT(tm, c)
    BY <1>5, <1>12 DEF LookupDT, Put
  <1>14. \A d : SlewHolds(tm, d)' <=> SlewHolds(tm, d)
    BY <1>5, <1>10 DEF SlewHolds
  <1>15. \A d : ArrivalHolds(tm, d)' <=> ArrivalHolds(tm, d)
    BY <1>3, <1>5, <1>11, <1>13 DEF ArrivalHolds
  <1>16. \A p : Required(tm, p)' = Required(tm, p)
    BY <1>3 DEF Required, OnEdges
  <1>17. \A d : Earliest(tm, d)' = Earliest(tm, d)
    BY <1>5 DEF Earliest, OnEdges
  <1>18. \A p : RequiredHolds(tm, p)' <=> RequiredHolds(tm, p)
    BY <1>16, <1>17 DEF RequiredHolds
  <1>19. RequiredExact(tm)' <=> RequiredExact(tm)
    BY <1>5, <1>16, <1>18 DEF RequiredExact
  <1>20. NoBias(tm)' <=> NoBias(tm)
    BY <1>5 DEF NoBias
  <1>21. Exact(tm)' <=> Exact(tm)
    <2>1. Drivers' = Drivers
      BY DEF Drivers
    <2> QED BY <1>14, <1>15, <1>19, <2>1 DEF Exact
  <1>22. DelaysHold(tm)' <=> DelaysHold(tm)
    BY <1>5, <1>12 DEF DelaysHold
  <1> QED BY <1>5, <1>9, <1>20, <1>21, <1>22

LEMMA GoodKept ==
  ASSUME UNCHANGED vars, NEW tm, NEW came
  PROVE  Timely(tm, came)' <=> Timely(tm, came)
  <1>1. \A x : Bare(x)' <=> Bare(x)
    <2> TAKE x
    <2> QED BY EquationsKept DEF Bare
  <1>2. \A x : FittedTo(tm, x)' <=> FittedTo(tm, x)
    <2>1. AllPins' = AllPins
      BY EquationsKept
    <2> QED BY <2>1 DEF FittedTo
  <1>3. FittedToOne(tm)' <=> FittedToOne(tm)
    BY <1>1, <1>2 DEF FittedToOne
  <1> QED BY <1>3, EquationsKept DEF Timely

LEMMA TimerStepKeeps ==
  ASSUME TablesTyped, Sorted, TimerInv, [TimerNext]_<<vars, tvars>>
  PROVE  TimerInv'
  <1>1. CASE UNCHANGED <<vars, tvars>>
    <2>1. UNCHANGED vars /\ t' = t /\ last' = last /\ pc' = pc /\ LoopFree' = LoopFree
      <3>1. UNCHANGED netlist /\ UNCHANGED vars /\ t' = t /\ last' = last /\ pc' = pc
        BY <1>1 DEF vars, tvars, netlist
      <3>2. wires' = wires /\ flops' = flops
        BY <3>1 DEF netlist
      <3>3. \A d, c : Comb(d, c)' = Comb(d, c)
        BY <3>2 DEF Comb
      <3>4. \A x : Reach(x)' = Reach(x)
        BY <3>3 DEF Reach
      <3> QED BY <3>1, <3>4 DEF LoopFree, Loop
    <2>2. PICK tm, came : tm = t /\ came = last
      OBVIOUS
    <2>3. Timely(tm, came)' <=> Timely(tm, came)
      BY <2>1, GoodKept
    <2> QED BY <2>1, <2>2, <2>3 DEF TimerInv
  <1> SUFFICES ASSUME TimerNext PROVE TimerInv'
    BY <1>1
  <1>2. CASE Sorting
    <2>1. pc # "done"
      BY <1>2 DEF Sorting, Next, Fwd, FwdDone, Bwd, BwdDone
    <2>2. t' = t /\ last' = last
      BY <1>2 DEF Sorting, tvars
    <2> QED BY <2>1, <2>2 DEF TimerInv
  <1>3. ASSUME UNCHANGED vars, pc = "done", LoopFree, Timely(t', last')
        PROVE  TimerInv'
    <2>1. pc' = "done" /\ LoopFree'
      <3>1. UNCHANGED netlist /\ pc' = pc
        BY <1>3 DEF vars, netlist
      <3>2. wires' = wires /\ flops' = flops
        BY <3>1 DEF netlist
      <3>3. \A d, c : Comb(d, c)' = Comb(d, c)
        BY <3>2 DEF Comb
      <3>4. \A x : Reach(x)' = Reach(x)
        BY <3>3 DEF Reach
      <3> QED BY <1>3, <3>1, <3>4 DEF LoopFree, Loop
    <2>2. PICK tm, came : tm = t' /\ came = last'
      OBVIOUS
    <2>3. Timely(tm, came)' <=> Timely(tm, came)
      BY <1>3, GoodKept
    <2> QED BY <1>3, <2>1, <2>2, <2>3 DEF TimerInv
  <1>4. CASE StartTimer
    <2> DEFINE row == [c \in Cells |-> 0]
               first == [row |-> row, gb |-> Band,
                         tot |-> [d \in Drivers |-> Load(row, d)],
                         wire |-> [d \in Drivers |-> 0],
                         tran |-> [p \in AllPins |-> Const(0)], tofs |-> NoOffsets,
                         dly |-> [p \in Pins |-> Const(0)], ck |-> [c \in Cells |-> Const(0)],
                         aat |-> NoOffsets, rat |-> NoOffsets, sofs |-> NoOffsets]
    <2>1. pc = "done" /\ LoopFree /\ UNCHANGED vars /\ t' = CallTimer(first) /\ last' = <<"timer">>
      BY <1>4 DEF StartTimer
    <2>2. InOrder
      BY <2>1, SortedInOrder
    <2>3. Ready(first) /\ first.gb = Band
      <3>1. Out(0) \in AllPins
        BY DEF AllPins, Drivers
      <3>2. row \in [Cells -> 0 .. MaxRow]
        BY TimerAssumption
      <3> HIDE DEF row
      <3> QED BY <3>1, <3>2 DEF Ready, Stored, NoOffsets
    <2> HIDE DEF first
    <2>4. Timely(t', last')
      BY <2>1, <2>2, <2>3, FullGood
    <2> QED BY <1>3, <2>1, <2>4
  <1>5. ASSUME Timed PROVE InOrder /\ Settled(t) /\ t.gb = Band /\ pc = "done" /\ LoopFree /\ UNCHANGED vars
    <2>1. t # <<>> /\ UNCHANGED vars
      BY <1>5 DEF Timed
    <2>2. pc = "done" /\ LoopFree /\ Settled(t) /\ t.gb = Band
      BY <2>1 DEF TimerInv, Timely
    <2> QED BY <2>1, <2>2, SortedInOrder
  <1>6. CASE Correlate
    <2>1. Timed /\ t' = CorrelatePT(t) /\ last' = <<"corr">>
      BY <1>6 DEF Correlate
    <2>2. PICK tm : tm = t
      OBVIOUS
    <2>3. InOrder /\ Settled(tm) /\ tm.gb = Band
      BY <1>5, <2>1, <2>2
    <2>4. Settled(CorrelatePT(tm)) /\ CorrelatePT(tm).row = tm.row
      BY <2>3, CorrelateParts
    <2>5. CorrelatePT(tm).gb = Band
      BY <2>3, CorrelateParts
    <2>6. Bare(Golden(tm)) /\ Golden(tm).row = tm.row
      BY <2>3, GoldenBare
    <2>7. BiasTyped => FittedToOne(CorrelatePT(tm))
      BY <2>3, <2>4, <2>6, CorrelateFits, TimerAssumption DEF FittedToOne
    <2>8. last' # <<"timer">>
      BY <2>1
    <2>9. Timely(t', last')
      BY <2>1, <2>2, <2>4, <2>5, <2>7, <2>8 DEF Timely
    <2> QED BY <1>3, <1>5, <2>1, <2>9
  <1>7. CASE Retimed
    <2>1. Timed /\ t' = CallTimer(t) /\ last' = <<"timer">>
      BY <1>7 DEF Retimed
    <2>2. PICK tm : tm = t
      OBVIOUS
    <2>3. InOrder /\ Ready(tm) /\ tm.gb = Band
      BY <1>5, <2>1, <2>2, SettledReady
    <2>4. Timely(CallTimer(tm), <<"timer">>)
      BY <2>3, FullGood
    <2> QED BY <1>3, <1>5, <2>1, <2>2, <2>4
  <1>8. CASE Resize
    <2>1. PICK c \in Cells, row \in 0 .. MaxRow, acc \in BOOLEAN : \E order :
            LET moved == OneTimer(Placed(t, c, row), c, order, acc) IN
            \/ t' = moved /\ last' = <<"move", c, acc>>
            \/ /\ t' = OneTimer(Placed(moved, c, t.row[c]), c, order, acc)
               /\ last' = <<"trial", c, acc>>
      BY <1>8 DEF Resize
    <2>2. Timed
      BY <1>8 DEF Resize
    <2>1a. PICK order :
          \/ t' = OneTimer(Placed(t, c, row), c, order, acc) /\ last' = <<"move", c, acc>>
          \/ /\ t' = OneTimer(Placed(OneTimer(Placed(t, c, row), c, order, acc), c, t.row[c]), c, order, acc)
             /\ last' = <<"trial", c, acc>>
      BY <2>1
    <2>3. PICK tm : tm = t
      OBVIOUS
    <2>4. InOrder /\ Netlist /\ Settled(tm) /\ tm.gb = Band
      BY <1>5, <2>2, <2>3 DEF InOrder
    <2> DEFINE moved == OneTimer(Placed(tm, c, row), c, order, acc)
               back == OneTimer(Placed(moved, c, tm.row[c]), c, order, acc)
    <2>5. Settled(moved) /\ moved.gb = Band
      BY <2>4, MoveSettles
    <2>6. tm.row[c] \in 0 .. MaxRow
      BY <2>4 DEF Settled
    <2>7. (t' = moved \/ t' = back) /\ last' # <<"timer">> /\ last' # <<"corr">>
      BY <2>1a, <2>3
    <2> HIDE DEF moved
    <2>8. Settled(back) /\ back.gb = Band
      BY <2>4, <2>5, <2>6, MoveSettles
    <2> HIDE DEF back
    <2>9. Timely(t', last')
      BY <2>5, <2>7, <2>8 DEF Timely
    <2> QED BY <1>3, <1>5, <2>2, <2>9
  <1> QED BY <1>2, <1>4, <1>6, <1>7, <1>8 DEF TimerNext

LEMMA TimerInvExact ==
  ASSUME TimerInv PROVE FullExact
  <1> SUFFICES ASSUME t # <<>> PROVE FullExact
    BY DEF FullExact
  <1>1. Timely(t, last)
    BY DEF TimerInv
  <1>2. \A d \in Drivers : LoadHolds(t, d)
    BY <1>1 DEF Timely, Settled
  <1>3. last = <<"timer">> /\ Plain => Exact(t)
    BY <1>1 DEF Timely, Settled, NoBias, Plain
  <1> QED BY <1>2, <1>3 DEF FullExact, Exact, RequiredExact

LEMMA TimerStarts == TimerSpec => Spec
  <1>1. TimerInit => Init
    BY DEF TimerInit
  <1>2. [TimerNext]_<<vars, tvars>> => [Next]_vars
    BY DEF TimerNext, Sorting, StartTimer, Correlate, Retimed, Resize, Timed
  <1> QED BY <1>1, <1>2, PTL DEF TimerSpec, Spec

LEMMA TimerKeepsInv ==
  ASSUME TablesTyped
  PROVE  TimerSpec => [](Sorted /\ TimerInv)
  <1>1. TimerInit => TimerInv
    BY DEF TimerInit, TimerInv
  <1>2. Sorted /\ TimerInv /\ [TimerNext]_<<vars, tvars>> => TimerInv'
    BY TimerStepKeeps
  <1>3. Spec => []Sorted
    BY AlwaysSorted
  <1> QED BY <1>1, <1>2, <1>3, TimerStarts, PTL DEF TimerSpec

(* On every netlist without loops and for all tables of numbers: loads and *)
(* wires are those of the rows the cells have, after any moves and         *)
(* correlations, and a full timing without offsets satisfies all equations *)
(* for slews, arrivals and required times at once.                         *)
THEOREM FullTimingIsExact ==
  ASSUME TablesTyped
  PROVE  TimerSpec => []FullExact
  <1>1. TimerInv => FullExact
    BY TimerInvExact
  <1> QED BY <1>1, TimerKeepsInv, PTL

LEMMA TimerInvCorrelated ==
  ASSUME TablesTyped, BiasTyped, Sorted, TimerInv
  PROVE  Correlated
  <1> SUFFICES ASSUME last = <<"corr">> PROVE Correlated
    BY DEF Correlated
  <1>1. PICK tm : tm = t
    OBVIOUS
  <1>2. Settled(tm) /\ FittedToOne(tm) /\ InOrder
    BY <1>1, SortedInOrder DEF TimerInv, Timely
  <1>3. FittedTo(tm, Golden(tm))
    BY <1>2, FittedToAny DEF FittedToOne
  <1> QED BY <1>1, <1>3 DEF Correlated, FittedTo

(* A correlation leaves nothing of what came before it: on every netlist   *)
(* without loops, after any moves, timings and earlier correlations, its   *)
(* slews are OpenSTA's and its slacks OpenSTA's plus the guard band, as    *)
(* OpenSTA sees the cells at that moment.                                  *)
THEOREM CorrelationForgets ==
  ASSUME TablesTyped, BiasTyped
  PROVE  TimerSpec => []Correlated
  <1>1. Sorted /\ TimerInv => Correlated
    BY TimerInvCorrelated
  <1> QED BY <1>1, TimerKeepsInv, PTL

-----------------------------------------------------------------------------
(* Timing moves no cell. *)

RowsKept(new, tm) == Stored(new) /\ new.row = tm.row

LEMMA CallTimerKeeps ==
  ASSUME NEW tm, Stored(tm)
  PROVE  RowsKept(CallTimer(tm), tm)
  <1>1. ASSUME NEW x, Stored(x) PROVE RowsKept(CalcWire(x), x)
    BY <1>1 DEF Stored, RowsKept, CalcWire
  <1>2. ASSUME NEW x, Stored(x) PROVE RowsKept(CalcTran(x), x)
    BY <1>2 DEF Stored, RowsKept, CalcTran
  <1>3. ASSUME NEW x, Stored(x) PROVE RowsKept(CalcDelay(x), x)
    BY <1>3 DEF Stored, RowsKept, CalcDelay
  <1>4. ASSUME NEW x, Stored(x) PROVE RowsKept(CalcArrival(x), x)
    BY <1>4 DEF Stored, RowsKept, CalcArrival
  <1>5. ASSUME NEW x, Stored(x) PROVE RowsKept(CalcRequired(x), x)
    BY <1>5 DEF Stored, RowsKept, CalcRequired
  <1> QED BY <1>1, <1>2, <1>3, <1>4, <1>5 DEF CallTimer, RowsKept

LEMMA CorrelateKeeps ==
  ASSUME NEW tm, Stored(tm)
  PROVE  RowsKept(CorrelatePT(tm), tm)
  <1>1. ASSUME NEW x, Stored(x), NEW g PROVE RowsKept(CalcTranCorr(x, g), x)
    BY <1>1 DEF Stored, RowsKept, CalcTranCorr, CalcWire
  <1>3. ASSUME NEW x, Stored(x) PROVE RowsKept(CalcDelay(x), x)
    BY <1>3 DEF Stored, RowsKept, CalcDelay
  <1>4. ASSUME NEW x, Stored(x) PROVE RowsKept(CalcArrival(x), x)
    BY <1>4 DEF Stored, RowsKept, CalcArrival
  <1>5. ASSUME NEW x, Stored(x) PROVE RowsKept(CalcRequired(x), x)
    BY <1>5 DEF Stored, RowsKept, CalcRequired
  <1>6. ASSUME NEW x, Stored(x), NEW g PROVE RowsKept(CorrPT(x, g), x)
    BY <1>6 DEF Stored, RowsKept, CorrPT
  <1> QED BY <1>1, <1>3, <1>4, <1>5, <1>6 DEF CorrelatePT, RowsKept

\* The incremental timer moves no cell.
LEMMA OneTimerKeeps ==
  ASSUME NEW tm, Stored(tm), NEW c, NEW order, NEW acc
  PROVE  RowsKept(OneTimer(tm, c, order, acc), tm)
  <1> DEFINE first == [k \in DOMAIN order |-> Out(order[k])] \o <<Out(c)>>
             new == Reload(tm, c)
             fwd == Forward(new, first, acc)
             end == Backward(fwd.tm, Reverse(fwd.bw))
  <1>1. Carries(new, tm)
    BY ReloadKeeps
  <1>2. Stored(new) /\ new.row = tm.row
    BY <1>1 DEF Carries, SameRows
  <1> HIDE DEF new
  <1>3. Keeps(fwd.tm, new)
    BY <1>2, ForwardKeeps
  <1>4. Stored(fwd.tm) /\ fwd.tm.row = new.row
    BY <1>3 DEF Keeps, Carries, SameRows
  <1>5. Keeps(end, fwd.tm)
    BY <1>4, BackwardKeeps
  <1>6. OneTimer(tm, c, order, acc) = end
    BY DEF OneTimer, Backed, new
  <1> HIDE DEF end, fwd
  <1>7. Stored(end) /\ end.row = fwd.tm.row
    BY <1>5 DEF Keeps, Carries, SameRows
  <1> QED BY <1>2, <1>4, <1>6, <1>7 DEF RowsKept

-----------------------------------------------------------------------------
(* Moves: every cell stays on a row of its table that has a master.        *)

Legal(row) ==
  /\ row \in [Cells -> 0 .. MaxRow]
  /\ \A c \in Cells : <<c, row[c]>> \notin Holes
Sound(tm) == Stored(tm) /\ Legal(tm.row)

\* Where a cell may go: within the table, not into a hole; or it stays.
LEMMA NextRowFacts ==
  ASSUME NEW tm, Sound(tm), NEW c \in Cells, NEW step \in Int
  PROVE  /\ NextRow(tm, c, step) \in 0 .. MaxRow
         /\ <<c, NextRow(tm, c, step)>> \notin Holes
         /\ /\ tm.row[c] + step \in 0 .. MaxRow
            /\ <<c, tm.row[c] + step>> \notin Holes
            => NextRow(tm, c, step) = tm.row[c] + step
  <1> DEFINE m == Min({tm.row[c] + step, MaxRow})
             row == Max({0, m})
  <1>1. tm.row[c] \in 0 .. MaxRow /\ <<c, tm.row[c]>> \notin Holes /\ MaxRow \in Nat
    BY TimerAssumption DEF Sound, Legal
  <1>2. m = IF tm.row[c] + step <= MaxRow THEN tm.row[c] + step ELSE MaxRow
    <2> DEFINE a == tm.row[c] + step
    <2>1. a \in Int /\ MaxRow \in Int
      BY <1>1
    <2>2. m = Min({a, MaxRow})
      OBVIOUS
    <2> HIDE DEF a, m
    <2>3. m = IF a <= MaxRow THEN a ELSE MaxRow
      BY <2>1, <2>2, TwoNumbers
    <2> QED BY <2>3 DEF a
  <1>3. m \in Int /\ m <= MaxRow /\ (tm.row[c] + step \in 0 .. MaxRow => m = tm.row[c] + step)
    BY <1>1, <1>2
  <1> HIDE DEF m
  <1>4. row = IF 0 >= m THEN 0 ELSE m
    BY <1>3, TwoNumbers
  <1>5. row \in 0 .. MaxRow /\ (tm.row[c] + step \in 0 .. MaxRow => row = tm.row[c] + step)
    BY <1>1, <1>3, <1>4
  <1>6. NextRow(tm, c, step) = IF <<c, row>> \in Holes THEN tm.row[c] ELSE row
    BY DEF NextRow, m
  <1> HIDE DEF row
  <1> QED BY <1>1, <1>5, <1>6

LEMMA PlacedSound ==
  ASSUME NEW tm, Sound(tm), NEW c, NEW row,
         c \in Cells => row \in 0 .. MaxRow /\ <<c, row>> \notin Holes
  PROVE  /\ Sound(Placed(tm, c, row))
         /\ Placed(tm, c, row).row = [tm.row EXCEPT ![c] = row]
  BY DEF Sound, Stored, Legal, Placed

LEMMA RetimingSound ==
  ASSUME NEW tm, Sound(tm), NEW c, NEW acc
  PROVE  Sound(Retiming(tm, c, acc)) /\ Retiming(tm, c, acc).row = tm.row
  <1>1. RowsKept(Retiming(tm, c, acc), tm)
    BY OneTimerKeeps DEF Retiming, Sound
  <1> QED BY <1>1 DEF RowsKept, Sound

LEMMA StepSound ==
  ASSUME NEW tm, Sound(tm), NEW c, NEW step, c \in Cells => step \in Int, NEW acc
  PROVE  /\ Sound(Step(tm, c, step, acc))
         /\ Step(tm, c, step, acc).row = [tm.row EXCEPT ![c] = NextRow(tm, c, step)]
  <1> DEFINE row == NextRow(tm, c, step)
             placed == Placed(tm, c, row)
  <1>1. c \in Cells => row \in 0 .. MaxRow /\ <<c, row>> \notin Holes
    BY NextRowFacts
  <1>2. Sound(placed) /\ placed.row = [tm.row EXCEPT ![c] = row]
    BY <1>1, PlacedSound
  <1>3. Sound(Retiming(placed, c, acc)) /\ Retiming(placed, c, acc).row = placed.row
    BY <1>2, RetimingSound
  <1>4. row = tm.row[c] => [tm.row EXCEPT ![c] = row] = tm.row
    BY DEF Sound, Legal
  <1>5. Step(tm, c, step, acc) = IF row = tm.row[c] THEN tm ELSE Retiming(placed, c, acc)
    BY DEF Step
  <1> HIDE DEF placed, row
  <1>6. CASE row = tm.row[c]
    BY <1>4, <1>5, <1>6 DEF row
  <1>7. CASE row # tm.row[c]
    BY <1>2, <1>3, <1>5, <1>7 DEF row
  <1> QED BY <1>6, <1>7

\* A step that is possible, and the same step back.
Possible(tm, c, step, back) ==
  /\ c \in Cells /\ step \in Int /\ back \in Int /\ step + back = 0
  /\ tm.row[c] + step \in 0 .. MaxRow /\ <<c, tm.row[c] + step>> \notin Holes
Went(moved, tm, c, step) ==
  Sound(moved) /\ moved.row = [tm.row EXCEPT ![c] = tm.row[c] + step]

LEMMA StepBack ==
  ASSUME NEW tm, Sound(tm), NEW c, NEW step, NEW back, Possible(tm, c, step, back),
         NEW moved, Went(moved, tm, c, step), NEW acc
  PROVE  Step(moved, c, back, acc).row = tm.row
  <1>1. tm.row \in [Cells -> 0 .. MaxRow] /\ tm.row[c] \in 0 .. MaxRow
        /\ <<c, tm.row[c]>> \notin Holes /\ c \in Cells /\ back \in Int
    BY DEF Sound, Legal, Possible
  <1>2. moved.row = [tm.row EXCEPT ![c] = tm.row[c] + step] /\ Sound(moved)
    BY DEF Went
  <1>3. moved.row[c] + back = tm.row[c]
    BY <1>1, <1>2, TimerAssumption DEF Possible
  <1>4. moved.row[c] + back \in 0 .. MaxRow /\ <<c, moved.row[c] + back>> \notin Holes
    BY <1>1, <1>3
  <1>5. NextRow(moved, c, back) = tm.row[c]
    <2>1. NextRow(moved, c, back) = moved.row[c] + back
      BY <1>1, <1>2, <1>4, NextRowFacts
    <2> QED BY <1>3, <2>1
  <1>6. Step(moved, c, back, acc).row = [moved.row EXCEPT ![c] = NextRow(moved, c, back)]
    BY <1>1, <1>2, StepSound
  <1> QED BY <1>1, <1>2, <1>5, <1>6

\* A trial of the sweep leaves legal rows.
LEMMA TriedSound ==
  ASSUME NEW tm, Sound(tm), NEW s, NEW step, s \in Cells => step \in Int
  PROVE  Sound(Tried(tm, s, step))
  <1>1. Sound(Step(tm, s, step, TRUE))
    BY StepSound
  <1>2. s \in Cells => -step \in Int
    OBVIOUS
  <1>3. Sound(Step(Step(tm, s, step, TRUE), s, -step, TRUE))
    BY <1>1, <1>2, StepSound
  <1> QED BY <1>3 DEF Tried

IsTried(f, tm, s, net, n) ==
  f = [k \in 0 .. n |->
         IF k = 0 THEN [tm |-> tm, sum |-> 0, step |-> 0] ELSE TryRow(f[k - 1], s, net, k - 1)]

LEMMA TriedExists ==
  ASSUME NEW tm, NEW s, NEW net, NEW n \in Nat
  PROVE  \E f : IsTried(f, tm, s, net, n)
  <1> DEFINE Bad == {m \in 0 .. n : ~ \E f : IsTried(f, tm, s, net, m)}
  <1> SUFFICES ASSUME Bad # {} PROVE FALSE
    OBVIOUS
  <1>1. PICK m \in Bad : \A k \in Bad : m <= k
    <2>1. Bad \in SUBSET Nat
      OBVIOUS
    <2> HIDE DEF Bad
    <2> QED BY <2>1, Least
  <1>2. m # 0
    <2>1. IsTried([k \in 0 .. 0 |-> [tm |-> tm, sum |-> 0, step |-> 0]], tm, s, net, 0)
      BY DEF IsTried
    <2> QED BY <2>1
  <1>3. m \in 1 .. n /\ m - 1 \in 0 .. n /\ m - 1 \notin Bad
    <2>1. m \in 1 .. n
      BY <1>2
    <2> HIDE DEF Bad
    <2> QED BY <1>1, <2>1
  <1>4. PICK g : IsTried(g, tm, s, net, m - 1)
    BY <1>3
  <1> DEFINE h == [k \in 0 .. m |->
                     IF k = 0 THEN [tm |-> tm, sum |-> 0, step |-> 0]
                     ELSE TryRow(g[k - 1], s, net, k - 1)]
  <1>5. \A k \in 0 .. m - 1 : k \in 0 .. m /\ h[k] = g[k]
    <2>1. \A k \in 0 .. m - 1 :
            g[k] = IF k = 0 THEN [tm |-> tm, sum |-> 0, step |-> 0]
                   ELSE TryRow(g[k - 1], s, net, k - 1)
      BY <1>4 DEF IsTried
    <2>2. \A k \in 0 .. m - 1 : k \in 0 .. m
      BY <1>3
    <2> QED BY <2>1, <2>2
  <1>6. \A k \in 0 .. m : k # 0 => k - 1 \in 0 .. m - 1
    BY <1>3
  <1>7. \A k \in 0 .. m : k # 0 => h[k - 1] = g[k - 1]
    BY <1>5, <1>6
  <1>8. IsTried(h, tm, s, net, m)
    BY <1>7 DEF IsTried
  <1> QED BY <1>8

LEMMA SweptSound ==
  ASSUME NEW tm, Sound(tm), NEW s, NEW net
  PROVE  /\ Sound(Swept(tm, s, net).tm)
         /\ s \in Cells => Swept(tm, s, net).step \in Int
  <1> DEFINE n == MaxRow + 1
             f == CHOOSE g : IsTried(g, tm, s, net, n)
  <1>1. n \in Nat
    BY TimerAssumption
  <1>2. IsTried(f, tm, s, net, n)
    BY <1>1, TriedExists
  <1>3. Swept(tm, s, net) = f[n]
    BY DEF Swept, IsTried
  <1> HIDE DEF f, n
  <1>4. \A k \in 0 .. n :
          f[k] = IF k = 0 THEN [tm |-> tm, sum |-> 0, step |-> 0]
                 ELSE TryRow(f[k - 1], s, net, k - 1)
    BY <1>2 DEF IsTried
  <1> DEFINE Good(x) == {"tm", "sum", "step"} \subseteq DOMAIN x /\ Sound(x.tm)
                        /\ (s \in Cells => x.step \in Int)
             Bad == {k \in 0 .. n : ~Good(f[k])}
  <1>5. ASSUME NEW x, Good(x), NEW row \in Int
        PROVE  Good(TryRow(x, s, net, row))
    <2> DEFINE step == row - x.tm.row[s]
               after == Tried(x.tm, s, step)
               sum == Around(Step(x.tm, s, step, TRUE), s, net)
    <2>1. s \in Cells => step \in Int
      BY <1>5, TimerAssumption DEF Sound, Legal
    <2>2. Sound(after)
      BY <1>5, <2>1, TriedSound
    <2>3. TryRow(x, s, net, row) =
            IF step = 0 THEN x
            ELSE IF sum < x.sum \/ x.step = 0 THEN [tm |-> after, sum |-> sum, step |-> step]
            ELSE [x EXCEPT !.tm = after]
      BY DEF TryRow
    <2> HIDE DEF step, after, sum
    <2>4. Good([tm |-> after, sum |-> sum, step |-> step])
      BY <2>1, <2>2
    <2>5. Good([x EXCEPT !.tm = after])
      BY <1>5, <2>2
    <2> HIDE DEF Good
    <2> QED BY <1>5, <2>3, <2>4, <2>5
  <1>6. Bad = {}
    <2> SUFFICES ASSUME Bad # {} PROVE FALSE
      OBVIOUS
    <2>1. PICK k \in Bad : \A m \in Bad : k <= m
      <3>1. Bad \in SUBSET Nat
        BY <1>1
      <3> HIDE DEF Bad
      <3> QED BY <3>1, Least
    <2>2. k # 0
      BY <1>1, <1>4
    <2>3. k \in 0 .. n /\ ~Good(f[k])
      OBVIOUS
    <2> HIDE DEF Good
    <2>4. k - 1 \in 0 .. n /\ k - 1 \notin Bad
      <3> HIDE DEF Bad
      <3> QED BY <1>1, <2>1, <2>2, <2>3
    <2>5. Good(f[k - 1])
      BY <2>4
    <2>6. Good(f[k])
      BY <1>4, <1>5, <2>2, <2>3, <2>4, <2>5
    <2> QED BY <2>3, <2>6
  <1>7. n \in 0 .. n
    BY <1>1
  <1>8. Good(f[n])
    BY <1>6, <1>7
  <1> QED BY <1>3, <1>8

-----------------------------------------------------------------------------
(* The invariant: every cell on a legal row; the entries to attack lead to *)
(* legal rows, one per cell; and the score is that of the cells in their   *)
(* rows wherever a step may use it without computing it anew: where it is  *)
(* compared, and during the attack as long as no trial was accepted.       *)

Passes == {"slew", "post"}
Stages == {"begin", "compare", "retime", "attack", "turns", "settle", "end"} \cup Passes

RowsLegal == Sound(t)
Staged == stage \in Stages /\ (todo # <<>> => stage \in Passes)

\* An entry leads to a row with a master.
Leads(tm, x) ==
  /\ x.cell \in Cells /\ x.step \in 1 .. MultiStep
  /\ tm.row[x.cell] + x.step <= MaxRow /\ <<x.cell, tm.row[x.cell] + x.step>> \notin Holes
OneEach(found) == \A x, y \in found : x.cell = y.cell => x = y
TargetsLead == stage = "turns" => OneEach(targets) /\ \A x \in targets : Leads(t, x)

Scored ==
  \/ stage \in {"compare", "attack", "end"}
  \/ stage \in {"turns", "settle"} /\ ~change
ScoreHolds == Scored => stats.row = t.row

RInv == RowsLegal /\ Staged /\ TargetsLead /\ ScoreHolds

-----------------------------------------------------------------------------
(* The steps, one lemma for each. *)

LEMMA CallTimerSound ==
  ASSUME NEW tm, Sound(tm)
  PROVE  Sound(CallTimer(tm)) /\ CallTimer(tm).row = tm.row
  <1>1. RowsKept(CallTimer(tm), tm)
    BY CallTimerKeeps DEF Sound
  <1> QED BY <1>1 DEF RowsKept, Sound

LEMMA CorrelateSound ==
  ASSUME NEW tm, Sound(tm)
  PROVE  Sound(CorrelatePT(tm)) /\ CorrelatePT(tm).row = tm.row
  <1>1. RowsKept(CorrelatePT(tm), tm)
    BY CorrelateKeeps DEF Sound
  <1> QED BY <1>1 DEF RowsKept, Sound

\* A design that is timed and scored: the score is that of its cells.
LEMMA MeasuredScores ==
  ASSUME NEW tm, Sound(tm), Measured(tm)
  PROVE  Sound(t') /\ t'.row = tm.row /\ stats'.row = t'.row
  BY DEF Measured, CalcStats

LEMMA BeginKeeps ==
  ASSUME RInv, Begin
  PROVE  RInv'
  <1>1. Sound(CorrelatePT(CallTimer(t))) /\ CorrelatePT(CallTimer(t)).row = t.row
    BY CallTimerSound, CorrelateSound DEF RInv, RowsLegal
  <1>2. Sound(t') /\ stats'.row = t'.row
    BY <1>1, MeasuredScores DEF Begin
  <1>3. stage' = "compare" /\ todo' = <<>>
    BY DEF Begin, RInv, Staged, Passes
  <1> HIDE DEF Begin
  <1> QED BY <1>2, <1>3 DEF RInv, RowsLegal, Sound, Stored, Legal, Staged, Stages, Passes, TargetsLead, ScoreHolds, Scored

\* During the slew repairs only the rows have to be legal.
LEMMA PassKeeps ==
  ASSUME RInv, stage \in Passes, stage' = stage, Sound(t)'
  PROVE  RInv'
  BY DEF RInv, RowsLegal, Staged, Stages, Passes, TargetsLead, ScoreHolds, Scored

LEMMA AtPass ==
  ASSUME RInv, NEW kind, At(kind), Working
  PROVE  stage \in Passes /\ stage' = stage
  BY DEF RInv, Staged, At, Working

LEMMA SettleKeeps ==
  ASSUME RInv, Settle
  PROVE  RInv'
  <1>1. Sound(CorrelatePT(CallTimer(t))) /\ CorrelatePT(CallTimer(t)).row = t.row
    BY CallTimerSound, CorrelateSound DEF RInv, RowsLegal
  <1>2. CASE change
    <2>1. Measured(CorrelatePT(CallTimer(t)))
      BY <1>2 DEF Settle
    <2>2. Sound(t') /\ stats'.row = t'.row
      BY <1>1, <2>1, MeasuredScores
    <2>3. stage' = "compare" /\ todo' = <<>>
      BY DEF Settle, RInv, Staged, Passes
    <2> QED BY <2>2, <2>3 DEF RInv, RowsLegal, Sound, Stored, Legal, Staged, Stages, Passes, TargetsLead, ScoreHolds, Scored
  <1>3. CASE ~change
    <2>1. UNCHANGED <<t, stats>>
      BY <1>3 DEF Settle
    <2>2. stats.row = t.row /\ Sound(t)
      BY <1>3 DEF RInv, ScoreHolds, Scored, Settle, RowsLegal
    <2>3. Sound(t') /\ stats'.row = t'.row
      BY <2>1, <2>2
    <2>4. stage' = "compare" /\ todo' = <<>>
      BY DEF Settle, RInv, Staged, Passes
    <2> QED BY <2>3, <2>4 DEF RInv, RowsLegal, Sound, Stored, Legal, Staged, Stages, Passes, TargetsLead, ScoreHolds, Scored
  <1> QED BY <1>2, <1>3

LEMMA NextRoundKeeps ==
  ASSUME RInv, NextRound
  PROVE  RInv'
  <1>1. UNCHANGED <<t, stats>>
    BY DEF NextRound
  <1>2. stats.row = t.row /\ Sound(t)
    BY DEF RInv, ScoreHolds, Scored, NextRound, RowsLegal
  <1>3. Sound(t') /\ stats'.row = t'.row
    BY <1>1, <1>2
  <1>4. stage' \in {"slew", "attack", "end"} /\ (todo' # <<>> => stage' = "slew")
    BY DEF NextRound
  <1> QED BY <1>3, <1>4 DEF RInv, RowsLegal, Sound, Stored, Legal, Staged, Stages, Passes, TargetsLead, ScoreHolds, Scored

LEMMA RetimeSlewKeeps ==
  ASSUME RInv, RetimeSlew
  PROVE  RInv'
  <1> DEFINE timed == IF closing /\ change THEN CorrelatePT(CallTimer(t)) ELSE CallTimer(t)
  <1>1. Sound(timed)
    BY CallTimerSound, CorrelateSound DEF RInv, RowsLegal
  <1>2. Measured(timed)
    BY DEF RetimeSlew
  <1>3. Sound(t') /\ stats'.row = t'.row
    BY <1>1, <1>2, MeasuredScores
  <1>4. stage' \in {"end", "attack"} /\ todo' = todo /\ todo = <<>>
    BY DEF RetimeSlew, RInv, Staged, Passes
  <1> QED BY <1>3, <1>4 DEF RInv, RowsLegal, Sound, Stored, Legal, Staged, Stages, Passes, TargetsLead, ScoreHolds, Scored

LEMMA LookKeeps ==
  ASSUME RInv, LookOut \/ ShrinkDone \/ LookIn \/ LookPost \/ SweepDone
  PROVE  RInv'
  <1>1. Working /\ UNCHANGED t /\ \E kind \in {"out", "shrink", "in", "post", "sweep"} : At(kind)
    BY DEF LookOut, ShrinkDone, LookIn, LookPost, SweepDone
  <1>2. stage \in Passes /\ stage' = stage
    BY <1>1, AtPass
  <1>3. Sound(t)'
    BY <1>1 DEF RInv, RowsLegal, Sound, Stored, Legal
  <1> QED BY <1>2, <1>3, PassKeeps

LEMMA StepDownUp ==
  ASSUME NEW tm, Sound(tm), NEW c, NEW acc
  PROVE  /\ Sound(Step(tm, c, 1, acc))
         /\ Sound(Step(tm, c, -1, acc))
  <1>1. \A step \in Int : Sound(Step(tm, c, step, acc))
    <2> TAKE step \in Int
    <2> QED BY StepSound
  <1>2. 1 \in Int /\ -1 \in Int
    OBVIOUS
  <1> QED BY <1>1, <1>2

LEMMA ShrinkKeeps ==
  ASSUME RInv, Shrink
  PROVE  RInv'
  <1> DEFINE s == Head(Head(todo).sinks)
  <1>1. PICK moved \in {IF s \in Frozen THEN t ELSE Step(t, s, -1, FALSE)} :
          t' = moved \/ t' = Step(moved, s, 1, FALSE)
    BY DEF Shrink
  <1>2. Sound(t)
    BY DEF RInv, RowsLegal
  <1> HIDE DEF s
  <1>3. Sound(moved)
    BY <1>1, <1>2, StepDownUp
  <1>4. Sound(Step(moved, s, 1, FALSE))
    BY <1>3, StepDownUp
  <1>5. Sound(t')
    BY <1>1, <1>3, <1>4
  <1>6. stage \in Passes /\ stage' = stage
    BY AtPass DEF Shrink
  <1> QED BY <1>5, <1>6, PassKeeps DEF Sound, Stored, Legal

LEMMA GrowTurnSound ==
  ASSUME Sound(t), NEW p, NEW payer, NEW sure, NEW again, GrowTurn(p, payer, sure, again)
  PROVE  Sound(t')
  <1> DEFINE d == p[1]
  <1>1. PICK up \in {Step(t, d, 1, FALSE)} :
        \E back \in {IF up.row # t.row THEN Step(up, d, -1, FALSE)
                     ELSE IF sure THEN Retiming(t, d, FALSE) ELSE t} :
          t' = back \/ t' = Retiming(Placed(back, d, NextRow(back, d, 1)), d, FALSE)
    BY DEF GrowTurn
  <1>2. PICK back \in {Step(up, d, -1, FALSE), Retiming(t, d, FALSE), t} :
          t' = back \/ t' = Retiming(Placed(back, d, NextRow(back, d, 1)), d, FALSE)
    BY <1>1
  <1> HIDE DEF d
  <1>3. Sound(up)
    BY <1>1, StepDownUp
  <1>4. Sound(Step(up, d, -1, FALSE)) /\ Sound(Retiming(t, d, FALSE))
    BY <1>3, StepDownUp, RetimingSound
  <1>5. Sound(back)
    BY <1>2, <1>4
  <1> DEFINE row == NextRow(back, d, 1)
             placed == Placed(back, d, row)
  <1>6. d \in Cells => row \in 0 .. MaxRow /\ <<d, row>> \notin Holes
    <2>1. \A step \in Int : d \in Cells =>
            NextRow(back, d, step) \in 0 .. MaxRow /\ <<d, NextRow(back, d, step)>> \notin Holes
      BY <1>5, NextRowFacts
    <2>2. 1 \in Int
      OBVIOUS
    <2> QED BY <2>1, <2>2
  <1> HIDE DEF row
  <1>7. Sound(placed)
    BY <1>5, <1>6, PlacedSound
  <1> HIDE DEF placed
  <1>8. Sound(Retiming(placed, d, FALSE))
    BY <1>7, RetimingSound
  <1> QED BY <1>2, <1>5, <1>8 DEF placed, row

LEMMA GrowKeeps ==
  ASSUME RInv, Grow \/ GrowIn
  PROVE  RInv'
  <1>1. stage \in Passes /\ stage' = stage
    BY AtPass DEF Grow, GrowIn
  <1>2. Sound(t)
    BY DEF RInv, RowsLegal
  <1>3. t' = t \/ \E p, payer, sure, again : GrowTurn(p, payer, sure, again)
    <2>1. CASE Grow
      BY <2>1 DEF Grow
    <2>2. CASE GrowIn
      BY <2>2 DEF GrowIn
    <2> QED BY <2>1, <2>2
  <1>4. Sound(t')
    BY <1>2, <1>3, GrowTurnSound
  <1> QED BY <1>1, <1>4, PassKeeps DEF Sound, Stored, Legal

LEMMA SweepKeeps ==
  ASSUME RInv, Sweep
  PROVE  RInv'
  <1> DEFINE p == Head(todo).pin
             s == Head(Head(todo).sinks)
  <1>1. PICK swept \in {Swept(t, s, p[1])} :
          t' \in {t, swept.tm, Step(swept.tm, s, swept.step, TRUE)}
    BY DEF Sweep
  <1>2. Sound(t) /\ Sound(swept.tm) /\ (s \in Cells => swept.step \in Int)
    BY <1>1, SweptSound DEF RInv, RowsLegal
  <1>3. Sound(Step(swept.tm, s, swept.step, TRUE))
    BY <1>2, StepSound
  <1>4. Sound(t')
    BY <1>1, <1>2, <1>3
  <1>5. stage \in Passes /\ stage' = stage
    BY AtPass DEF Sweep
  <1> QED BY <1>4, <1>5, PassKeeps DEF Sound, Stored, Legal

LEMMA PassDoneKeeps ==
  ASSUME RInv, PassDone
  PROVE  RInv'
  BY DEF PassDone, RInv, RowsLegal, Sound, Stored, Legal, Staged, Stages, Passes, TargetsLead,
         ScoreHolds, Scored

\* An entry of a cell leads to a legal row.
LEMMA EntriesLead ==
  ASSUME NEW tm, NEW c \in Cells, NEW x \in Entries(tm, c)
  PROVE  x.cell = c /\ Leads(tm, x)
  <1>1. PICK k \in 1 .. MultiStep :
          /\ x = [cell |-> c, step |-> k]
          /\ tm.row[c] + k <= MaxRow /\ <<c, tm.row[c] + k>> \notin Holes
    BY DEF Entries
  <1>2. x.cell = c /\ x.step = k
    BY <1>1
  <1> QED BY <1>1, <1>2 DEF Leads

\* What is ranked leads to legal rows.
LEMMA RankedLead ==
  ASSUME NEW tm, NEW found \in Ranked(tm)
  PROVE  OneEach(found) /\ \A x \in found : Leads(tm, x)
  <1>1. ASSUME NEW c \in Cells, NEW x \in Entries(tm, c)
        PROVE  Leads(tm, x)
    BY <1>1, EntriesLead
  <1> QED BY <1>1 DEF Ranked, OneEach

\* Leading depends on the rows only.
LEMMA LeadsByRow ==
  ASSUME NEW tm, NEW other, NEW x, Leads(tm, x), other.row[x.cell] = tm.row[x.cell]
  PROVE  Leads(other, x)
  BY DEF Leads

LEMMA AttackBeginKeeps ==
  ASSUME RInv, AttackBegin
  PROVE  RInv'
  <1>1. PICK found \in Ranked(t) :
          /\ targets' = found
          /\ \/ found = {} /\ stage' = "settle" /\ UNCHANGED <<t, stats>>
             \/ stage' = "turns" /\ (Measured(CallTimer(t)) \/ UNCHANGED <<t, stats>>)
    BY DEF AttackBegin
  <1>2. OneEach(found) /\ \A x \in found : Leads(t, x)
    BY RankedLead
  <1>3. Sound(t) /\ stats.row = t.row
    BY DEF RInv, RowsLegal, ScoreHolds, Scored, AttackBegin
  <1>4. Sound(t') /\ t'.row = t.row /\ stats'.row = t'.row
    <2>1. CASE Measured(CallTimer(t))
      BY <1>3, <2>1, CallTimerSound, MeasuredScores
    <2>2. CASE UNCHANGED <<t, stats>>
      BY <1>3, <2>2
    <2> QED BY <1>1, <2>1, <2>2
  <1>5. OneEach(targets)' /\ \A x \in targets' : Leads(t', x)
    BY <1>1, <1>2, <1>4, LeadsByRow DEF OneEach
  <1>6. todo' = <<>> /\ stage' \in {"turns", "settle"}
    BY <1>1 DEF AttackBegin, RInv, Staged, Passes
  <1> QED BY <1>4, <1>5, <1>6 DEF RInv, RowsLegal, Sound, Stored, Legal, Staged, Stages, Passes,
                                  TargetsLead, ScoreHolds, Scored, Leads

LEMMA AttackDoneKeeps ==
  ASSUME RInv, AttackDone
  PROVE  RInv'
  BY DEF AttackDone, RInv, RowsLegal, Sound, Stored, Legal, Staged, Stages, Passes, TargetsLead,
         ScoreHolds, Scored

\* A trial of the attack: the move it tries is possible, so one that is
\* refused leaves every cell in its row, and any other moves its cell only.
LEMMA AttemptSound ==
  ASSUME NEW tm, Sound(tm), NEW x, Leads(tm, x)
  PROVE  /\ Sound(Attempt(tm, x).tm)
         /\ ~Attempt(tm, x).taken => Attempt(tm, x).tm.row = tm.row
         /\ \A c \in Cells : c # x.cell => Attempt(tm, x).tm.row[c] = tm.row[c]
  <1> DEFINE c == x.cell
             step == x.step
             row == NextRow(tm, c, step)
             placed == Placed(tm, c, row)
             moved == Retiming(placed, c, FALSE)
             undone == Step(moved, c, -step, FALSE)
             restore == NearSlack(tm, c) > NearSlack(moved, c) /\ NearSlack(moved, c) < 0
  <1>1. c \in Cells /\ step \in Int /\ step # 0 /\ tm.row[c] \in 0 .. MaxRow /\ MaxRow \in Nat
        /\ tm.row[c] + step <= MaxRow /\ step > 0 /\ <<c, tm.row[c] + step>> \notin Holes
    BY RepairAssumption, TimerAssumption DEF Leads, Sound, Legal
  <1>2. tm.row[c] + step \in 0 .. MaxRow
    BY <1>1
  <1>3. row = tm.row[c] + step
    <2> HIDE DEF c, step
    <2> QED BY <1>1, <1>2, NextRowFacts DEF row
  <1>4. Sound(placed) /\ placed.row = [tm.row EXCEPT ![c] = row]
    <2> HIDE DEF c, row
    <2> QED BY <1>1, <1>2, <1>3, PlacedSound
  <1>5. Sound(moved) /\ moved.row = [tm.row EXCEPT ![c] = row]
    <2> HIDE DEF placed
    <2> QED BY <1>4, RetimingSound
  <1>6. Attempt(tm, x) = [taken |-> ~restore, tm |-> IF restore THEN undone ELSE moved]
    BY DEF Attempt, Judged
  <1> HIDE DEF moved, row, step, c
  <1>7. -step \in Int
    BY <1>1
  <1>8. Sound(undone)
    BY <1>5, <1>7, StepSound
  <1>9. undone.row = tm.row
    <2> DEFINE back == -step
    <2>1. Possible(tm, c, step, back) /\ Went(moved, tm, c, step)
      BY <1>1, <1>2, <1>3, <1>5, <1>7 DEF Possible, Went
    <2>2. undone = Step(moved, c, back, FALSE)
      OBVIOUS
    <2> HIDE DEF back, undone
    <2>3. \A acc : Step(moved, c, back, acc).row = tm.row
      BY <2>1, StepBack
    <2> QED BY <2>2, <2>3
  <1>10. \A d \in Cells : d # c => moved.row[d] = tm.row[d]
    BY <1>5 DEF Sound, Legal
  <1> HIDE DEF undone, restore
  <1>11. CASE restore
    <2>1. Attempt(tm, x) = [taken |-> FALSE, tm |-> undone]
      BY <1>6, <1>11
    <2>2. Attempt(tm, x).tm = undone
      BY <2>1
    <2> QED BY <1>8, <1>9, <2>2
  <1>12. CASE ~restore
    <2>1. Attempt(tm, x) = [taken |-> TRUE, tm |-> moved]
      BY <1>6, <1>12, Zenon
    <2>2. Attempt(tm, x).tm = moved /\ Attempt(tm, x).taken
      BY <2>1
    <2> QED BY <1>5, <1>10, <2>2 DEF c
  <1> QED BY <1>11, <1>12

LEMMA AttackTurnKeeps ==
  ASSUME RInv, AttackTurn
  PROVE  RInv'
  <1>1. Sound(t) /\ stage = "turns" /\ stage' = "turns" /\ todo' = todo /\ todo = <<>>
        /\ OneEach(targets) /\ (\A x \in targets : Leads(t, x)) /\ (~change => stats.row = t.row)
    BY DEF AttackTurn, RInv, RowsLegal, Staged, Passes, TargetsLead, ScoreHolds, Scored
  <1>2. PICK x \in targets : \E base \in {IF Stale THEN CallTimer(t) ELSE t} :
          /\ stats' = IF Stale THEN CalcStats(base) ELSE stats
          /\ \/ targets' \subseteq targets /\ t' = base /\ change' = change
             \/ \E try \in {Attempt(base, x)} :
                  /\ t' = try.tm
                  /\ \/ ~try.taken /\ targets' \subseteq targets /\ change' = change
                     \/ /\ try.taken /\ change'
                        /\ \E again \in Again(try.tm, x) :
                             targets' \subseteq (targets \ {x}) \cup again
    <2>1. \A tm, y : Accepted(y) = TRUE
      BY DEF Accepted
    <2> QED BY <2>1 DEF AttackTurn
  <1>3. PICK base : /\ base = IF Stale THEN CallTimer(t) ELSE t
                    /\ stats' = IF Stale THEN CalcStats(base) ELSE stats
                    /\ \/ targets' \subseteq targets /\ t' = base /\ change' = change
                       \/ \E try \in {Attempt(base, x)} :
                            /\ t' = try.tm
                            /\ \/ ~try.taken /\ targets' \subseteq targets /\ change' = change
                               \/ /\ try.taken /\ change'
                                  /\ \E again \in Again(try.tm, x) :
                                       targets' \subseteq (targets \ {x}) \cup again
    BY <1>2
  <1>4. Sound(base) /\ base.row = t.row
    BY <1>1, <1>3, CallTimerSound
  <1>5. ~change => stats'.row = base.row
    BY <1>1, <1>3, <1>4 DEF CalcStats
  <1>6. \A y \in targets : Leads(base, y)
    BY <1>1, <1>4, LeadsByRow
  <1>7. x \in targets /\ Leads(base, x)
    BY <1>6
  <1>8. SUFFICES /\ Sound(t') /\ OneEach(targets)' /\ \A y \in targets' : Leads(t', y)
                 /\ ~change' => stats'.row = t'.row
    BY <1>1, <1>8 DEF RInv, RowsLegal, Sound, Stored, Legal, Staged, Stages, Passes, TargetsLead,
                      ScoreHolds, Scored, Leads, OneEach
  <1>9. CASE targets' \subseteq targets /\ t' = base /\ change' = change
    BY <1>1, <1>4, <1>5, <1>6, <1>9 DEF OneEach
  <1>10. ASSUME NEW try \in {Attempt(base, x)}, t' = try.tm, ~try.taken,
                targets' \subseteq targets, change' = change
         PROVE  /\ Sound(t') /\ OneEach(targets)' /\ \A y \in targets' : Leads(t', y)
                /\ ~change' => stats'.row = t'.row
    <2>1. Sound(t') /\ t'.row = base.row
      BY <1>4, <1>7, <1>10, AttemptSound
    <2>2. \A y \in targets' : Leads(t', y)
      BY <1>6, <1>10, <2>1, LeadsByRow
    <2> QED BY <1>1, <1>5, <1>10, <2>1, <2>2 DEF OneEach
  <1>11. ASSUME NEW try \in {Attempt(base, x)}, t' = try.tm, change',
                NEW again \in Again(try.tm, x), targets' \subseteq (targets \ {x}) \cup again
         PROVE  /\ Sound(t') /\ OneEach(targets)' /\ \A y \in targets' : Leads(t', y)
                /\ ~change' => stats'.row = t'.row
    <2>1. Sound(t') /\ \A c \in Cells : c # x.cell => t'.row[c] = base.row[c]
      BY <1>4, <1>7, <1>11, AttemptSound
    <2>2. \A y \in targets \ {x} : y.cell # x.cell /\ y.cell \in Cells
      BY <1>1, <1>7 DEF OneEach, Leads
    <2>3. \A y \in targets \ {x} : Leads(t', y)
      BY <1>6, <2>1, <2>2, LeadsByRow
    <2>4. \A y \in again : y.cell = x.cell /\ Leads(t', y)
      <3>1. again \subseteq Entries(try.tm, x.cell)
        BY <1>11 DEF Again
      <3>2. x.cell \in Cells
        BY <1>7 DEF Leads
      <3> QED BY <1>11, <3>1, <3>2, EntriesLead
    <2>5. \A y, z \in again : y = z
      BY <1>11 DEF Again
    <2>6. OneEach(targets)'
      BY <1>1, <1>11, <2>2, <2>4, <2>5 DEF OneEach
    <2> QED BY <1>11, <2>1, <2>3, <2>4, <2>6
  <1> QED BY <1>3, <1>9, <1>10, <1>11

-----------------------------------------------------------------------------
(* The invariant holds. *)

LEMMA RInvInit == RepairInit => RInv
  <1> SUFFICES ASSUME RepairInit PROVE RInv
    OBVIOUS
  <1>1. PICK row \in [Cells -> 0 .. MaxRow] :
          (\A c \in Cells : <<c, row[c]>> \notin Holes) /\ t = Untimed(row)
    BY DEF RepairInit
  <1>2. Sound(t)
    BY <1>1 DEF Sound, Stored, Legal, Untimed
  <1>3. stage = "begin" /\ todo = <<>>
    BY DEF RepairInit
  <1> QED BY <1>2, <1>3 DEF RInv, RowsLegal, Staged, Stages, TargetsLead, ScoreHolds, Scored

LEMMA RInvStep == RInv /\ [RepairNext]_rvars => RInv'
  <1> SUFFICES ASSUME RInv, [RepairNext]_rvars PROVE RInv'
    OBVIOUS
  <1>1. CASE Begin
    BY <1>1, BeginKeeps
  <1>2. CASE LookOut \/ ShrinkDone \/ LookIn \/ LookPost \/ SweepDone
    BY <1>2, LookKeeps
  <1>3. CASE Shrink
    BY <1>3, ShrinkKeeps
  <1>4. CASE Grow \/ GrowIn
    BY <1>4, GrowKeeps
  <1>5. CASE Sweep
    BY <1>5, SweepKeeps
  <1>6. CASE PassDone
    BY <1>6, PassDoneKeeps
  <1>7. CASE RetimeSlew
    BY <1>7, RetimeSlewKeeps
  <1>8. CASE AttackBegin
    BY <1>8, AttackBeginKeeps
  <1>9. CASE AttackTurn
    BY <1>9, AttackTurnKeeps
  <1>10. CASE AttackDone
    BY <1>10, AttackDoneKeeps
  <1>11. CASE Settle
    BY <1>11, SettleKeeps
  <1>12. CASE NextRound
    BY <1>12, NextRoundKeeps
  <1>13. CASE UNCHANGED rvars
    BY <1>13 DEF rvars, RInv, RowsLegal, Sound, Stored, Legal, Staged, Stages, Passes, TargetsLead,
                 Leads, OneEach, ScoreHolds, Scored
  <1> QED BY <1>1, <1>2, <1>3, <1>4, <1>5, <1>6, <1>7, <1>8, <1>9, <1>10, <1>11, <1>12, <1>13
          DEF RepairNext, Repairs

(* The inductive invariant of one timing recovery.                         *)
THEOREM RepairInvariant == RepairSpec => []RInv
  BY RInvInit, RInvStep, PTL DEF RepairSpec

(* Whatever the repairs try, take back or keep, every cell stays on a row  *)
(* of its table that has a master (cell_resize's bounds and holes).        *)
THEOREM RowsStayLegal == RepairSpec => []Legal(t.row)
  <1>1. RInv => Legal(t.row)
    BY DEF RInv, RowsLegal, Sound
  <1> QED BY <1>1, RepairInvariant, PTL

(* Whenever the recovery compares the score with the best - before its     *)
(* iterations, after the slew repairs of one, after its attack and after   *)
(* the slew repairs that close the last one -, the score is that of the    *)
(* cells as they are: every refused trial is undone, and no repair keeps a *)
(* move without reporting a change.                                        *)
THEOREM ScoreOfTheseCells == RepairSpec => []ScoreCurrent
  <1>1. RInv => ScoreCurrent
    BY DEF RInv, ScoreHolds, Scored, ScoreCurrent
  <1> QED BY <1>1, RepairInvariant, PTL

=============================================================================
