---------------------------- MODULE LegalizeProofs ----------------------------
(***************************************************************************)
(* Legalization delivers a legal placement, for every number of cells, all *)
(* rows and all obstacles, in each row where the obstacles end on sites or *)
(* the greedy passes found a place for every cell; and each such row is    *)
(* padded, or is as Abacus left it.                                        *)
(*                                                                         *)
(* A row goes through three algorithms.  Abacus keeps its nodes in order   *)
(* and apart, off the sites.  Aligning could push a cell into an obstacle; *)
(* it does not, as no cell is pushed further than its place after Abacus   *)
(* or its place after the greedy passes, whichever is more to the right.   *)
(* And the padding pass, started over from a legal row, moves nothing.     *)
(***************************************************************************)
EXTENDS Legalize, FiniteSetTheorems, SequenceTheorems, TLAPS

-----------------------------------------------------------------------------
(* Numbers and sets.                                                       *)

LEMMA Least ==
  ASSUME NEW M \in SUBSET Nat, M # {}
  PROVE  \E m \in M : \A n \in M : m <= n
  <1>1. PICK m \in M : \A n \in M : ~ (<<n, m>> \in OpToRel(<, Nat))
    BY WFMin, NatLessThanWellFounded
  <1>2. \A n \in M : ~(n < m)
    BY <1>1 DEF OpToRel
  <1> QED BY <1>2

LEMMA LeastAbove ==
  ASSUME NEW a \in Int, NEW M \in SUBSET Int, M # {}, \A m \in M : a <= m
  PROVE  \E m \in M : \A n \in M : m <= n
  <1> DEFINE D == {d \in Nat : a + d \in M}
  <1>1. D # {}
    <2>1. PICK m \in M : a <= m
      OBVIOUS
    <2>2. m - a \in Nat /\ a + (m - a) = m
      BY <2>1
    <2> QED BY <2>2
  <1>2. PICK d \in D : \A e \in D : d <= e
    <2>1. D \in SUBSET Nat
      OBVIOUS
    <2> HIDE DEF D
    <2> QED BY <1>1, <2>1, Least
  <1>3. \A n \in M : n - a \in D /\ n \in Int
    OBVIOUS
  <1> QED BY <1>2, <1>3

LEMMA Greatest ==
  ASSUME NEW a \in Int, NEW M \in SUBSET Int, M # {}, \A m \in M : m <= a
  PROVE  \E m \in M : \A n \in M : n <= m
  <1> DEFINE D == {d \in Int : -d \in M}
  <1>1. PICK d \in D : \A e \in D : d <= e
    <2>1. D \in SUBSET Int
      OBVIOUS
    <2>2. \A d \in D : -a <= d
      OBVIOUS
    <2>3. D # {}
      <3>1. PICK m \in M : TRUE
        OBVIOUS
      <3>2. m \in Int /\ -m \in Int /\ -(-m) = m
        BY <3>1
      <3> QED BY <3>1, <3>2
    <2>4. -a \in Int
      OBVIOUS
    <2> HIDE DEF D
    <2> QED BY <2>1, <2>2, <2>3, <2>4, LeastAbove
  <1>2. -d \in M
    OBVIOUS
  <1>3. \A n \in M : n \in Int /\ -n \in D
    OBVIOUS
  <1>4. \A n \in M : n <= -d
    BY <1>1, <1>3
  <1> QED BY <1>2, <1>4

LEMMA MinFacts ==
  ASSUME NEW a \in Int, NEW M \in SUBSET Int, M # {}, \A m \in M : a <= m
  PROVE  Min(M) \in M /\ \A m \in M : Min(M) <= m
  BY LeastAbove DEF Min

LEMMA MaxFacts ==
  ASSUME NEW a \in Int, NEW M \in SUBSET Int, M # {}, \A m \in M : m <= a
  PROVE  Max(M) \in M /\ \A m \in M : m <= Max(M)
  <1>1. \E m \in M : \A n \in M : m >= n
    BY Greatest
  <1>2. Max(M) \in M /\ \A n \in M : Max(M) >= n
    BY <1>1 DEF Max
  <1> QED BY <1>2

LEMMA TwoNumbers ==
  ASSUME NEW a \in Int, NEW b \in Int
  PROVE  /\ Max({a, b}) = IF a <= b THEN b ELSE a
         /\ Min({a, b}) = IF a <= b THEN a ELSE b
  <1>1. \E m \in {a, b} : \A n \in {a, b} : m >= n
    OBVIOUS
  <1>2. \E m \in {a, b} : \A n \in {a, b} : m =< n
    OBVIOUS
  <1>3. Max({a, b}) \in {a, b} /\ \A n \in {a, b} : Max({a, b}) >= n
    BY <1>1 DEF Max
  <1>4. Min({a, b}) \in {a, b} /\ \A n \in {a, b} : Min({a, b}) =< n
    BY <1>2 DEF Min
  <1> QED BY <1>3, <1>4

LEMMA Divided ==
  ASSUME NEW v \in Int, NEW d \in Nat \ {0}
  PROVE  /\ v \div d \in Int
         /\ (v \div d) * d <= v
         /\ v < (v \div d) * d + d
  OBVIOUS

LEMMA Constants ==
  /\ Sites \in Nat /\ Sites > 0 /\ SiteW \in Nat /\ SiteW > 0
  /\ SiteH \in Nat /\ SiteH > 0 /\ Scale \in Nat /\ Scale > 0
  /\ Core \in Nat /\ Core > 0
  /\ \A c \in Cells : WidthOf(c) \in Nat /\ WidthOf(c) > 0 /\ W(c) \in Nat /\ W(c) > 0
  BY LegalizeAssumption DEF Core, W

LEMMA ScaledUp ==
  ASSUME NEW a \in Int, NEW b \in Int
  PROVE  /\ Scale * a \in Int /\ Scale * (a + b) = Scale * a + Scale * b
         /\ a * Scale = Scale * a
         /\ a <= b <=> Scale * a <= Scale * b
  <1>1. Scale \in Nat /\ Scale > 0
    BY Constants
  <1> QED BY <1>1

-----------------------------------------------------------------------------
(* Whole numbers of sites.                                                 *)

OnSite(v) == \E q \in Int : v = q * SiteW

LEMMA OnSiteFacts ==
  /\ OnSite(0) /\ OnSite(Core)
  /\ \A c \in Cells : OnSite(W(c))
  /\ \A a, b \in Int : OnSite(a) /\ OnSite(b) => OnSite(a + b) /\ OnSite(a - b)
  /\ \A a \in Int : OnSite(a) <=> a % SiteW = 0
  <1>1. SiteW \in Nat /\ SiteW > 0 /\ Sites \in Int /\ \A c \in Cells : WidthOf(c) \in Int
    BY Constants
  <1>2. OnSite(0) /\ OnSite(Core) /\ \A c \in Cells : OnSite(W(c))
    BY <1>1 DEF OnSite, Core, W
  <1>3. ASSUME NEW a \in Int, NEW b \in Int, OnSite(a), OnSite(b)
        PROVE  OnSite(a + b) /\ OnSite(a - b)
    <2>1. PICK p \in Int : a = p * SiteW
      BY <1>3 DEF OnSite
    <2>2. PICK q \in Int : b = q * SiteW
      BY <1>3 DEF OnSite
    <2>3. a + b = (p + q) * SiteW /\ a - b = (p - q) * SiteW /\ p + q \in Int /\ p - q \in Int
      BY <1>1, <2>1, <2>2
    <2> QED BY <2>3 DEF OnSite
  <1>4. ASSUME NEW a \in Int
        PROVE  OnSite(a) <=> a % SiteW = 0
    <2>1. ASSUME NEW q \in Int, a = q * SiteW PROVE a % SiteW = 0
      BY <1>1, <2>1
    <2>2. ASSUME a % SiteW = 0 PROVE a = (a \div SiteW) * SiteW /\ a \div SiteW \in Int
      BY <1>1, <2>2
    <2> QED BY <2>1, <2>2 DEF OnSite
  <1> QED BY <1>2, <1>3, <1>4

-----------------------------------------------------------------------------
(* Sorting: Ordered lists a finite set in a strict total order.            *)

Orders(before, S) ==
  /\ \A d \in S : <<d, d>> \notin before
  /\ \A d, e, f \in S : <<d, e>> \in before /\ <<e, f>> \in before => <<d, f>> \in before
  /\ \A d, e \in S : d # e => <<d, e>> \in before \/ <<e, d>> \in before

IsSorted(s, S, before) ==
  LET n == Cardinality(S) IN
  /\ n \in Nat /\ s \in [1..n -> S] /\ DOMAIN s = 1..n /\ Len(s) = n
  /\ \A e \in S : \E k \in 1..n : s[k] = e
  /\ \A i, j \in 1..n : i < j => <<s[i], s[j]>> \in before
  /\ \A i, j \in 1..n : s[i] = s[j] => i = j

LEMMA LenOf ==
  ASSUME NEW S, NEW n \in Nat, NEW s \in [1..n -> S]
  PROVE  s \in Seq(S) /\ Len(s) = n /\ DOMAIN s = 1..n
  OBVIOUS

LEMMA OrderedSorts ==
  ASSUME NEW S, IsFiniteSet(S), NEW before, Orders(before, S)
  PROVE  IsSorted(Ordered(S, before), S, before)
  <1> DEFINE n == Cardinality(S)
             Below(e) == {d \in S : <<d, e>> \in before}
             rank == [e \in S |-> Cardinality(Below(e))]
             s == Ordered(S, before)
  <1>1. n \in Nat
    BY FS_CardinalityType
  <1>2. \A e \in S : IsFiniteSet(Below(e)) /\ Cardinality(Below(e)) \in Nat
    BY FS_Subset, FS_CardinalityType
  <1>3. ASSUME NEW e \in S PROVE rank[e] \in 0..n - 1
    <2>1. Below(e) \in SUBSET S /\ Below(e) # S
      BY DEF Orders
    <2>2. Cardinality(Below(e)) <= n /\ Cardinality(Below(e)) # n
      BY <2>1, FS_Subset
    <2>3. Cardinality(Below(e)) \in Nat
      BY <1>2
    <2> HIDE DEF Below
    <2> QED BY <1>1, <2>2, <2>3
  <1>4. ASSUME NEW d \in S, NEW e \in S, <<d, e>> \in before PROVE rank[d] < rank[e]
    <2>1. Below(d) \in SUBSET Below(e)
      BY <1>4 DEF Orders
    <2>2. Below(d) # Below(e)
      BY <1>4 DEF Orders
    <2>3. /\ IsFiniteSet(Below(e))
          /\ Cardinality(Below(d)) \in Nat /\ Cardinality(Below(e)) \in Nat
      BY <1>2
    <2>4. Cardinality(Below(d)) <= Cardinality(Below(e)) /\ Cardinality(Below(d)) # Cardinality(Below(e))
      BY <2>1, <2>2, <2>3, FS_Subset
    <2> HIDE DEF Below
    <2> QED BY <2>3, <2>4
  <1>5. \A d, e \in S : rank[d] = rank[e] => d = e
    <2> SUFFICES ASSUME NEW d \in S, NEW e \in S, rank[d] = rank[e], d # e PROVE FALSE
      OBVIOUS
    <2>1. rank[d] < rank[e] \/ rank[e] < rank[d]
      BY <1>4 DEF Orders
    <2>2. rank[d] \in Int
      BY <1>1, <1>3
    <2> HIDE DEF rank
    <2> QED BY <2>1, <2>2
  <1>6. ASSUME NEW k \in 1..n PROVE \E e \in S : rank[e] = k - 1
    <2>1. rank \in [S -> 0..n - 1]
      BY <1>3
    <2>2. rank \in Injection(S, 0..n - 1)
      BY <1>5, <2>1 DEF Injection, IsInjective
    <2>3. IsFiniteSet(0..n - 1) /\ Cardinality(0..n - 1) = n
      <3>1. 0 \in Int /\ n - 1 \in Int /\ ~(0 > n - 1) /\ n - 1 - 0 + 1 = n
        BY <1>1
      <3> HIDE DEF n
      <3>2. IsFiniteSet(0..n - 1) /\ Cardinality(0..n - 1) = n - 1 - 0 + 1
        BY <3>1, FS_Interval
      <3> QED BY <3>1, <3>2
    <2>4. rank \in Surjection(S, 0..n - 1)
      BY <2>2, <2>3, FS_Injection
    <2>5. k - 1 \in 0..n - 1
      BY <1>1
    <2> HIDE DEF rank
    <2> QED BY <2>4, <2>5 DEF Surjection
  <1>7. DOMAIN s = 1..n
    BY DEF Ordered
  <1>8. ASSUME NEW k \in 1..n PROVE s[k] \in S /\ rank[s[k]] = k - 1
    <2>1. s[k] = CHOOSE e \in S : Cardinality(Below(e)) = k - 1
      BY DEF Ordered
    <2>2. \E e \in S : Cardinality(Below(e)) = k - 1
      BY <1>6
    <2>3. s[k] \in S /\ Cardinality(Below(s[k])) = k - 1
      <3> HIDE DEF Below, s
      <3> QED BY <2>1, <2>2
    <2> HIDE DEF Below, s
    <2> QED BY <2>3
  <1>9. s \in [1..n -> S] /\ DOMAIN s = 1..n
    <2>1. \A k \in 1..n : (CHOOSE e \in S : Cardinality({d \in S : <<d, e>> \in before}) = k - 1) \in S
      <3> TAKE k \in 1..n
      <3>1. \E e \in S : Cardinality({d \in S : <<d, e>> \in before}) = k - 1
        BY <1>6
      <3> QED BY <3>1
    <2> HIDE DEF n
    <2> QED BY <1>7, <2>1 DEF Ordered, n
  <1>10. Len(s) = n
    <2> HIDE DEF s, n
    <2> QED BY <1>1, <1>9, LenOf
  <1>11. ASSUME NEW e \in S PROVE \E k \in 1..n : s[k] = e
    <2>1. rank[e] + 1 \in 1..n /\ rank[e] + 1 - 1 = rank[e]
      BY <1>1, <1>3
    <2>2. PICK m \in 1..n : m = rank[e] + 1
      <3> HIDE DEF rank, n
      <3> QED BY <2>1
    <2>3. s[m] \in S /\ rank[s[m]] = m - 1
      BY <1>8
    <2>4. m - 1 = rank[e]
      <3>1. rank[e] \in Int
        BY <1>1, <1>3
      <3> HIDE DEF rank
      <3> QED BY <2>2, <3>1
    <2>5. s[m] = e
      <3> HIDE DEF rank, n, s
      <3> QED BY <1>5, <2>3, <2>4
    <2> HIDE DEF n, s
    <2> QED BY <2>5
  <1>12. ASSUME NEW i \in 1..n, NEW j \in 1..n, i < j PROVE <<s[i], s[j]>> \in before
    <2>1. s[i] \in S /\ s[j] \in S /\ rank[s[i]] = i - 1 /\ rank[s[j]] = j - 1
      BY <1>8
    <2>2. i \in Int /\ j \in Int
      BY <1>1
    <2>3. rank[s[i]] # rank[s[j]] /\ ~(rank[s[j]] < rank[s[i]])
      <3> HIDE DEF rank, n, s
      <3> QED BY <1>12, <2>1, <2>2
    <2> HIDE DEF rank, n, s
    <2> QED BY <1>4, <2>1, <2>3 DEF Orders
  <1>13. ASSUME NEW i \in 1..n, NEW j \in 1..n, s[i] = s[j] PROVE i = j
    <2>1. i - 1 = j - 1 /\ i \in Int /\ j \in Int
      <3>1. rank[s[i]] = i - 1 /\ rank[s[j]] = j - 1
        BY <1>8
      <3> HIDE DEF rank, s
      <3> QED BY <1>1, <1>13, <3>1
    <2> QED BY <2>1
  <1> HIDE DEF n, s
  <1>14. IsSorted(s, S, before)
    BY <1>1, <1>9, <1>10, <1>11, <1>12, <1>13 DEF IsSorted, n
  <1> QED BY <1>14 DEF s

-----------------------------------------------------------------------------
(* Steps is one step after the other.  The steps there are, by name.       *)

Turn(kind, p, s, k) ==
  IF kind = "greedy" THEN Insert(s, p[k])
  ELSE IF kind = "collapse" THEN TakeIn(p.nodes, p.row, s, p.from, p.to)
  ELSE IF kind = "place" THEN PlaceNode(p, s, k)
  ELSE IF kind = "align" THEN EndOf(p.nodes[k], p.at[k], s)
  ELSE Pushed(p.r, p.order[k], p.from[p.order[k]], s.end, p.gap)

IsAlong(f, kind, p, first, n) ==
  f = [k \in 0..n |-> IF k = 0 THEN first ELSE Turn(kind, p, f[k - 1], k)]

LEMMA AlongExists ==
  ASSUME NEW kind, NEW p, NEW first, NEW n \in Nat
  PROVE  \E f : IsAlong(f, kind, p, first, n)
  <1> DEFINE Bad == {m \in 0..n : ~ \E f : IsAlong(f, kind, p, first, m)}
  <1> SUFFICES ASSUME Bad # {} PROVE FALSE
    OBVIOUS
  <1>1. PICK m \in Bad : \A k \in Bad : m <= k
    <2>1. Bad \in SUBSET Nat
      OBVIOUS
    <2> HIDE DEF Bad
    <2> QED BY <2>1, Least
  <1>2. m # 0
    <2>1. IsAlong([k \in 0..0 |-> first], kind, p, first, 0)
      BY DEF IsAlong
    <2> QED BY <2>1
  <1>3. m \in 1..n /\ m - 1 \in 0..n /\ m - 1 \notin Bad
    <2>1. m \in 1..n
      BY <1>2
    <2> HIDE DEF Bad
    <2> QED BY <1>1, <2>1
  <1>4. PICK g : IsAlong(g, kind, p, first, m - 1)
    BY <1>3
  <1> DEFINE h == [k \in 0..m |-> IF k = 0 THEN first ELSE Turn(kind, p, g[k - 1], k)]
  <1>5. \A k \in 0..m - 1 : k \in 0..m /\ h[k] = g[k]
    <2>1. \A k \in 0..m - 1 : g[k] = IF k = 0 THEN first ELSE Turn(kind, p, g[k - 1], k)
      BY <1>4 DEF IsAlong
    <2>2. \A k \in 0..m - 1 : k \in 0..m
      BY <1>3
    <2> QED BY <2>1, <2>2
  <1>6. \A k \in 0..m : k # 0 => k - 1 \in 0..m - 1
    BY <1>3
  <1>7. \A k \in 0..m : k # 0 => h[k - 1] = g[k - 1]
    BY <1>5, <1>6
  <1>8. IsAlong(h, kind, p, first, m)
    BY <1>7 DEF IsAlong
  <1> QED BY <1>8

\* What a function along the steps does, without the function.
Follows(f, kind, p, first, n) ==
  f[0] = first /\ \A k \in 1..n : k - 1 \in 0..n /\ f[k] = Turn(kind, p, f[k - 1], k)

LEMMA AlongFollows ==
  ASSUME NEW kind, NEW p, NEW first, NEW n \in Nat
  PROVE  LET f == CHOOSE f : IsAlong(f, kind, p, first, n)
         IN Follows(f, kind, p, first, n) /\ DOMAIN f = 0..n
  <1>1. PICK f : f = (CHOOSE g : IsAlong(g, kind, p, first, n))
    OBVIOUS
  <1>2. f = [k \in 0..n |-> IF k = 0 THEN first ELSE Turn(kind, p, f[k - 1], k)]
    BY <1>1, AlongExists DEF IsAlong
  <1>3. \A k \in 1..n : k \in 0..n /\ k # 0 /\ k - 1 \in 0..n
    OBVIOUS
  <1>4. Follows(f, kind, p, first, n) /\ DOMAIN f = 0..n
    BY <1>2, <1>3 DEF Follows
  <1> QED BY <1>1, <1>4

-----------------------------------------------------------------------------
(* Runs are apart, and together they are the set.                          *)

LEMMA RunsApart ==
  ASSUME NEW S, NEW n \in Nat, NEW p \in Runs(S, n), NEW q \in Runs(S, n)
  PROVE  /\ p = <<p[1], p[2]>> /\ p[1] \in 0..n /\ p[2] \in 0..n /\ p[1] < p[2]
         /\ p = q \/ p[2] < q[1] \/ q[2] < p[1]
  <1>1. /\ p = <<p[1], p[2]>> /\ p[1] \in 0..n /\ p[2] \in 0..n /\ p[1] < p[2]
        /\ q = <<q[1], q[2]>> /\ q[1] \in 0..n /\ q[2] \in 0..n /\ q[1] < q[2]
    BY DEF Runs
  <1>2. /\ \A v \in Int : p[1] <= v /\ v < p[2] => v \in S
        /\ \A v \in Int : q[1] <= v /\ v < q[2] => v \in S
    BY <1>1 DEF Runs
  <1>3. p[1] - 1 \notin S /\ p[2] \notin S /\ q[1] - 1 \notin S /\ q[2] \notin S
    BY DEF Runs
  <1>4. p[1] - 1 \in Int /\ p[2] \in Int /\ q[1] - 1 \in Int /\ q[2] \in Int
    BY <1>1
  <1>5. /\ ~(p[1] <= q[2] /\ q[2] < p[2])
        /\ ~(q[1] <= p[2] /\ p[2] < q[2])
        /\ ~(p[1] <= q[1] - 1 /\ q[1] - 1 < p[2])
        /\ ~(q[1] <= p[1] - 1 /\ p[1] - 1 < q[2])
    BY <1>2, <1>3, <1>4
  <1>6. p[2] < q[1] \/ q[2] < p[1] \/ (p[1] = q[1] /\ p[2] = q[2])
    BY <1>1, <1>5
  <1> QED BY <1>1, <1>6

LEMMA RunsCover ==
  ASSUME NEW S, NEW n \in Nat, S \subseteq 0..n - 1
  PROVE  /\ \A b \in S : \E p \in Runs(S, n) : p[1] <= b /\ b < p[2]
         /\ \A p \in Runs(S, n) : \A b \in Int : p[1] <= b /\ b < p[2] => b \in S
         /\ IsFiniteSet(Runs(S, n))
  <1>1. ASSUME NEW b \in S PROVE \E p \in Runs(S, n) : p[1] <= b /\ b < p[2]
    <2> DEFINE L == {u \in 0..b : u..b \subseteq S}
               H == {v \in b + 1..n : v \notin S}
    <2>0. b \in Int /\ 0 <= b /\ b < n
      OBVIOUS
    <2>1. PICK u \in L : \A v \in L : u <= v
      <3>1. b \in L
        BY <2>0
      <3>2. L \in SUBSET Int /\ \A m \in L : 0 <= m
        BY <2>0
      <3>3. 0 \in Int /\ L # {}
        BY <3>1
      <3> HIDE DEF L
      <3> QED BY <3>2, <3>3, LeastAbove
    <2>2. PICK v \in H : \A m \in H : v <= m
      <3>1. n \in H
        BY <2>0
      <3>2. H \in SUBSET Int /\ \A m \in H : b <= m
        BY <2>0
      <3> HIDE DEF H
      <3> QED BY <2>0, <3>1, <3>2, LeastAbove
    <2>3. u - 1 \notin S
      <3> SUFFICES ASSUME u - 1 \in S PROVE FALSE
        OBVIOUS
      <3>1. u - 1 \in 0..b /\ \A m \in u - 1..b : m = u - 1 \/ m \in u..b
        BY <2>0
      <3>2. u - 1 \in L
        BY <3>1
      <3> QED BY <2>0, <2>1, <3>2
    <2>4. \A m \in u..v - 1 : m \in S
      <3> SUFFICES ASSUME NEW m \in u..v - 1, m \notin S PROVE FALSE
        OBVIOUS
      <3>1. CASE m <= b
        <4>1. m \in u..b
          BY <2>0, <3>1
        <4> QED BY <4>1
      <3>2. CASE m > b
        <4>1. m \in H /\ m < v
          BY <2>0, <3>2
        <4> QED BY <2>2, <4>1, <2>0
      <3> QED BY <2>0, <3>1, <3>2
    <2>5. u \in 0..n /\ v \in 0..n /\ u < v /\ v \notin S /\ u <= b /\ b < v
      BY <2>0
    <2>6. <<u, v>> \in Runs(S, n)
      BY <2>3, <2>4, <2>5 DEF Runs
    <2> QED BY <2>5, <2>6
  <1>2. \A p \in Runs(S, n) : \A b \in Int : p[1] <= b /\ b < p[2] => b \in S
    <2> TAKE p \in Runs(S, n)
    <2>1. p[1] \in Int /\ p[2] \in Int /\ p[1]..p[2] - 1 \subseteq S
      BY DEF Runs
    <2> QED BY <2>1
  <1>3. IsFiniteSet(Runs(S, n))
    <2>1. IsFiniteSet(0..n)
      BY FS_Interval
    <2>2. IsFiniteSet((0..n) \X (0..n))
      BY <2>1, FS_Product
    <2> QED BY <2>2, FS_Subset DEF Runs
  <1> QED BY <1>1, <1>2, <1>3

-----------------------------------------------------------------------------
(* The rows of an input.                                                   *)

LEMMA FiniteMax ==
  ASSUME NEW S \in SUBSET Int, IsFiniteSet(S), S # {}
  PROVE  \E m \in S : \A n \in S : n <= m
  <1> DEFINE HasMax(T) == \E m \in T : \A n \in T : n <= m
             Bad == {k \in Nat : \E T \in SUBSET S : T # {} /\ Cardinality(T) = k /\ ~HasMax(T)}
  <1> SUFFICES ASSUME ~HasMax(S) PROVE FALSE
    OBVIOUS
  <1>1. PICK k \in Bad : \A l \in Bad : k <= l
    <2>1. Bad \in SUBSET Nat
      OBVIOUS
    <2>2. Cardinality(S) \in Nat
      BY FS_CardinalityType
    <2>3. Bad # {}
      BY <2>2
    <2> HIDE DEF Bad
    <2> QED BY <2>1, <2>3, Least
  <1>2. PICK T \in SUBSET S : T # {} /\ Cardinality(T) = k /\ ~HasMax(T)
    OBVIOUS
  <1>3. PICK e \in T : TRUE
    BY <1>2
  <1>4. IsFiniteSet(T)
    BY FS_Subset
  <1>5. Cardinality(T \ {e}) = k - 1 /\ Cardinality(T \ {e}) \in Nat /\ k \in Nat
    BY <1>2, <1>3, <1>4, FS_RemoveElement, FS_CardinalityType
  <1>6. CASE T \ {e} = {}
    <2>1. \A n \in T : n = e /\ n \in Int
      BY <1>6
    <2>2. HasMax(T)
      BY <1>3, <2>1
    <2> QED BY <1>2, <2>2
  <1>7. CASE T \ {e} # {}
    <2>1. HasMax(T \ {e})
      <3>1. k - 1 \notin Bad
        <4> HIDE DEF Bad
        <4> QED BY <1>1, <1>5
      <3>2. T \ {e} \in SUBSET S /\ k - 1 \in Nat
        BY <1>5
      <3> HIDE DEF HasMax
      <3> QED BY <1>5, <1>7, <3>1, <3>2
    <2>2. PICK m \in T \ {e} : \A n \in T \ {e} : n <= m
      BY <2>1
    <2>3. e \in Int /\ m \in Int /\ \A n \in T : n \in Int /\ (n = e \/ n <= m)
      BY <1>3, <2>2
    <2>4. HasMax(T)
      BY <1>3, <2>3
    <2> QED BY <1>2, <2>4
  <1> QED BY <1>6, <1>7

LEMMA RowFacts ==
  ASSUME in \in Inputs
  PROVE  /\ NumRows \in Nat /\ NumRows > 0 /\ Rows = 0..NumRows - 1
         /\ \A s \in in.segs : s.row \in Rows
         /\ \A v \in Int : RowOf(v) \in Rows
         /\ \A r \in Rows : r \in Nat /\ r * SiteH \in Int /\ RowOf(r * SiteH) = r
  <1>0. SiteH \in Nat /\ SiteH > 0
    BY Constants
  <1>1. in.segs # {} /\ IsFiniteSet(in.segs) /\ \A s \in in.segs : s.row \in Nat
    BY InputAssumption
  <1> DEFINE S == {s.row : s \in in.segs}
             f == [s \in in.segs |-> s.row]
  <1>2. IsFiniteSet(S)
    <2>1. f \in Surjection(in.segs, S)
      BY DEF Surjection
    <2> HIDE DEF f, S
    <2> QED BY <1>1, <2>1, FS_Surjection
  <1>3. S \in SUBSET Nat /\ S # {}
    BY <1>1
  <1>4. Max(S) \in S /\ \A n \in S : n <= Max(S)
    <2>1. S \in SUBSET Int
      BY <1>3
    <2>2. \E m \in S : \A n \in S : m >= n
      <3> HIDE DEF S
      <3> QED BY <1>2, <1>3, <2>1, FiniteMax
    <2>3. Max(S) \in S /\ \A n \in S : Max(S) >= n
      <3> HIDE DEF S
      <3> QED BY <2>2 DEF Max
    <2> HIDE DEF S
    <2> QED BY <2>1, <2>3
  <1>5. NumRows = 1 + Max(S)
    BY DEF NumRows
  <1>6. NumRows \in Nat /\ NumRows > 0 /\ Rows = 0..NumRows - 1 /\ Max(S) \in Nat
    <2>1. Max(S) \in Nat
      <3> HIDE DEF S
      <3> QED BY <1>3, <1>4
    <2>2. NumRows \in Nat /\ NumRows > 0
      <3> HIDE DEF S
      <3> QED BY <1>5, <2>1
    <2> QED BY <2>1, <2>2 DEF Rows
  <1>7. \A s \in in.segs : s.row \in Rows
    <2>1. \A s \in in.segs : s.row \in S
      OBVIOUS
    <2> SUFFICES ASSUME NEW s \in in.segs PROVE s.row \in Rows
      OBVIOUS
    <2>2. s.row \in Nat /\ s.row <= Max(S)
      <3> HIDE DEF S
      <3> QED BY <1>1, <1>4, <2>1
    <2>3. s.row \in 0..NumRows - 1
      <3> HIDE DEF S
      <3> QED BY <1>5, <1>6, <2>2
    <2> QED BY <1>6, <2>3
  <1> DEFINE Q(v) == (2 * v + SiteH) \div (2 * SiteH)
  <1>8. ASSUME NEW v \in Int
        PROVE  RowOf(v) = IF Q(v) <= 0 THEN 0 ELSE IF Q(v) <= NumRows - 1 THEN Q(v) ELSE NumRows - 1
    <2>1. Q(v) \in Int
      BY <1>0
    <2>2. Min({NumRows - 1, Q(v)}) = IF NumRows - 1 <= Q(v) THEN NumRows - 1 ELSE Q(v)
      <3>1. NumRows - 1 \in Int
        BY <1>6
      <3> HIDE DEF Q
      <3> QED BY <2>1, <3>1, TwoNumbers
    <2>3. RowOf(v) = Max({0, Min({NumRows - 1, Q(v)})})
      BY DEF RowOf
    <2>4. \A m \in Int : Max({0, m}) = IF 0 <= m THEN m ELSE 0
      BY TwoNumbers
    <2>5. NumRows - 1 \in Int /\ NumRows - 1 >= 0
      BY <1>6
    <2> HIDE DEF Q
    <2>6. Min({NumRows - 1, Q(v)}) \in Int
      BY <2>1, <2>2, <2>5
    <2> QED BY <2>1, <2>2, <2>3, <2>4, <2>5, <2>6
  <1>9. \A v \in Int : RowOf(v) \in Rows
    <2> TAKE v \in Int
    <2>1. Q(v) \in Int
      BY <1>0
    <2> HIDE DEF Q
    <2> QED BY <1>6, <1>8, <2>1
  <1>10. ASSUME NEW r \in Rows
         PROVE  r \in Nat /\ r * SiteH \in Int /\ RowOf(r * SiteH) = r
    <2>1. r \in Nat /\ r <= NumRows - 1 /\ r * SiteH \in Int
      BY <1>0, <1>6
    <2>2. Q(r * SiteH) = r
      <3> DEFINE d == 2 * SiteH
                 q == Q(r * SiteH)
      <3>1. d \in Nat \ {0} /\ 2 * (r * SiteH) + SiteH \in Int
        BY <1>0, <2>1
      <3>2. q \in Int /\ q * d <= 2 * (r * SiteH) + SiteH /\ 2 * (r * SiteH) + SiteH < q * d + d
        BY <3>1, Divided
      <3>3. 2 * (r * SiteH) = r * d /\ SiteH < d
        BY <1>0, <2>1
      <3>4. q * d < (r + 1) * d /\ r * d < (q + 1) * d
        <4> HIDE DEF q
        <4> QED BY <1>0, <2>1, <3>1, <3>2, <3>3
      <3>5. \A a, b \in Int : a * d < b * d => a < b
        BY <1>0
      <3>6. q < r + 1 /\ r < q + 1
        <4> HIDE DEF q, d
        <4> QED BY <2>1, <3>2, <3>4, <3>5
      <3>7. q = r
        <4> HIDE DEF q, d
        <4> QED BY <2>1, <3>2, <3>6
      <3> QED BY <3>7
    <2> HIDE DEF Q
    <2> QED BY <1>6, <1>8, <2>1, <2>2
  <1> QED BY <1>6, <1>7, <1>9, <1>10

LEMMA ClampFacts ==
  ASSUME NEW v \in Int, NEW limit \in Int
  PROVE  Clamp(v, limit) \in Nat
  <1>1. Min({v, limit}) \in Int
    BY TwoNumbers
  <1>2. Max({0, Min({v, limit})}) \in Nat
    BY <1>1, TwoNumbers
  <1> QED BY <1>2 DEF Clamp

LEMMA StartFacts ==
  ASSUME in \in Inputs, NEW c \in Cells
  PROVE  /\ StartX(c) \in Nat /\ StartY(c) \in Nat
         /\ in.x[c] \in Int /\ in.y[c] \in Int /\ in.pad \in Nat
  <1>1. in.x[c] \in Int /\ in.y[c] \in Int /\ in.pad \in Nat
    BY InputAssumption
  <1>2. Core - W(c) \in Int /\ (NumRows - 1) * SiteH \in Int
    <2>1. NumRows - 1 \in Int /\ SiteH \in Int /\ Core \in Int /\ W(c) \in Int
      BY RowFacts, Constants
    <2> QED BY <2>1
  <1> QED BY <1>1, <1>2, ClampFacts DEF StartX, StartY

LEMMA BlockedFacts ==
  ASSUME NEW r
  PROVE  /\ Blocked(r) \subseteq 0..Core - 1
         /\ IsFiniteSet(Obstacles(r))
         /\ \A o \in Obstacles(r) :
              /\ o = <<o[1], o[2]>> /\ o[1] \in 0..Core /\ o[2] \in 0..Core /\ o[1] < o[2]
              /\ \A b \in Int : o[1] <= b /\ b < o[2] => b \in Blocked(r)
              /\ \A p \in Obstacles(r) : o = p \/ o[2] < p[1] \/ p[2] < o[1]
         /\ \A b \in Blocked(r) : \E o \in Obstacles(r) : o[1] <= b /\ b < o[2]
  <1>1. Blocked(r) \subseteq 0..Core - 1
    BY DEF Blocked
  <1>2. Core \in Nat
    BY Constants
  <1> QED BY <1>1, <1>2, RunsCover, RunsApart DEF Obstacles

-----------------------------------------------------------------------------
(* The nodes of a row, from left to right.                                 *)

NodeOk(r, m) ==
  /\ m.x \in Int /\ m.w \in Nat /\ m.w > 0 /\ m.cell \in Nat
  /\ m.cell = 0 => <<m.x, m.x + m.w>> \in Obstacles(r)
  /\ m.cell # 0 => m.cell \in InRow(r) /\ m.x = x[m.cell] /\ m.w = W(m.cell)

Centre(m) == 2 * m.x + m.w

IsRow(r, nodes) ==
  /\ Len(nodes) \in Nat /\ DOMAIN nodes = 1..Len(nodes)
  /\ \A k \in 1..Len(nodes) : NodeOk(r, nodes[k])
  /\ \A c \in InRow(r) : \E k \in 1..Len(nodes) : nodes[k].cell = c
  /\ \A o \in Obstacles(r) : \E k \in 1..Len(nodes) :
       nodes[k].cell = 0 /\ nodes[k].x = o[1] /\ nodes[k].w = o[2] - o[1]
  /\ \A i, j \in 1..Len(nodes) : i < j => Centre(nodes[i]) <= Centre(nodes[j])
  /\ \A i, j \in 1..Len(nodes) : nodes[i].cell = nodes[j].cell /\ nodes[i].cell # 0 => i = j
  /\ \A i, j \in 1..Len(nodes) : i < j /\ nodes[i].cell = 0 /\ nodes[j].cell = 0 =>
       nodes[i].x + nodes[i].w <= nodes[j].x

LEMMA NodesSorted ==
  ASSUME in \in Inputs, x \in [Cells -> Int], NEW r
  PROVE  IsRow(r, Nodes(r))
  <1> DEFINE cells == {[cell |-> c, x |-> x[c], w |-> W(c)] : c \in InRow(r)}
             fixed == {[cell |-> 0, x |-> o[1], w |-> o[2] - o[1]] : o \in Obstacles(r)}
             all == cells \cup fixed
             before == {p \in all \X all :
               \/ Centre(p[1]) < Centre(p[2])
               \/ /\ Centre(p[1]) = Centre(p[2]) /\ p[1].cell # 0
                  /\ p[2].cell = 0 \/ p[1].cell < p[2].cell}
             s == Nodes(r)
  <1>1. s = Ordered(all, before)
    BY DEF Nodes, Centre
  <1>2. InRow(r) \in SUBSET Cells /\ IsFiniteSet(InRow(r)) /\ \A c \in Cells : c \in Nat /\ c # 0
    BY LegalizeAssumption, FS_Subset DEF InRow
  <1>3. IsFiniteSet(all)
    <2>1. IsFiniteSet(cells)
      <3> DEFINE f == [c \in InRow(r) |-> [cell |-> c, x |-> x[c], w |-> W(c)]]
      <3>1. f \in Surjection(InRow(r), cells)
        BY DEF Surjection
      <3> HIDE DEF f, cells
      <3> QED BY <1>2, <3>1, FS_Surjection
    <2>2. IsFiniteSet(fixed)
      <3> DEFINE f == [o \in Obstacles(r) |-> [cell |-> 0, x |-> o[1], w |-> o[2] - o[1]]]
      <3>1. f \in Surjection(Obstacles(r), fixed)
        BY DEF Surjection
      <3> HIDE DEF f, fixed
      <3> QED BY <3>1, BlockedFacts, FS_Surjection
    <2> HIDE DEF cells, fixed
    <2> QED BY <2>1, <2>2, FS_Union
  <1>4. ASSUME NEW m \in all PROVE NodeOk(r, m)
    <2>1. CASE m \in cells
      <3>1. PICK c \in InRow(r) : m = [cell |-> c, x |-> x[c], w |-> W(c)]
        BY <2>1
      <3>2. c \in Cells /\ c \in Nat /\ c # 0 /\ W(c) \in Nat /\ W(c) > 0 /\ x[c] \in Int
        BY <1>2, Constants
      <3> QED BY <3>1, <3>2 DEF NodeOk
    <2>2. CASE m \in fixed
      <3>1. PICK o \in Obstacles(r) : m = [cell |-> 0, x |-> o[1], w |-> o[2] - o[1]]
        BY <2>2
      <3>2. o = <<o[1], o[2]>> /\ o[1] \in 0..Core /\ o[2] \in 0..Core /\ o[1] < o[2] /\ Core \in Nat
        BY BlockedFacts, Constants
      <3>3. o[1] \in Int /\ o[2] \in Int /\ o[2] - o[1] \in Nat /\ o[2] - o[1] > 0
            /\ o[1] + (o[2] - o[1]) = o[2]
        BY <3>2
      <3> QED BY <3>1, <3>2, <3>3 DEF NodeOk
    <2> QED BY <2>1, <2>2
  <1>5. ASSUME NEW m \in all, NEW n \in all, m.cell = n.cell
        PROVE  m = n \/ (m.cell = 0 /\ (m.x + m.w < n.x \/ n.x + n.w < m.x))
    <2>1. CASE m \in cells /\ n \in cells
      BY <1>5, <2>1
    <2>2. CASE m \in fixed /\ n \in fixed
      <3>1. PICK o \in Obstacles(r) : m = [cell |-> 0, x |-> o[1], w |-> o[2] - o[1]]
        BY <2>2
      <3>2. PICK p \in Obstacles(r) : n = [cell |-> 0, x |-> p[1], w |-> p[2] - p[1]]
        BY <2>2
      <3>3. /\ o = p \/ o[2] < p[1] \/ p[2] < o[1]
            /\ o[1] \in 0..Core /\ o[2] \in 0..Core /\ p[1] \in 0..Core /\ p[2] \in 0..Core
        BY BlockedFacts
      <3>4. /\ o[1] \in Int /\ o[2] \in Int /\ p[1] \in Int /\ p[2] \in Int
            /\ o[1] + (o[2] - o[1]) = o[2] /\ p[1] + (p[2] - p[1]) = p[2]
        BY <3>3, Constants
      <3> QED BY <3>1, <3>2, <3>3, <3>4
    <2>3. CASE (m \in cells /\ n \in fixed) \/ (m \in fixed /\ n \in cells)
      BY <1>2, <1>5, <2>3
    <2> QED BY <2>1, <2>2, <2>3
  <1>6. \A m \in all : Centre(m) \in Int /\ m.cell \in Int /\ m.x \in Int /\ m.w \in Int /\ m.w > 0
    <2> TAKE m \in all
    <2>0. NodeOk(r, m)
      BY <1>4
    <2> HIDE DEF all
    <2>1. m.cell \in Int /\ m.x \in Int /\ m.w \in Int /\ m.w > 0
      BY <2>0 DEF NodeOk
    <2> QED BY <2>1 DEF Centre
  <1>7. Orders(before, all)
    <2>1. \A m \in all : <<m, m>> \notin before
      <3> HIDE DEF all
      <3> QED BY <1>6
    <2>2. \A m, n, k \in all : <<m, n>> \in before /\ <<n, k>> \in before => <<m, k>> \in before
      <3> HIDE DEF all
      <3> QED BY <1>6
    <2>3. ASSUME NEW m \in all, NEW n \in all, m # n
          PROVE  <<m, n>> \in before \/ <<n, m>> \in before
      <3>1. m.cell = n.cell => Centre(m) # Centre(n)
        <4> SUFFICES ASSUME m.cell = n.cell PROVE Centre(m) # Centre(n)
          OBVIOUS
        <4>1. m.x + m.w < n.x \/ n.x + n.w < m.x
          BY <1>5, <2>3
        <4> HIDE DEF all
        <4> QED BY <1>6, <4>1 DEF Centre
      <3>2. /\ Centre(m) \in Int /\ Centre(n) \in Int /\ m.cell \in Nat /\ n.cell \in Nat
        BY <1>6, <1>4 DEF NodeOk
      <3> HIDE DEF all
      <3> QED BY <2>3, <3>1, <3>2
    <2> HIDE DEF before, all
    <2> QED BY <2>1, <2>2, <2>3 DEF Orders
  <1>8. IsSorted(s, all, before)
    <2> HIDE DEF all, before, s
    <2> QED BY <1>1, <1>3, <1>7, OrderedSorts
  <1> DEFINE n == Cardinality(all)
  <1>9. /\ n \in Nat /\ DOMAIN s = 1..n /\ Len(s) = n
        /\ \A k \in 1..n : s[k] \in all
        /\ \A e \in all : \E k \in 1..n : s[k] = e
        /\ \A i, j \in 1..n : i < j => <<s[i], s[j]>> \in before
        /\ \A i, j \in 1..n : s[i] = s[j] => i = j
    <2> HIDE DEF all, before, s
    <2> QED BY <1>8 DEF IsSorted
  <1>10. \A k \in 1..n : NodeOk(r, s[k])
    <2> HIDE DEF all, s, n
    <2> QED BY <1>4, <1>9
  <1>11. \A i, j \in 1..n : i < j => Centre(s[i]) <= Centre(s[j])
    <2> SUFFICES ASSUME NEW i \in 1..n, NEW j \in 1..n, i < j PROVE Centre(s[i]) <= Centre(s[j])
      OBVIOUS
    <2>1. <<s[i], s[j]>> \in before /\ s[i] \in all /\ s[j] \in all
      <3> HIDE DEF before, s, all
      <3> QED BY <1>9
    <2> HIDE DEF s, all
    <2> QED BY <1>6, <2>1
  <1>12. \A c \in InRow(r) : \E k \in 1..n : s[k].cell = c
    <2> SUFFICES ASSUME NEW c \in InRow(r) PROVE \E k \in 1..n : s[k].cell = c
      OBVIOUS
    <2> DEFINE m == [cell |-> c, x |-> x[c], w |-> W(c)]
    <2>1. m \in all /\ m.cell = c
      OBVIOUS
    <2> HIDE DEF m, all, s, n
    <2> QED BY <1>9, <2>1
  <1>13. \A o \in Obstacles(r) : \E k \in 1..n :
           s[k].cell = 0 /\ s[k].x = o[1] /\ s[k].w = o[2] - o[1]
    <2> SUFFICES ASSUME NEW o \in Obstacles(r)
                 PROVE  \E k \in 1..n : s[k].cell = 0 /\ s[k].x = o[1] /\ s[k].w = o[2] - o[1]
      OBVIOUS
    <2> DEFINE m == [cell |-> 0, x |-> o[1], w |-> o[2] - o[1]]
    <2>1. m \in all /\ m.cell = 0 /\ m.x = o[1] /\ m.w = o[2] - o[1]
      OBVIOUS
    <2> HIDE DEF m, all, s, n
    <2> QED BY <1>9, <2>1
  <1>14. \A i, j \in 1..n : s[i].cell = s[j].cell /\ s[i].cell # 0 => i = j
    <2> HIDE DEF all, s, n
    <2> QED BY <1>5, <1>9
  <1>15. \A i, j \in 1..n : i < j /\ s[i].cell = 0 /\ s[j].cell = 0 => s[i].x + s[i].w <= s[j].x
    <2> SUFFICES ASSUME NEW i \in 1..n, NEW j \in 1..n, i < j, s[i].cell = 0, s[j].cell = 0
                 PROVE  s[i].x + s[i].w <= s[j].x
      OBVIOUS
    <2>1. s[i] \in all /\ s[j] \in all /\ Centre(s[i]) <= Centre(s[j]) /\ i # j
      <3>1. i # j
        BY <1>9
      <3> HIDE DEF all, s, n
      <3> QED BY <1>9, <1>11, <3>1
    <2>2. s[i] # s[j]
      <3> HIDE DEF all, s, n
      <3> QED BY <1>9, <2>1
    <2>3. s[i].x + s[i].w < s[j].x \/ s[j].x + s[j].w < s[i].x
      <3> HIDE DEF all, s, n
      <3> QED BY <1>5, <2>1, <2>2
    <2> HIDE DEF all, s, n
    <2> QED BY <1>6, <2>1, <2>3 DEF Centre
  <1> HIDE DEF s, n
  <1>16. IsRow(r, s)
    BY <1>9, <1>10, <1>11, <1>12, <1>13, <1>14, <1>15 DEF IsRow
  <1> QED BY <1>16 DEF s

-----------------------------------------------------------------------------
(* Abacus keeps the nodes of a row in order and apart.                     *)

From(nodes, k) ==
  Scale * Max({0} \cup {nodes[j].x + nodes[j].w : j \in {j \in 1..k - 1 : nodes[j].cell = 0}})
To(nodes, k) ==
  Scale * Min({Core} \cup {nodes[j].x : j \in {j \in k + 1..Len(nodes) : nodes[j].cell = 0}})

\* How wide a node is in the units of the optimal positions.
Ext(nodes, j) == Scale * nodes[j].w

LEMMA FixedNode ==
  ASSUME NEW r, NEW m, NodeOk(r, m), m.cell = 0
  PROVE  /\ m.x \in Int /\ m.w \in Int /\ m.x + m.w \in Int
         /\ 0 <= m.x /\ m.w > 0 /\ m.x + m.w <= Core
  <1> DEFINE o == <<m.x, m.x + m.w>>
  <1>1. o \in Obstacles(r) /\ m.w > 0 /\ m.w \in Int /\ m.x \in Int
    BY DEF NodeOk
  <1>2. o[1] \in 0..Core /\ o[2] \in 0..Core
    <2> HIDE DEF o
    <2> QED BY <1>1, BlockedFacts
  <1>3. o[1] = m.x /\ o[2] = m.x + m.w
    OBVIOUS
  <1> HIDE DEF o
  <1> QED BY <1>1, <1>2, <1>3, Constants

LEMMA Bounds ==
  ASSUME NEW r, NEW nodes, IsRow(r, nodes), NEW k \in 1..Len(nodes)
  PROVE  /\ From(nodes, k) \in Int /\ 0 <= From(nodes, k)
         /\ To(nodes, k) \in Int /\ To(nodes, k) <= Scale * Core
         /\ \A j \in 1..k - 1 : nodes[j].cell = 0 =>
              Scale * (nodes[j].x + nodes[j].w) <= From(nodes, k)
         /\ \A j \in k + 1..Len(nodes) : nodes[j].cell = 0 => To(nodes, k) <= Scale * nodes[j].x
  <1> DEFINE before == {j \in 1..k - 1 : nodes[j].cell = 0}
             after == {j \in k + 1..Len(nodes) : nodes[j].cell = 0}
             ends == {0} \cup {nodes[j].x + nodes[j].w : j \in before}
             starts == {Core} \cup {nodes[j].x : j \in after}
  <1>0. Core \in Int /\ 0 <= Core /\ Len(nodes) \in Nat /\ k \in Int
    BY Constants DEF IsRow
  <1>1. \A j \in before \cup after :
          /\ nodes[j].x \in Int /\ nodes[j].w \in Int /\ nodes[j].x + nodes[j].w \in Int
          /\ 0 <= nodes[j].x /\ nodes[j].w > 0 /\ nodes[j].x + nodes[j].w <= Core
    <2> TAKE j \in before \cup after
    <2>1. j \in 1..Len(nodes) /\ nodes[j].cell = 0
      BY <1>0
    <2>2. NodeOk(r, nodes[j])
      BY <2>1 DEF IsRow
    <2> QED BY <2>1, <2>2, FixedNode
  <1>2. Max(ends) \in ends /\ \A m \in ends : m <= Max(ends)
    <2>1. ends \in SUBSET Int /\ ends # {} /\ \A m \in ends : m <= Core
      BY <1>0, <1>1
    <2> HIDE DEF ends
    <2> QED BY <1>0, <2>1, MaxFacts
  <1>3. Min(starts) \in starts /\ \A m \in starts : Min(starts) <= m
    <2>1. starts \in SUBSET Int /\ starts # {} /\ \A m \in starts : 0 <= m
      BY <1>0, <1>1
    <2> HIDE DEF starts
    <2> QED BY <1>0, <2>1, MinFacts
  <1>4. /\ Max(ends) \in Int /\ 0 <= Max(ends) /\ Min(starts) \in Int /\ Min(starts) <= Core
        /\ \A j \in before : nodes[j].x + nodes[j].w \in Int /\ nodes[j].x + nodes[j].w <= Max(ends)
        /\ \A j \in after : nodes[j].x \in Int /\ Min(starts) <= nodes[j].x
    <2>1. /\ ends \in SUBSET Int /\ 0 \in ends
          /\ starts \in SUBSET Int /\ Core \in starts
          /\ \A j \in before : nodes[j].x + nodes[j].w \in ends
          /\ \A j \in after : nodes[j].x \in starts
      BY <1>0, <1>1
    <2> HIDE DEF ends, starts
    <2> QED BY <1>1, <1>2, <1>3, <2>1
  <1>5. From(nodes, k) = Scale * Max(ends) /\ To(nodes, k) = Scale * Min(starts)
    BY DEF From, To
  <1> DEFINE a == Max(ends)
             b == Min(starts)
  <1>6. /\ Scale * a \in Int /\ 0 <= Scale * a /\ Scale * b \in Int /\ Scale * b <= Scale * Core
        /\ \A j \in before : Scale * (nodes[j].x + nodes[j].w) <= Scale * a
        /\ \A j \in after : Scale * b <= Scale * nodes[j].x
    <2>1. /\ a \in Int /\ 0 <= a /\ b \in Int /\ b <= Core
          /\ \A j \in before : nodes[j].x + nodes[j].w \in Int /\ nodes[j].x + nodes[j].w <= a
          /\ \A j \in after : nodes[j].x \in Int /\ b <= nodes[j].x
      BY <1>4
    <2>2. Scale \in Nat /\ Scale > 0 /\ Scale * 0 = 0
      BY Constants
    <2>3. \A v, w \in Int : v <= w => Scale * v <= Scale * w /\ Scale * v \in Int
      BY <2>2
    <2> HIDE DEF a, b, before, after
    <2> QED BY <1>0, <2>1, <2>2, <2>3
  <1> HIDE DEF ends, starts
  <1> QED BY <1>5, <1>6

\* A cluster that ends with node k, and has no obstacle in it.
IsCluster(nodes, cl, k) ==
  /\ cl = [first |-> cl.first, last |-> cl.last, q |-> cl.q, e |-> cl.e, w |-> cl.w,
           off |-> cl.off, x |-> cl.x]
  /\ cl.first \in 1..k /\ cl.last = k
  /\ cl.q \in Int /\ cl.e \in Nat /\ cl.e > 0 /\ cl.w \in Int /\ cl.x \in Int
  /\ \A j \in cl.first..k :
       /\ cl.off[j] \in Nat /\ cl.off[j] + Ext(nodes, j) <= cl.w /\ nodes[j].cell # 0
  /\ \A i, j \in cl.first..k : i < j => cl.off[i] + Ext(nodes, i) <= cl.off[j]
  /\ cl.off[k] + Ext(nodes, k) = cl.w

LEMMA ClusterSettles ==
  ASSUME NEW nodes, NEW cl, NEW k \in Nat, IsCluster(nodes, cl, k), NEW from \in Int, NEW to \in Int
  PROVE  LET c == Settled(cl, from, to) IN
         IsCluster(nodes, c, k) /\ c.first = cl.first /\ from <= c.x
  <1> DEFINE v == Max({Min({(Scale * cl.q) \div cl.e, to - cl.w}), from})
             c == Settled(cl, from, to)
  <1>1. v \in Int /\ from <= v
    <2> DEFINE d == (Scale * cl.q) \div cl.e
               g == to - cl.w
               u == Min({d, g})
    <2>1. d \in Int /\ g \in Int
      <3>1. Scale * cl.q \in Int /\ cl.e \in Nat \ {0} /\ cl.w \in Int
        BY Constants DEF IsCluster
      <3>2. (Scale * cl.q) \div cl.e \in Int
        BY <3>1, Divided
      <3> QED BY <3>1, <3>2
    <2>2. u \in Int
      <3> HIDE DEF d, g
      <3> QED BY <2>1, TwoNumbers
    <2> HIDE DEF u
    <2>3. Max({u, from}) = IF u <= from THEN from ELSE u
      BY <2>2, TwoNumbers
    <2>4. v = Max({u, from})
      BY DEF u
    <2> HIDE DEF v
    <2> QED BY <2>2, <2>3, <2>4
  <1>2. c = [first |-> cl.first, last |-> cl.last, q |-> cl.q, e |-> cl.e, w |-> cl.w,
             off |-> cl.off, x |-> v]
    <2>1. c = [cl EXCEPT !.x = v]
      BY DEF Settled
    <2> HIDE DEF c, v
    <2> QED BY <2>1 DEF IsCluster
  <1> HIDE DEF c, v
  <1>3. IsCluster(nodes, c, k)
    BY <1>1, <1>2 DEF IsCluster
  <1>4. c.first = cl.first /\ from <= c.x
    BY <1>1, <1>2
  <1> QED BY <1>3, <1>4 DEF c

LEMMA ClustersMerge ==
  ASSUME NEW nodes, NEW k \in Nat, NEW a, NEW b, IsCluster(nodes, b, k),
         IsCluster(nodes, a, b.first - 1), \A j \in 1..k : Ext(nodes, j) \in Nat
  PROVE  LET c == MergeCluster(a, b) IN IsCluster(nodes, c, k) /\ c.first = a.first
  <1> DEFINE c == MergeCluster(a, b)
             o == [j \in a.first..k |-> IF j < b.first THEN a.off[j] ELSE a.w + b.off[j]]
             q == a.q + b.q - (b.e * a.w) \div Scale
             m == b.first - 1
  <1>1. /\ a.first \in 1..m /\ b.first \in 1..k /\ m \in Int /\ a.first \in Int /\ b.first \in Int
        /\ b.last = k /\ a.first <= k /\ m < k /\ 1 <= a.first /\ a.first <= m /\ m = b.first - 1
    <2>1. a.first \in 1..m /\ b.first \in 1..k /\ b.last = k
      BY DEF IsCluster
    <2> QED BY <2>1
  <1>2. c = [first |-> a.first, last |-> k, q |-> q, e |-> a.e + b.e, w |-> a.w + b.w,
             off |-> o, x |-> a.x]
    BY <1>1 DEF MergeCluster
  <1>3. q \in Int /\ a.e + b.e \in Nat /\ a.e + b.e > 0 /\ a.w + b.w \in Int /\ a.x \in Int
    <2>1. /\ a.q \in Int /\ b.q \in Int /\ a.e \in Nat /\ b.e \in Nat /\ a.e > 0
          /\ a.w \in Int /\ b.w \in Int /\ a.x \in Int
      BY DEF IsCluster
    <2>2. b.e * a.w \in Int /\ Scale \in Nat \ {0}
      BY <2>1, Constants
    <2>3. (b.e * a.w) \div Scale \in Int
      BY <2>2, Divided
    <2> QED BY <2>1, <2>3
  <1>4. /\ \A j \in a.first..m : /\ j \in 1..k /\ j < b.first /\ j \in a.first..k /\ a.off[j] \in Nat
                                 /\ a.off[j] + Ext(nodes, j) <= a.w
                                 /\ nodes[j].cell # 0
        /\ \A j \in b.first..k : /\ j \in 1..k /\ ~(j < b.first) /\ j \in a.first..k /\ b.off[j] \in Nat
                                 /\ b.off[j] + Ext(nodes, j) <= b.w
                                 /\ nodes[j].cell # 0
        /\ \A i, j \in a.first..m : i < j => a.off[i] + Ext(nodes, i) <= a.off[j]
        /\ \A i, j \in b.first..k : i < j => b.off[i] + Ext(nodes, i) <= b.off[j]
        /\ b.off[k] + Ext(nodes, k) = b.w
        /\ a.off[m] + Ext(nodes, m) = a.w
        /\ a.w \in Int /\ b.w \in Int /\ m \in a.first..m
    BY <1>1 DEF IsCluster
  <1>5. \A j \in a.first..k : j \in a.first..m \/ j \in b.first..k
    BY <1>1
  <1>6. 0 <= a.w /\ \A j \in b.first..k : 0 <= b.off[j] /\ b.off[j] \in Int
    <2>1. m \in 1..k /\ a.off[m] \in Nat /\ a.off[m] + Ext(nodes, m) = a.w
      <3> HIDE DEF m
      <3> QED BY <1>4
    <2>2. 0 <= a.w
      BY <1>4, <2>1
    <2>3. \A j \in b.first..k : 0 <= b.off[j] /\ b.off[j] \in Int
      BY <1>4
    <2> QED BY <2>2, <2>3
  <1> HIDE DEF q, m, c
  <1>7. /\ \A j \in a.first..m : o[j] = a.off[j]
        /\ \A j \in b.first..k : o[j] = a.w + b.off[j]
    BY <1>4
  <1> HIDE DEF o
  <1>8. ASSUME NEW j \in a.first..k
        PROVE  o[j] \in Nat /\ o[j] + Ext(nodes, j) <= a.w + b.w /\ nodes[j].cell # 0
    <2>1. CASE j \in a.first..m
      <3>1. b.w >= 0
        <4>1. b.off[k] + Ext(nodes, k) = b.w /\ k \in b.first..k
          BY <1>1, <1>4
        <4> QED BY <1>4, <1>6, <4>1
      <3>2. o[j] = a.off[j] /\ a.off[j] \in Nat /\ a.off[j] + Ext(nodes, j) <= a.w /\ nodes[j].cell # 0
            /\ Ext(nodes, j) \in Int
        BY <1>4, <1>7, <2>1
      <3> QED BY <1>4, <3>1, <3>2
    <2>2. CASE j \in b.first..k
      <3>1. o[j] = a.w + b.off[j] /\ b.off[j] \in Nat /\ b.off[j] + Ext(nodes, j) <= b.w
            /\ nodes[j].cell # 0 /\ Ext(nodes, j) \in Int
        BY <1>4, <1>7, <2>2
      <3> QED BY <1>4, <1>6, <3>1
    <2> QED BY <1>5, <2>1, <2>2
  <1>9. ASSUME NEW i \in a.first..k, NEW j \in a.first..k, i < j
        PROVE  o[i] + Ext(nodes, i) <= o[j]
    <2>1. CASE j \in a.first..m
      <3>1. i \in a.first..m
        BY <1>1, <1>9, <2>1
      <3> QED BY <1>4, <1>7, <1>9, <2>1, <3>1
    <2>2. CASE i \in a.first..m /\ j \in b.first..k
      <3>1. /\ o[i] = a.off[i] /\ a.off[i] + Ext(nodes, i) <= a.w /\ a.off[i] \in Int
            /\ o[j] = a.w + b.off[j] /\ 0 <= b.off[j] /\ b.off[j] \in Int /\ Ext(nodes, i) \in Int
        BY <1>4, <1>6, <1>7, <2>2
      <3> QED BY <1>4, <3>1
    <2>3. CASE i \in b.first..k
      <3>1. j \in b.first..k
        BY <1>1, <1>9, <2>3
      <3>2. /\ o[i] = a.w + b.off[i] /\ o[j] = a.w + b.off[j] /\ b.off[i] + Ext(nodes, i) <= b.off[j]
            /\ b.off[i] \in Int /\ b.off[j] \in Int /\ Ext(nodes, i) \in Int
        BY <1>4, <1>7, <1>9, <2>3, <3>1
      <3> QED BY <1>4, <3>2
    <2> QED BY <1>5, <2>1, <2>2, <2>3
  <1>10. o[k] + Ext(nodes, k) = a.w + b.w
    <2>1. k \in b.first..k
      BY <1>1
    <2>2. o[k] = a.w + b.off[k] /\ b.off[k] \in Int /\ Ext(nodes, k) \in Int
      BY <1>4, <1>7, <2>1
    <2> QED BY <1>4, <2>2
  <1>11. a.first \in 1..k
    BY <1>1
  <1>12. IsCluster(nodes, c, k)
    BY <1>2, <1>3, <1>8, <1>9, <1>10, <1>11 DEF IsCluster
  <1>13. c.first = a.first
    BY <1>2
  <1> QED BY <1>12, <1>13 DEF c

\* In row everything before node k is in place: obstacles stop at from.
RowBefore(nodes, row, k, from) ==
  \A j \in 1..k - 1 :
    /\ row.at[j] \in Int
    /\ nodes[j].cell = 0 => row.at[j] + Ext(nodes, j) <= from
    /\ nodes[j].cell # 0 => IsCluster(nodes, row.cl[j], j)

Stable(nodes, row, cl) ==
  cl.first > 1 => row.at[cl.first - 1] + Ext(nodes, cl.first - 1) <= cl.x

LEMMA TakesIn ==
  ASSUME NEW nodes, NEW row, NEW k \in Nat, NEW from \in Int, NEW to \in Int, NEW cl,
         IsCluster(nodes, cl, k), from <= cl.x, RowBefore(nodes, row, k, from),
         \A j \in 1..k : Ext(nodes, j) \in Nat
  PROVE  LET c == TakeIn(nodes, row, cl, from, to) IN
         /\ IsCluster(nodes, c, k) /\ from <= c.x
         /\ (Stable(nodes, row, c) /\ c.first = cl.first) \/ c.first < cl.first
  <1> DEFINE c == TakeIn(nodes, row, cl, from, to)
             m == cl.first - 1
             a == row.cl[m]
             Into == cl.first > 1 /\ row.at[m] + Ext(nodes, m) > cl.x
  <1>1. /\ cl.first \in 1..k /\ cl.first \in Int /\ cl.x \in Int
        /\ cl.first > 1 => m \in 1..k - 1 /\ m \in 1..k
    BY DEF IsCluster
  <1>2. c = IF Into THEN Settled(MergeCluster(a, cl), from, to) ELSE cl
    BY DEF TakeIn, Ext
  <1>3. CASE ~Into
    <2>1. Stable(nodes, row, cl)
      <3> SUFFICES ASSUME cl.first > 1 PROVE row.at[m] + Ext(nodes, m) <= cl.x
        BY DEF Stable
      <3>1. row.at[m] \in Int /\ Ext(nodes, m) \in Int
        <4>1. m \in 1..k - 1 /\ m \in 1..k
          BY <1>1
        <4> HIDE DEF m
        <4>2. Ext(nodes, m) \in Nat
          BY <4>1
        <4> QED BY <4>1, <4>2 DEF RowBefore
      <3>2. ~(row.at[m] + Ext(nodes, m) > cl.x)
        BY <1>3
      <3> HIDE DEF m
      <3> QED BY <1>1, <3>1, <3>2
    <2>2. c = cl
      BY <1>2, <1>3
    <2> HIDE DEF c
    <2>3. IsCluster(nodes, c, k) /\ from <= c.x /\ Stable(nodes, row, c) /\ c.first = cl.first
      BY <2>1, <2>2
    <2> QED BY <2>3 DEF c
  <1>4. CASE Into
    <2>1. m \in 1..k - 1 /\ cl.first > 1
      BY <1>1, <1>4
    <2>2. nodes[m].cell # 0
      <3> SUFFICES ASSUME nodes[m].cell = 0 PROVE FALSE
        OBVIOUS
      <3>1. row.at[m] \in Int /\ row.at[m] + Ext(nodes, m) <= from
        <4> HIDE DEF m
        <4> QED BY <2>1 DEF RowBefore
      <3>2. row.at[m] + Ext(nodes, m) > cl.x
        BY <1>4
      <3>3. Ext(nodes, m) \in Int
        <4>1. m \in 1..k
          BY <1>1, <2>1
        <4>2. Ext(nodes, m) \in Nat
          <5> HIDE DEF m
          <5> QED BY <4>1
        <4> QED BY <4>2
      <3> HIDE DEF m
      <3> QED BY <1>1, <3>1, <3>2, <3>3
    <2>3. IsCluster(nodes, a, cl.first - 1)
      <3>1. \A j \in 1..k - 1 : nodes[j].cell # 0 => IsCluster(nodes, row.cl[j], j)
        BY DEF RowBefore
      <3> QED BY <2>1, <2>2, <3>1
    <2> DEFINE b == MergeCluster(a, cl)
    <2>4. IsCluster(nodes, b, k) /\ b.first = a.first
      <3> HIDE DEF a
      <3> QED BY <2>3, ClustersMerge
    <2>5. IsCluster(nodes, Settled(b, from, to), k) /\ Settled(b, from, to).first = b.first
          /\ from <= Settled(b, from, to).x
      <3> HIDE DEF b
      <3> QED BY <2>4, ClusterSettles
    <2>6. a.first < cl.first
      <3>1. a.first \in 1..m
        BY <2>3 DEF IsCluster
      <3> HIDE DEF a
      <3> QED BY <1>1, <3>1
    <2>7. c = Settled(b, from, to)
      BY <1>2, <1>4
    <2> HIDE DEF a, b, c
    <2>8. IsCluster(nodes, c, k) /\ from <= c.x /\ c.first < cl.first
      BY <2>4, <2>5, <2>6, <2>7
    <2> QED BY <2>8 DEF c
  <1> QED BY <1>3, <1>4

LEMMA Collapsed ==
  ASSUME NEW nodes, NEW row, NEW k \in Nat, NEW from \in Int, NEW to \in Int, NEW cl,
         IsCluster(nodes, cl, k), cl.first = k, RowBefore(nodes, row, k, from),
         \A j \in 1..k : Ext(nodes, j) \in Nat
  PROVE  LET c == Collapse(nodes, row, cl, from, to) IN
         IsCluster(nodes, c, k) /\ from <= c.x /\ Stable(nodes, row, c)
  <1> DEFINE p == [nodes |-> nodes, row |-> row, from |-> from, to |-> to]
             first == Settled(cl, from, to)
             n == k - 1
             f == CHOOSE g : IsAlong(g, "collapse", p, first, n)
  <1>1. k >= 1 /\ n \in Nat
    BY DEF IsCluster
  <1>2. Collapse(nodes, row, cl, from, to) = f[n]
    BY DEF Collapse, Steps, IsAlong, Turn
  <1>3. f[0] = first /\ \A m \in 1..n : m - 1 \in 0..n /\ f[m] = TakeIn(nodes, row, f[m - 1], from, to)
    <2>1. Follows(f, "collapse", p, first, n)
      <3> HIDE DEF first, n, p
      <3> QED BY <1>1, AlongFollows
    <2> HIDE DEF f, first, n
    <2> QED BY <2>1 DEF Follows, Turn
  <1> DEFINE Good(m) == /\ IsCluster(nodes, f[m], k) /\ from <= f[m].x
                        /\ Stable(nodes, row, f[m]) \/ f[m].first <= k - m
             Bad == {m \in 0..n : ~Good(m)}
  <1>4. Good(0)
    <2>1. IsCluster(nodes, first, k) /\ first.first = k /\ from <= first.x
      BY ClusterSettles
    <2> HIDE DEF f, first
    <2> QED BY <1>3, <2>1
  <1>5. ASSUME NEW m \in 1..n, Good(m - 1) PROVE Good(m)
    <2> HIDE DEF f
    <2> DEFINE b == f[m - 1]
               c == f[m]
    <2>1. c = TakeIn(nodes, row, b, from, to)
      BY <1>3
    <2>2. IsCluster(nodes, b, k) /\ from <= b.x /\ (Stable(nodes, row, b) \/ b.first <= k - (m - 1))
      BY <1>5
    <2>3. /\ IsCluster(nodes, c, k) /\ from <= c.x
          /\ (Stable(nodes, row, c) /\ c.first = b.first) \/ c.first < b.first
      <3> HIDE DEF b, c
      <3> QED BY <2>1, <2>2, TakesIn
    <2>4. Stable(nodes, row, b) => c = b
      <3> SUFFICES ASSUME Stable(nodes, row, b) PROVE c = b
        OBVIOUS
      <3>1. b.first > 1 => /\ row.at[b.first - 1] \in Int /\ Ext(nodes, b.first - 1) \in Int
                           /\ row.at[b.first - 1] + Ext(nodes, b.first - 1) <= b.x
        <4> SUFFICES ASSUME b.first > 1
                     PROVE  /\ row.at[b.first - 1] \in Int /\ Ext(nodes, b.first - 1) \in Int
                            /\ row.at[b.first - 1] + Ext(nodes, b.first - 1) <= b.x
          OBVIOUS
        <4>1. b.first - 1 \in 1..k - 1 /\ b.first - 1 \in 1..k
          BY <2>2 DEF IsCluster
        <4> DEFINE j == b.first - 1
        <4>2. j \in 1..k - 1 /\ j \in 1..k
          BY <4>1
        <4>3. row.at[j] \in Int /\ Ext(nodes, j) \in Nat
          <5> HIDE DEF j
          <5> QED BY <4>2 DEF RowBefore
        <4> QED BY <4>3 DEF Stable
      <3>2. b.x \in Int
        BY <2>2 DEF IsCluster
      <3>3. ~(b.first > 1 /\ row.at[b.first - 1] + Ext(nodes, b.first - 1) > b.x)
        <4> HIDE DEF b
        <4> QED BY <3>1, <3>2
      <3> HIDE DEF b, c
      <3> QED BY <2>1, <3>3 DEF TakeIn, Ext
    <2>5. b.first \in Int /\ c.first \in Int /\ m \in Int
      BY <1>1, <2>2, <2>3 DEF IsCluster
    <2>6. Stable(nodes, row, c) \/ c.first <= k - m
      <3> HIDE DEF b, c
      <3> QED BY <2>2, <2>3, <2>4, <2>5
    <2> QED BY <2>3, <2>6
  <1>6. Bad = {}
    <2> SUFFICES ASSUME Bad # {} PROVE FALSE
      OBVIOUS
    <2>1. PICK m \in Bad : \A l \in Bad : m <= l
      <3>1. Bad \in SUBSET Nat
        OBVIOUS
      <3> HIDE DEF Bad
      <3> QED BY <3>1, Least
    <2>2. m # 0
      BY <1>4
    <2>3. m \in 1..n /\ m - 1 \in 0..n /\ ~(m <= m - 1)
      BY <1>1, <2>2
    <2>4. m - 1 \notin Bad
      <3> HIDE DEF Bad
      <3> QED BY <2>1, <2>3
    <2>5. Good(m - 1) /\ ~Good(m)
      BY <2>3, <2>4
    <2> HIDE DEF Good, f
    <2> QED BY <1>5, <2>3, <2>5
  <1>7. Good(n)
    <2>1. n \in 0..n /\ n \notin Bad
      BY <1>1, <1>6
    <2> HIDE DEF Good
    <2> QED BY <2>1
  <1> HIDE DEF f
  <1> DEFINE c == f[n]
  <1>8. IsCluster(nodes, c, k) /\ from <= c.x /\ (Stable(nodes, row, c) \/ c.first <= k - n)
    BY <1>7
  <1>9. Stable(nodes, row, c)
    <2>1. c.first \in Int
      BY <1>8 DEF IsCluster
    <2>2. c.first <= 1 => Stable(nodes, row, c)
      BY <2>1 DEF Stable
    <2> HIDE DEF c
    <2> QED BY <1>8, <2>1, <2>2
  <1>10. Collapse(nodes, row, cl, from, to) = c
    BY <1>2
  <1> HIDE DEF c
  <1> QED BY <1>8, <1>9, <1>10

\* The first k nodes are in place: in order and apart, obstacles where they are,
\* and nothing reaches past the core or into an obstacle to come.
InPlace(nodes, row, k) ==
  /\ \A j \in 1..k :
       /\ row.at[j] \in Int /\ 0 <= row.at[j] /\ row.at[j] + Ext(nodes, j) <= Scale * Core
       /\ nodes[j].cell = 0 => row.at[j] = Scale * nodes[j].x
       /\ nodes[j].cell # 0 => IsCluster(nodes, row.cl[j], j)
  /\ \A i, j \in 1..k : i < j => row.at[i] + Ext(nodes, i) <= row.at[j]
  /\ \A i \in 1..k : \A j \in k + 1..Len(nodes) :
       nodes[j].cell = 0 => row.at[i] + Ext(nodes, i) <= Scale * nodes[j].x

LEMMA Extents ==
  ASSUME NEW r, NEW nodes, IsRow(r, nodes)
  PROVE  \A j \in 1..Len(nodes) :
           /\ Ext(nodes, j) \in Nat /\ 0 < Ext(nodes, j)
           /\ nodes[j].x \in Int /\ nodes[j].w \in Int /\ nodes[j].w > 0
           /\ Scale * nodes[j].x \in Int
           /\ Scale * (nodes[j].x + nodes[j].w) = Scale * nodes[j].x + Ext(nodes, j)
  <1> TAKE j \in 1..Len(nodes)
  <1>1. nodes[j].x \in Int /\ nodes[j].w \in Nat /\ nodes[j].w > 0
    <2>1. NodeOk(r, nodes[j])
      BY DEF IsRow
    <2> QED BY <2>1 DEF NodeOk
  <1> DEFINE a == nodes[j].x
             b == nodes[j].w
  <1>2. Scale \in Nat /\ Scale > 0
    BY Constants
  <1>3. Scale * a \in Int /\ Scale * b \in Nat /\ 0 < Scale * b /\ Scale * (a + b) = Scale * a + Scale * b
    <2>1. a \in Int /\ b \in Nat /\ b > 0
      BY <1>1
    <2> HIDE DEF a, b
    <2> QED BY <1>2, <2>1
  <1> QED BY <1>1, <1>3 DEF Ext

LEMMA FixedPlaced ==
  ASSUME NEW r, NEW nodes, IsRow(r, nodes), NEW k \in 1..Len(nodes), nodes[k].cell = 0,
         NEW row, InPlace(nodes, row, k - 1), NEW next,
         \A j \in 1..k : /\ next.at[j] = IF j < k THEN row.at[j] ELSE Scale * nodes[k].x
                         /\ j < k => next.cl[j] = row.cl[j]
  PROVE  InPlace(nodes, next, k)
  <1>0. k \in Int /\ Len(nodes) \in Int /\ 1 <= k /\ k <= Len(nodes)
    BY DEF IsRow
  <1>1. \A j \in 1..k : j \in 1..Len(nodes) /\ j \in Int /\ (j \in 1..k - 1 \/ j = k)
    BY <1>0
  <1>2. \A j \in 1..k - 1 : j \in 1..k /\ j < k /\ next.at[j] = row.at[j] /\ next.cl[j] = row.cl[j]
    BY <1>0
  <1>3. next.at[k] = Scale * nodes[k].x /\ k \in 1..k
    BY <1>0
  <1>4. /\ Scale * nodes[k].x \in Int /\ 0 <= Scale * nodes[k].x
        /\ Scale * nodes[k].x + Ext(nodes, k) <= Scale * Core
    <2>1. NodeOk(r, nodes[k])
      BY DEF IsRow
    <2> DEFINE a == nodes[k].x
               b == nodes[k].w
    <2>2. a \in Int /\ 0 <= a /\ a + b <= Core /\ a + b \in Int /\ b \in Int
      BY <2>1, FixedNode
    <2>3. Scale * (a + b) = Scale * a + Ext(nodes, k)
      BY Extents
    <2> HIDE DEF a, b
    <2>4. Scale \in Nat /\ Core \in Int
      BY Constants
    <2>5. 0 <= Scale * a /\ Scale * (a + b) <= Scale * Core /\ Scale * a \in Int
      BY <2>2, <2>4
    <2>6. 0 <= Scale * a /\ Scale * a + Ext(nodes, k) <= Scale * Core /\ Scale * a \in Int
      BY <2>3, <2>5
    <2> QED BY <2>6 DEF a
  <1>5. ASSUME NEW i \in 1..k - 1
        PROVE  /\ row.at[i] \in Int /\ 0 <= row.at[i] /\ row.at[i] + Ext(nodes, i) <= Scale * Core
               /\ nodes[i].cell = 0 => row.at[i] = Scale * nodes[i].x
               /\ nodes[i].cell # 0 => IsCluster(nodes, row.cl[i], i)
               /\ row.at[i] + Ext(nodes, i) <= Scale * nodes[k].x
    <2>1. k \in (k - 1) + 1..Len(nodes)
      BY <1>0
    <2> QED BY <2>1 DEF InPlace
  <1>6. \A j \in 1..k :
       /\ next.at[j] \in Int /\ 0 <= next.at[j] /\ next.at[j] + Ext(nodes, j) <= Scale * Core
       /\ nodes[j].cell = 0 => next.at[j] = Scale * nodes[j].x
       /\ nodes[j].cell # 0 => IsCluster(nodes, next.cl[j], j)
    BY <1>1, <1>2, <1>3, <1>4, <1>5
  <1>7. ASSUME NEW i \in 1..k, NEW j \in 1..k, i < j
        PROVE  next.at[i] + Ext(nodes, i) <= next.at[j]
    <2>1. i \in 1..k - 1
      BY <1>0, <1>1, <1>7
    <2>2. CASE j = k
      BY <1>2, <1>3, <1>5, <2>1, <2>2
    <2>3. CASE j \in 1..k - 1
      <3>1. row.at[i] + Ext(nodes, i) <= row.at[j]
        BY <1>7, <2>1, <2>3 DEF InPlace
      <3> QED BY <1>2, <2>1, <2>3, <3>1
    <2> QED BY <1>1, <2>2, <2>3
  <1>8. ASSUME NEW i \in 1..k, NEW j \in k + 1..Len(nodes), nodes[j].cell = 0
        PROVE  next.at[i] + Ext(nodes, i) <= Scale * nodes[j].x
    <2>1. j \in (k - 1) + 1..Len(nodes) /\ j \in 1..Len(nodes) /\ k < j
      BY <1>0
    <2>2. CASE i \in 1..k - 1
      <3>1. row.at[i] + Ext(nodes, i) <= Scale * nodes[j].x
        BY <1>8, <2>1, <2>2 DEF InPlace
      <3> QED BY <1>2, <2>2, <3>1
    <2>3. CASE i = k
      <3> DEFINE a == nodes[k].x + nodes[k].w
                 b == nodes[j].x
      <3>1. a <= b /\ a \in Int /\ b \in Int
        <4>1. a <= b
          BY <1>8, <2>1 DEF IsRow
        <4>2. nodes[k].x \in Int /\ nodes[k].w \in Int /\ b \in Int
          BY <2>1, Extents
        <4> QED BY <4>1, <4>2
      <3>2. Scale * a = Scale * nodes[k].x + Ext(nodes, k)
        BY Extents
      <3> HIDE DEF a
      <3>3. Scale * a <= Scale * b
        <4> HIDE DEF b
        <4> QED BY <3>1, Constants
      <3> QED BY <1>3, <2>3, <3>2, <3>3
    <2> QED BY <1>1, <2>2, <2>3
  <1> QED BY <1>6, <1>7, <1>8 DEF InPlace

\* next is row with the cells of cl in place.
SetDown(next, row, cl, k) ==
  \A j \in 1..k : /\ next.at[j] = IF j < cl.first THEN row.at[j] ELSE cl.x + cl.off[j]
                  /\ next.cl[j] = IF j = k THEN cl ELSE row.cl[j]

LEMMA CellPlaced ==
  ASSUME NEW r, NEW nodes, IsRow(r, nodes), NEW k \in 1..Len(nodes), nodes[k].cell # 0,
         NEW row, InPlace(nodes, row, k - 1), NEW next, NEW cl,
         IsCluster(nodes, cl, k), From(nodes, k) <= cl.x, Stable(nodes, row, cl),
         cl.x + cl.w <= To(nodes, k), SetDown(next, row, cl, k)
  PROVE  InPlace(nodes, next, k)
  <1> DEFINE f == cl.first
  <1>0. /\ k \in Int /\ Len(nodes) \in Int /\ 1 <= k /\ k <= Len(nodes)
        /\ f \in Int /\ 1 <= f /\ f <= k
    BY DEF IsRow, IsCluster
  <1>1. \A j \in 1..k : j \in 1..Len(nodes) /\ j \in Int /\ (j \in 1..f - 1 \/ j \in f..k)
    BY <1>0
  <1>2. \A j \in 1..f - 1 : j \in 1..k /\ j \in 1..k - 1 /\ j < k /\ next.at[j] = row.at[j]
    BY <1>0 DEF SetDown
  <1>3. \A j \in f..k : j \in 1..k /\ next.at[j] = cl.x + cl.off[j]
    <2>1. \A j \in f..k : j \in 1..k /\ ~(j < f)
      BY <1>0
    <2> QED BY <2>1 DEF SetDown
  <1>4. /\ From(nodes, k) \in Int /\ 0 <= From(nodes, k) /\ To(nodes, k) \in Int
        /\ To(nodes, k) <= Scale * Core /\ Scale * Core \in Int
        /\ cl.x \in Int /\ cl.w \in Int
    BY Bounds, Constants DEF IsCluster
  <1>12. \A j \in k + 1..Len(nodes) : nodes[j].cell = 0 => To(nodes, k) <= Scale * nodes[j].x
    BY Bounds
  <1>5. \A j \in 1..Len(nodes) : Ext(nodes, j) \in Int /\ 0 < Ext(nodes, j) /\ Scale * nodes[j].x \in Int
    BY Extents
  <1>6. /\ \A j \in f..k : /\ cl.off[j] \in Int /\ 0 <= cl.off[j]
                           /\ cl.off[j] + Ext(nodes, j) <= cl.w /\ nodes[j].cell # 0
        /\ \A i, j \in f..k : i < j => cl.off[i] + Ext(nodes, i) <= cl.off[j]
    BY DEF IsCluster
  <1>7. \A j \in 1..k - 1 :
          /\ row.at[j] \in Int /\ 0 <= row.at[j] /\ row.at[j] + Ext(nodes, j) <= Scale * Core
          /\ nodes[j].cell = 0 => row.at[j] = Scale * nodes[j].x
          /\ nodes[j].cell # 0 => IsCluster(nodes, row.cl[j], j)
    BY DEF InPlace
  <1>8. ASSUME NEW j \in f..k
        PROVE  /\ next.at[j] \in Int /\ cl.x <= next.at[j] /\ 0 <= next.at[j]
               /\ next.at[j] + Ext(nodes, j) <= To(nodes, k)
    <2>1. /\ next.at[j] = cl.x + cl.off[j] /\ cl.off[j] \in Int /\ 0 <= cl.off[j]
          /\ cl.off[j] + Ext(nodes, j) <= cl.w /\ Ext(nodes, j) \in Int
      BY <1>1, <1>3, <1>5, <1>6
    <2> DEFINE a == next.at[j]
               o == cl.off[j]
               e == Ext(nodes, j)
    <2>2. a = cl.x + o /\ o \in Int /\ 0 <= o /\ o + e <= cl.w /\ e \in Int
      BY <2>1
    <2>3. a \in Int /\ cl.x <= a /\ 0 <= a /\ a + e <= To(nodes, k)
      <3> DEFINE v == cl.x
                 w == cl.w
                 t == To(nodes, k)
      <3>1. 0 <= v /\ v \in Int /\ w \in Int /\ t \in Int /\ v + w <= t
        BY <1>4
      <3>2. a = v + o
        BY <2>2
      <3>3. o \in Int /\ 0 <= o /\ o + e <= w /\ e \in Int
        BY <2>2
      <3> HIDE DEF a, o, e, v, w, t
      <3>4. a \in Int /\ v <= a /\ 0 <= a /\ a + e <= t
        BY <3>1, <3>2, <3>3
      <3> QED BY <3>4 DEF v, t
    <2> QED BY <2>3
  <1>9. ASSUME NEW j \in 1..k
        PROVE  /\ next.at[j] \in Int /\ 0 <= next.at[j] /\ next.at[j] + Ext(nodes, j) <= Scale * Core
               /\ nodes[j].cell = 0 => next.at[j] = Scale * nodes[j].x
               /\ nodes[j].cell # 0 => IsCluster(nodes, next.cl[j], j)
    <2>1. nodes[j].cell # 0 => IsCluster(nodes, next.cl[j], j)
      <3>1. CASE j = k
        BY <3>1 DEF SetDown
      <3>2. CASE j # k
        <4>1. j \in 1..k - 1
          BY <1>0, <3>2
        <4> QED BY <1>7, <3>2, <4>1 DEF SetDown
      <3> QED BY <3>1, <3>2
    <2>2. CASE j \in 1..f - 1
      BY <1>2, <1>7, <2>1, <2>2
    <2>3. CASE j \in f..k
      <3>1. next.at[j] + Ext(nodes, j) <= Scale * Core
        BY <1>1, <1>4, <1>5, <1>8, <2>3
      <3> QED BY <1>6, <1>8, <2>1, <2>3, <3>1
    <2> QED BY <1>1, <2>2, <2>3
  <1>10. ASSUME NEW i \in 1..k, NEW j \in 1..k, i < j
         PROVE  next.at[i] + Ext(nodes, i) <= next.at[j]
    <2>1. CASE j \in 1..f - 1
      <3>1. i \in 1..f - 1
        BY <1>0, <1>1, <1>10, <2>1
      <3>2. row.at[i] + Ext(nodes, i) <= row.at[j]
        BY <1>2, <1>10, <2>1, <3>1 DEF InPlace
      <3> QED BY <1>2, <2>1, <3>1, <3>2
    <2>2. CASE i \in 1..f - 1 /\ j \in f..k
      <3>1. f > 1 /\ f - 1 \in 1..f - 1 /\ f - 1 \in 1..k - 1
        BY <1>0, <2>2
      <3>2. row.at[f - 1] + Ext(nodes, f - 1) <= cl.x
        BY <3>1 DEF Stable
      <3> DEFINE m == f - 1
      <3>3. row.at[m] \in Int /\ row.at[m] + Ext(nodes, m) <= cl.x /\ Ext(nodes, m) \in Int
            /\ 0 < Ext(nodes, m)
        <4>1. m \in 1..k - 1 /\ m \in 1..Len(nodes) /\ row.at[m] + Ext(nodes, m) <= cl.x
          BY <1>0, <3>1, <3>2
        <4> HIDE DEF m
        <4> QED BY <1>5, <1>7, <4>1
      <3>4. i = m \/ row.at[i] + Ext(nodes, i) <= row.at[m]
        <4>1. i \in 1..k - 1 /\ m \in 1..k - 1 /\ (i = m \/ i < m)
          BY <1>2, <2>2, <3>1
        <4> HIDE DEF m
        <4> QED BY <4>1 DEF InPlace
      <3>5. row.at[i] \in Int /\ Ext(nodes, i) \in Int
        BY <1>1, <1>2, <1>5, <1>7, <2>2
      <3>6. row.at[i] + Ext(nodes, i) <= cl.x
        <4> DEFINE a == row.at[i]
                   d == Ext(nodes, i)
                   b == row.at[m]
                   e == Ext(nodes, m)
        <4>1. /\ b \in Int /\ b + e <= cl.x /\ e \in Int /\ 0 < e /\ a \in Int /\ d \in Int
              /\ (a = b /\ d = e) \/ a + d <= b
          BY <3>3, <3>4, <3>5
        <4>2. a + d <= cl.x
          <5> HIDE DEF a, b, d, e
          <5> QED BY <1>4, <4>1
        <4> QED BY <4>2
      <3>7. next.at[i] = row.at[i] /\ cl.x <= next.at[j] /\ next.at[j] \in Int
        BY <1>2, <1>8, <2>2
      <3> DEFINE a == row.at[i] + Ext(nodes, i)
                 b == next.at[j]
      <3>8. a <= cl.x /\ cl.x <= b /\ a \in Int /\ b \in Int /\ cl.x \in Int
        BY <1>4, <3>5, <3>6, <3>7
      <3>9. a <= b
        <4> HIDE DEF a, b
        <4> QED BY <3>8
      <3> QED BY <3>7, <3>9
    <2>3. CASE i \in f..k
      <3>1. j \in f..k
        BY <1>0, <1>1, <1>10, <2>3
      <3>2. cl.off[i] + Ext(nodes, i) <= cl.off[j] /\ cl.off[i] \in Int /\ cl.off[j] \in Int
        BY <1>6, <1>10, <2>3, <3>1
      <3>3. Ext(nodes, i) \in Int
        BY <1>1, <1>5
      <3>4. next.at[i] = cl.x + cl.off[i] /\ next.at[j] = cl.x + cl.off[j]
        BY <1>3, <2>3, <3>1
      <3> DEFINE a == cl.off[i]
                 b == cl.off[j]
                 d == Ext(nodes, i)
      <3>5. (cl.x + a) + d <= cl.x + b
        <4>1. a + d <= b /\ a \in Int /\ b \in Int /\ d \in Int
          BY <3>2, <3>3
        <4> HIDE DEF a, b, d
        <4> QED BY <1>4, <4>1
      <3> QED BY <3>4, <3>5
    <2> QED BY <1>1, <2>1, <2>2, <2>3
  <1>11. ASSUME NEW i \in 1..k, NEW j \in k + 1..Len(nodes), nodes[j].cell = 0
         PROVE  next.at[i] + Ext(nodes, i) <= Scale * nodes[j].x
    <2>1. j \in (k - 1) + 1..Len(nodes) /\ j \in 1..Len(nodes)
      BY <1>0
    <2>2. CASE i \in 1..f - 1
      <3>1. row.at[i] + Ext(nodes, i) <= Scale * nodes[j].x
        BY <1>2, <1>11, <2>1, <2>2 DEF InPlace
      <3> QED BY <1>2, <2>2, <3>1
    <2>3. CASE i \in f..k
      <3>1. /\ next.at[i] \in Int /\ next.at[i] + Ext(nodes, i) <= To(nodes, k) /\ Ext(nodes, i) \in Int
            /\ To(nodes, k) <= Scale * nodes[j].x /\ Scale * nodes[j].x \in Int
        BY <1>1, <1>12, <1>5, <1>8, <1>11, <2>1, <2>3
      <3> QED BY <1>4, <3>1
    <2> QED BY <1>1, <2>2, <2>3
  <1> QED BY <1>9, <1>10, <1>11 DEF InPlace

LEMMA NodePlaced ==
  ASSUME in \in Inputs, NEW r, NEW nodes, IsRow(r, nodes), NEW k \in 1..Len(nodes),
         NEW row, InPlace(nodes, row, k - 1), PlaceNode(nodes, row, k).ok
  PROVE  InPlace(nodes, PlaceNode(nodes, row, k), k)
  <1> DEFINE n == nodes[k]
             from == From(nodes, k)
             to == To(nodes, k)
             alone(v) == [first |-> k, last |-> k, q |-> v, e |-> 1, w |-> Scale * n.w,
                          off |-> [j \in k..k |-> 0], x |-> Scale * v]
             cl == IF n.cell = 0 THEN alone(n.x)
                   ELSE Collapse(nodes, row, alone(StartX(n.cell)), from, to)
             next == PlaceNode(nodes, row, k)
  <1>1. next = [cl |-> [j \in 1..k |-> IF j = k THEN cl ELSE row.cl[j]],
                at |-> [j \in 1..k |-> IF j < cl.first THEN row.at[j] ELSE cl.x + cl.off[j]],
                ok |-> row.ok /\ (n.cell = 0 \/ cl.x + cl.w <= to)]
    BY DEF PlaceNode, From, To
  <1> HIDE DEF next, cl
  <1>2. /\ SetDown(next, row, cl, k)
        /\ n.cell = 0 \/ cl.x + cl.w <= to
    <2>1. /\ next.at = [j \in 1..k |-> IF j < cl.first THEN row.at[j] ELSE cl.x + cl.off[j]]
          /\ next.cl = [j \in 1..k |-> IF j = k THEN cl ELSE row.cl[j]]
          /\ next.ok = (row.ok /\ (n.cell = 0 \/ cl.x + cl.w <= to))
      BY <1>1
    <2>2. next.ok
      BY DEF next
    <2> HIDE DEF n, to
    <2> QED BY <2>1, <2>2 DEF SetDown
  <1>3. k \in Nat /\ 1 <= k /\ k <= Len(nodes) /\ k \in k..k /\ Len(nodes) \in Nat
    BY DEF IsRow
  <1>4. CASE n.cell = 0
    <2>1. cl = alone(n.x)
      BY <1>4 DEF cl
    <2>2. cl.first = k /\ cl.x = Scale * n.x /\ cl.off[k] = 0
      BY <1>3, <2>1
    <2>3. Scale * n.x \in Int
      BY Extents
    <2>4. ASSUME NEW j \in 1..k
          PROVE  /\ next.at[j] = IF j < k THEN row.at[j] ELSE Scale * nodes[k].x
                 /\ j < k => next.cl[j] = row.cl[j]
      <3>1. j < k \/ j = k
        BY <1>3
      <3>2. j = k => cl.x + cl.off[j] = Scale * n.x
        BY <2>2, <2>3
      <3>3. j < k => j # k
        BY <1>3
      <3> QED BY <1>2, <2>2, <3>1, <3>2, <3>3 DEF SetDown
    <2>5. InPlace(nodes, next, k)
      BY <1>4, <2>4, FixedPlaced
    <2> QED BY <2>5 DEF next
  <1>5. CASE n.cell # 0
    <2> DEFINE b == alone(StartX(n.cell))
    <2>1. StartX(n.cell) \in Int
      <3>1. NodeOk(r, n)
        BY DEF IsRow
      <3>2. n.cell \in Cells
        BY <1>5, <3>1 DEF NodeOk, InRow
      <3> QED BY <3>2, StartFacts
    <2>2. \A j \in 1..Len(nodes) : Ext(nodes, j) \in Nat /\ Scale * (nodes[j].x + nodes[j].w) = Scale * nodes[j].x + Ext(nodes, j)
      BY Extents
    <2>3. IsCluster(nodes, b, k) /\ b.first = k
      <3>1. Scale * StartX(n.cell) \in Int /\ Scale * n.w = Ext(nodes, k) /\ Ext(nodes, k) \in Nat
        BY <2>1, <2>2, Constants DEF Ext
      <3>2. /\ b.first = k /\ b.last = k /\ b.q = StartX(n.cell) /\ b.e = 1 /\ b.w = Ext(nodes, k)
            /\ b.off = [j \in k..k |-> 0] /\ b.x \in Int
            /\ b = [first |-> b.first, last |-> b.last, q |-> b.q, e |-> b.e, w |-> b.w,
                    off |-> b.off, x |-> b.x]
        BY <3>1
      <3>3. \A j \in k..k : j = k /\ b.off[j] = 0
        BY <1>3, <3>2
      <3> HIDE DEF b
      <3>4. /\ \A j \in k..k : b.off[j] \in Nat /\ b.off[j] + Ext(nodes, j) <= b.w /\ nodes[j].cell # 0
            /\ \A i, j \in k..k : ~(i < j)
            /\ b.off[k] + Ext(nodes, k) = b.w
        BY <1>3, <1>5, <3>1, <3>2, <3>3
      <3>5. k \in 1..k /\ 1 \in Nat /\ 1 > 0
        BY <1>3
      <3> QED BY <2>1, <3>1, <3>2, <3>4, <3>5 DEF IsCluster
    <2>4. /\ from \in Int /\ to \in Int
          /\ \A j \in 1..k - 1 : nodes[j].cell = 0 => Scale * (nodes[j].x + nodes[j].w) <= from
      BY Bounds
    <2>5. RowBefore(nodes, row, k, from)
      <3> SUFFICES ASSUME NEW j \in 1..k - 1
                   PROVE  /\ row.at[j] \in Int
                          /\ nodes[j].cell = 0 => row.at[j] + Ext(nodes, j) <= from
                          /\ nodes[j].cell # 0 => IsCluster(nodes, row.cl[j], j)
        BY DEF RowBefore
      <3>1. j \in 1..Len(nodes)
        BY <1>3
      <3>2. /\ row.at[j] \in Int
            /\ nodes[j].cell = 0 => row.at[j] = Scale * nodes[j].x
            /\ nodes[j].cell # 0 => IsCluster(nodes, row.cl[j], j)
        BY DEF InPlace
      <3>3. Scale * (nodes[j].x + nodes[j].w) = Scale * nodes[j].x + Ext(nodes, j)
        BY <2>2, <3>1
      <3>4. nodes[j].cell = 0 => Scale * (nodes[j].x + nodes[j].w) <= from
        BY <2>4
      <3> HIDE DEF from
      <3> QED BY <3>2, <3>3, <3>4
    <2>6. cl = Collapse(nodes, row, b, from, to)
      BY <1>5 DEF cl
    <2>7. IsCluster(nodes, cl, k) /\ from <= cl.x /\ Stable(nodes, row, cl)
      <3>1. \A j \in 1..k : Ext(nodes, j) \in Nat
        BY <1>3, <2>2
      <3> HIDE DEF b, from, to
      <3> QED BY <1>3, <2>3, <2>4, <2>5, <2>6, <3>1, Collapsed
    <2>8. cl.x + cl.w <= to
      BY <1>2, <1>5
    <2>9. InPlace(nodes, next, k)
      BY <1>2, <1>5, <2>7, <2>8, CellPlaced
    <2> QED BY <2>9 DEF next
  <1> QED BY <1>4, <1>5

LEMMA RowPlaced ==
  ASSUME in \in Inputs, NEW r, NEW nodes, IsRow(r, nodes), PlaceRow(nodes).ok
  PROVE  InPlace(nodes, PlaceRow(nodes), Len(nodes))
  <1> DEFINE n == Len(nodes)
             first == [cl |-> <<>>, at |-> <<>>, ok |-> TRUE]
             f == CHOOSE g : IsAlong(g, "place", nodes, first, n)
  <1>1. n \in Nat
    BY DEF IsRow
  <1>2. PlaceRow(nodes) = f[n]
    BY DEF PlaceRow, Steps, IsAlong, Turn
  <1>3. \A m \in 1..n : m - 1 \in 0..n /\ f[m] = PlaceNode(nodes, f[m - 1], m)
    <2>1. Follows(f, "place", nodes, first, n)
      <3> HIDE DEF first, n
      <3> QED BY <1>1, AlongFollows
    <2> HIDE DEF f, first, n
    <2> QED BY <2>1 DEF Follows, Turn
  <1> HIDE DEF f
  <1> DEFINE Good(m) == f[m].ok => InPlace(nodes, f[m], m)
             Bad == {m \in 0..n : ~Good(m)}
  <1>4. Good(0)
    <2>1. \A j \in 1..0 : FALSE
      OBVIOUS
    <2> QED BY <2>1 DEF InPlace
  <1>5. ASSUME NEW m \in 1..n, Good(m - 1) PROVE Good(m)
    <2> SUFFICES ASSUME f[m].ok PROVE InPlace(nodes, f[m], m)
      OBVIOUS
    <2> DEFINE b == f[m - 1]
    <2>1. f[m] = PlaceNode(nodes, b, m)
      BY <1>3
    <2>2. PlaceNode(nodes, b, m).ok
      BY <2>1
    <2>3. b.ok
      <3> HIDE DEF b
      <3> QED BY <2>2 DEF PlaceNode
    <2>4. InPlace(nodes, b, m - 1)
      BY <1>5, <2>3
    <2>5. InPlace(nodes, PlaceNode(nodes, b, m), m)
      <3> HIDE DEF b
      <3> QED BY <2>2, <2>4, NodePlaced
    <2> QED BY <2>1, <2>5
  <1>6. Bad = {}
    <2> SUFFICES ASSUME Bad # {} PROVE FALSE
      OBVIOUS
    <2>1. PICK m \in Bad : \A l \in Bad : m <= l
      <3>1. Bad \in SUBSET Nat
        OBVIOUS
      <3> HIDE DEF Bad
      <3> QED BY <3>1, Least
    <2>2. m # 0
      BY <1>4
    <2>3. m \in 1..n /\ m - 1 \in 0..n /\ ~(m <= m - 1)
      BY <1>1, <2>2
    <2>4. m - 1 \notin Bad
      <3> HIDE DEF Bad
      <3> QED BY <2>1, <2>3
    <2>5. Good(m - 1) /\ ~Good(m)
      BY <2>3, <2>4
    <2> HIDE DEF Good
    <2> QED BY <1>5, <2>3, <2>5
  <1>7. Good(n)
    <2>1. n \in 0..n /\ n \notin Bad
      BY <1>1, <1>6
    <2> HIDE DEF Good
    <2> QED BY <2>1
  <1> QED BY <1>2, <1>7

-----------------------------------------------------------------------------
(* Aligning the nodes to sites.                                            *)

\* Where a fixed node ends, on a site.
Ceil(m) == ((m.x + m.w + SiteW - 1) \div SiteW) * SiteW

\* bound is a place for every cell of a row that aligning need not leave:
\* no further left than where Abacus left it, and legal.
Bounding(nodes, at, bound) ==
  /\ \A k \in 1..Len(nodes) : nodes[k].cell # 0 =>
       /\ bound[k] \in Int /\ at[k] \in Int /\ at[k] <= bound[k] /\ 0 <= bound[k]
       /\ bound[k] + Ext(nodes, k) <= Scale * Core
       /\ \A i \in 1..k - 1 :
            IF nodes[i].cell = 0 THEN Scale * Ceil(nodes[i]) <= bound[k]
            ELSE bound[i] + Ext(nodes, i) <= bound[k]
       /\ \A j \in k + 1..Len(nodes) :
            nodes[j].cell = 0 => bound[k] + Ext(nodes, k) <= Scale * nodes[j].x

LEMMA CeilFacts ==
  ASSUME NEW v \in Int
  PROVE  LET u == ((v + SiteW - 1) \div SiteW) * SiteW IN
         /\ u \in Int /\ v <= u /\ OnSite(u)
         /\ \A w \in Int : OnSite(w) /\ v <= w => u <= w
  <1> DEFINE q == (v + SiteW - 1) \div SiteW
             u == q * SiteW
  <1>0. SiteW \in Nat \ {0}
    BY Constants
  <1>1. q \in Int /\ q * SiteW <= v + SiteW - 1 /\ v + SiteW - 1 < q * SiteW + SiteW
    BY <1>0, Divided
  <1>2. u \in Int /\ v <= u
    <2> HIDE DEF q
    <2> QED BY <1>0, <1>1
  <1>3. OnSite(u)
    <2> HIDE DEF q
    <2> QED BY <1>1 DEF OnSite
  <1>4. ASSUME NEW w \in Int, OnSite(w), v <= w PROVE u <= w
    <2>1. PICK p \in Int : w = p * SiteW
      BY <1>4 DEF OnSite
    <2>2. q * SiteW < (p + 1) * SiteW
      <3>1. (p + 1) * SiteW = p * SiteW + SiteW
        BY <1>0
      <3> HIDE DEF q
      <3> QED BY <1>0, <1>1, <1>4, <2>1, <3>1
    <2>3. q < p + 1
      <3> HIDE DEF q
      <3> QED BY <1>0, <1>1, <2>2
    <2>4. q * SiteW <= p * SiteW
      <3> HIDE DEF q
      <3> QED BY <1>0, <1>1, <2>3
    <2> QED BY <2>1, <2>4
  <1> QED BY <1>2, <1>3, <1>4

LEMMA CellEnds ==
  ASSUME NEW m, m.cell # 0, m.w \in Int, OnSite(m.w), NEW at \in Int, at <= Scale * (Core - m.w),
         NEW before \in Int, OnSite(before)
  PROVE  LET e == EndOf(m, at, before)
             pos == e - m.w
         IN /\ e \in Int /\ OnSite(e) /\ pos \in Int /\ OnSite(pos) /\ before <= pos
            /\ Scale * pos <= at \/ Scale * pos <= Scale * before
  <1> DEFINE v == Max({Min({at, (Core - m.w) * Scale}), before * Scale})
             d == Scale * SiteW
             q == v \div d
             pos == q * SiteW
             e == EndOf(m, at, before)
  <1>0. Scale \in Nat \ {0} /\ SiteW \in Nat \ {0} /\ Core \in Int
    BY Constants
  <1>1. d \in Nat \ {0}
    BY <1>0
  <1>2. v = IF at <= Scale * before THEN Scale * before ELSE at
    <2>1. (Core - m.w) * Scale = Scale * (Core - m.w) /\ Scale * (Core - m.w) \in Int
          /\ before * Scale = Scale * before /\ Scale * before \in Int
      BY <1>0
    <2> DEFINE a == (Core - m.w) * Scale
               b == before * Scale
    <2>2. a \in Int /\ b \in Int /\ at <= a /\ b = Scale * before
      BY <2>1
    <2>3. Min({at, a}) = at
      <3> HIDE DEF a
      <3> QED BY <2>2, TwoNumbers
    <2>4. Max({at, b}) = IF at <= b THEN b ELSE at
      <3> HIDE DEF b
      <3> QED BY <2>2, TwoNumbers
    <2>5. v = Max({at, b})
      BY <2>3
    <2> HIDE DEF v, b, a
    <2> QED BY <2>2, <2>4, <2>5
  <1> HIDE DEF v
  <1>3. v \in Int /\ Scale * before <= v /\ (v <= at \/ v <= Scale * before)
    <2>1. Scale * before \in Int
      BY <1>0
    <2> QED BY <1>2, <2>1
  <1>4. q \in Int /\ q * d <= v /\ v < q * d + d
    <2> HIDE DEF d
    <2> QED BY <1>1, <1>3, Divided
  <1>5. PICK b \in Int : before = b * SiteW
    BY DEF OnSite
  <1>6. Scale * before = b * d /\ Scale * pos = q * d
    <2> HIDE DEF q
    <2> QED BY <1>0, <1>4, <1>5
  <1>7. b <= q
    <2>1. b * d < q * d + d /\ q * d + d = (q + 1) * d
      <3> HIDE DEF d, q
      <3> QED BY <1>1, <1>3, <1>4, <1>5, <1>6
    <2>2. b * d < (q + 1) * d
      BY <2>1
    <2>3. b < q + 1
      <3> HIDE DEF d, q
      <3> QED BY <1>1, <1>4, <2>2
    <2> HIDE DEF q
    <2> QED BY <1>4, <2>3
  <1>8. pos \in Int /\ OnSite(pos) /\ before <= pos
    <2> HIDE DEF q
    <2>1. pos \in Int /\ b * SiteW <= q * SiteW
      BY <1>0, <1>4, <1>7
    <2> QED BY <1>4, <1>5, <2>1 DEF OnSite
  <1>9. e = pos + m.w
    BY DEF EndOf, v
  <1>10. Scale * pos <= v
    <2> HIDE DEF q, d
    <2> QED BY <1>4, <1>6
  <1> HIDE DEF pos, e
  <1>11. e \in Int /\ OnSite(e) /\ e - m.w = pos
    <2> DEFINE w == m.w
    <2>1. w \in Int /\ OnSite(w)
      OBVIOUS
    <2>2. OnSite(pos + w)
      <3> HIDE DEF w
      <3> QED BY <1>8, <2>1, OnSiteFacts
    <2>3. pos + w \in Int /\ (pos + w) - w = pos
      <3> HIDE DEF w
      <3> QED BY <1>8, <2>1
    <2> QED BY <1>9, <2>2, <2>3
  <1>12. Scale * pos <= at \/ Scale * pos <= Scale * before
    <2>1. Scale * pos \in Int /\ Scale * before \in Int
      BY <1>0, <1>8
    <2> QED BY <1>3, <1>10, <2>1
  <1> QED BY <1>8, <1>11, <1>12 DEF e

\* Where a node of an aligned row begins.
PosOf(nodes, ends, k) == ends[k] - nodes[k].w

\* The ends of the nodes, aligned, from nothing.
EndsAlong(nodes, at, ends) ==
  /\ ends[0] = 0
  /\ \A k \in 1..Len(nodes) : k - 1 \in 0..Len(nodes) /\ ends[k] = EndOf(nodes[k], at[k], ends[k - 1])

LEMMA AlignedAlong ==
  ASSUME NEW r, NEW nodes, IsRow(r, nodes), NEW at
  PROVE  EndsAlong(nodes, at, Aligned(nodes, at))
  <1> DEFINE n == Len(nodes)
             p == [nodes |-> nodes, at |-> at]
             f == CHOOSE g : IsAlong(g, "align", p, 0, n)
  <1>1. n \in Nat
    BY DEF IsRow
  <1>2. Aligned(nodes, at) = f
    BY DEF Aligned, Steps, IsAlong, Turn
  <1>3. Follows(f, "align", p, 0, n)
    <2> HIDE DEF n, p
    <2> QED BY <1>1, AlongFollows
  <1> HIDE DEF f
  <1>4. EndsAlong(nodes, at, f)
    BY <1>3 DEF Follows, Turn, EndsAlong
  <1> QED BY <1>2, <1>4

LEMMA NodeEnds ==
  ASSUME in \in Inputs, NEW r, NEW nodes, IsRow(r, nodes), NEW at, NEW ends, EndsAlong(nodes, at, ends),
         \A j \in 1..Len(nodes) : at[j] \in Int /\ at[j] + Ext(nodes, j) <= Scale * Core,
         NEW k \in 1..Len(nodes), ends[k - 1] \in Int, OnSite(ends[k - 1])
  PROVE  /\ ends[k] \in Int /\ OnSite(ends[k])
         /\ nodes[k].cell = 0 => /\ ends[k] = Ceil(nodes[k])
                                 /\ nodes[k].x + nodes[k].w <= ends[k]
                                 /\ ends[k] < nodes[k].x + nodes[k].w + SiteW
         /\ nodes[k].cell # 0 => LET pos == PosOf(nodes, ends, k) IN
              /\ pos \in Int /\ OnSite(pos) /\ ends[k - 1] <= pos
              /\ Scale * pos <= at[k] \/ Scale * pos <= Scale * ends[k - 1]
  <1> DEFINE m == nodes[k]
  <1>1. ends[k] = EndOf(m, at[k], ends[k - 1])
    BY DEF EndsAlong
  <1>2. NodeOk(r, m) /\ m.x \in Int /\ m.w \in Int
    BY DEF IsRow, NodeOk
  <1>3. CASE m.cell = 0
    <2>1. ends[k] = Ceil(m)
      BY <1>1, <1>3 DEF EndOf, Ceil
    <2> DEFINE v == m.x + m.w
    <2>2. v \in Int
      BY <1>2
    <2>3. Ceil(m) \in Int /\ v <= Ceil(m) /\ OnSite(Ceil(m))
      <3>1. Ceil(m) = ((v + SiteW - 1) \div SiteW) * SiteW
        BY DEF Ceil
      <3> HIDE DEF v
      <3> QED BY <2>2, <3>1, CeilFacts
    <2>4. Ceil(m) < v + SiteW
      <3> DEFINE a == v + SiteW - 1
                 q == a \div SiteW
      <3>1. SiteW \in Nat \ {0} /\ a \in Int
        BY <2>2, Constants
      <3>2. q \in Int /\ q * SiteW <= a
        <4> HIDE DEF a
        <4> QED BY <3>1, Divided
      <3>3. Ceil(m) = q * SiteW
        BY DEF Ceil
      <3>4. Ceil(m) <= a
        BY <3>2, <3>3
      <3> HIDE DEF v
      <3> QED BY <2>2, <2>3, <3>1, <3>4
    <2> QED BY <1>3, <2>1, <2>3, <2>4
  <1>4. CASE m.cell # 0
    <2>1. OnSite(m.w)
      <3>1. m.w = W(m.cell) /\ m.cell \in Cells
        BY <1>2, <1>4 DEF NodeOk, InRow
      <3> QED BY <3>1, OnSiteFacts
    <2>2. at[k] \in Int /\ at[k] <= Scale * (Core - m.w)
      <3> DEFINE a == at[k]
                 w == m.w
      <3>1. a \in Int /\ a + Scale * w <= Scale * Core /\ w \in Int
        BY <1>2 DEF Ext
      <3>2. Scale \in Nat /\ Core \in Int
        BY Constants
      <3>3. Scale * (Core - w) = Scale * Core - Scale * w /\ Scale * Core \in Int /\ Scale * w \in Int
        <4> HIDE DEF w
        <4> QED BY <3>1, <3>2
      <3>4. a <= Scale * (Core - w)
        <4> HIDE DEF a, w
        <4> QED BY <3>1, <3>3
      <3> QED BY <3>1, <3>4
    <2> DEFINE b == ends[k - 1]
               e == EndOf(m, at[k], b)
    <2>3. /\ e \in Int /\ OnSite(e) /\ e - m.w \in Int /\ OnSite(e - m.w) /\ b <= e - m.w
          /\ Scale * (e - m.w) <= at[k] \/ Scale * (e - m.w) <= Scale * b
      <3>1. b \in Int /\ OnSite(b)
        OBVIOUS
      <3> HIDE DEF b, m
      <3> QED BY <1>2, <1>4, <2>1, <2>2, <3>1, CellEnds
    <2>4. PosOf(nodes, ends, k) = e - m.w /\ ends[k] = e
      BY <1>1 DEF PosOf
    <2> HIDE DEF e
    <2> QED BY <1>4, <2>3, <2>4
  <1> QED BY <1>3, <1>4

\* What Abacus makes of a row, as far as aligning needs it.
Spread(nodes, at) ==
  /\ \A j \in 1..Len(nodes) :
       /\ at[j] \in Int /\ 0 <= at[j] /\ at[j] + Ext(nodes, j) <= Scale * Core
       /\ nodes[j].cell = 0 => at[j] = Scale * nodes[j].x
  /\ \A i, j \in 1..Len(nodes) : i < j => at[i] + Ext(nodes, i) <= at[j]

LEMMA CellWide ==
  ASSUME NEW r, NEW nodes, IsRow(r, nodes), NEW k \in 1..Len(nodes), nodes[k].cell # 0
  PROVE  SiteW <= nodes[k].w /\ Scale * SiteW <= Ext(nodes, k)
  <1> DEFINE w == nodes[k].w
  <1>1. \E c \in Cells : w = WidthOf(c) * SiteW
    <2>1. NodeOk(r, nodes[k])
      BY DEF IsRow
    <2> QED BY <2>1 DEF NodeOk, InRow, W
  <1>2. PICK c \in Cells : w = WidthOf(c) * SiteW
    BY <1>1
  <1>3. WidthOf(c) \in Nat /\ WidthOf(c) > 0 /\ SiteW \in Nat /\ Scale \in Nat
    BY Constants
  <1>4. SiteW <= WidthOf(c) * SiteW /\ WidthOf(c) * SiteW \in Int
    BY <1>3
  <1>5. SiteW <= w /\ w \in Int
    BY <1>2, <1>4
  <1>6. Scale * SiteW <= Scale * w
    <2> HIDE DEF w
    <2> QED BY <1>3, <1>5
  <1> QED BY <1>5, <1>6 DEF Ext

LEMMA EndsOrdered ==
  ASSUME in \in Inputs, NEW r, NEW nodes, IsRow(r, nodes), NEW at, Spread(nodes, at),
         NEW ends, EndsAlong(nodes, at, ends)
  PROVE  /\ \A k \in 0..Len(nodes) : ends[k] \in Int /\ OnSite(ends[k]) /\ 0 <= ends[k]
         /\ \A i, k \in 1..Len(nodes) : nodes[i].cell # 0 /\ nodes[k].cell # 0 /\ i < k =>
              PosOf(nodes, ends, i) < PosOf(nodes, ends, k)
  <1> DEFINE n == Len(nodes)
             d == Scale * SiteW
             Pos(i) == PosOf(nodes, ends, i)
             Good(k) == /\ ends[k] \in Int /\ OnSite(ends[k]) /\ 0 <= ends[k]
                        /\ k > 0 => Scale * ends[k] < at[k] + Ext(nodes, k) + d
                        /\ \A i \in 1..k : nodes[i].cell # 0 => Pos(i) < ends[k]
             Bad == {k \in 0..n : ~Good(k)}
  <1>0. n \in Nat /\ Scale \in Nat /\ Scale > 0 /\ SiteW \in Nat /\ SiteW > 0 /\ d \in Int /\ d > 0
    BY Constants DEF IsRow
  <1>1. Good(0)
    <2>1. ends[0] = 0 /\ OnSite(0) /\ \A i \in 1..0 : FALSE
      BY OnSiteFacts DEF EndsAlong
    <2> QED BY <2>1
  <1>2. ASSUME NEW k \in 1..n PROVE
        /\ at[k] \in Int /\ 0 <= at[k] /\ Ext(nodes, k) \in Int /\ 0 < Ext(nodes, k)
        /\ nodes[k].x \in Int /\ nodes[k].w \in Int /\ nodes[k].w > 0
        /\ Ext(nodes, k) = Scale * nodes[k].w
        /\ nodes[k].cell = 0 => /\ at[k] = Scale * nodes[k].x
                                /\ at[k] + Ext(nodes, k) = Scale * (nodes[k].x + nodes[k].w)
    BY Extents DEF Spread, Ext
  <1>3. ASSUME NEW k \in 1..n, ends[k - 1] \in Int, OnSite(ends[k - 1])
        PROVE  /\ ends[k] \in Int /\ OnSite(ends[k])
               /\ nodes[k].cell = 0 => /\ nodes[k].x + nodes[k].w <= ends[k]
                                       /\ ends[k] < nodes[k].x + nodes[k].w + SiteW
               /\ nodes[k].cell # 0 => /\ Pos(k) \in Int /\ ends[k - 1] <= Pos(k)
                                       /\ Scale * Pos(k) <= at[k] \/ Scale * Pos(k) <= Scale * ends[k - 1]
    <2>1. \A j \in 1..Len(nodes) : at[j] \in Int /\ at[j] + Ext(nodes, j) <= Scale * Core
      BY DEF Spread
    <2> HIDE DEF d
    <2> QED BY <1>3, <2>1, NodeEnds
  <1>4. ASSUME NEW k \in 1..n, nodes[k].cell # 0
        PROVE  ends[k] = Pos(k) + nodes[k].w \/ ends[k] \notin Int
    BY <1>2 DEF PosOf
  <1>5. ASSUME NEW k \in 1..n, \A j \in 0..k - 1 : Good(j) PROVE Good(k)
    <2>0. k \in Int /\ 1 <= k /\ k - 1 \in 0..k - 1 /\ \A i \in 1..k - 1 : i \in 0..k - 1 /\ i \in 1..n
      BY <1>0
    <2>1. Good(k - 1)
      BY <1>5, <2>0
    <2> DEFINE b == ends[k - 1]
               e == ends[k]
    <2>2. b \in Int /\ OnSite(b) /\ 0 <= b /\ \A i \in 1..k - 1 : nodes[i].cell # 0 => Pos(i) < b
      BY <2>1
    <2>3. k > 1 => /\ Scale * b < at[k - 1] + Ext(nodes, k - 1) + d
                   /\ at[k - 1] + Ext(nodes, k - 1) <= at[k]
                   /\ at[k - 1] + Ext(nodes, k - 1) \in Int
      <3> SUFFICES ASSUME k > 1
                   PROVE  /\ Scale * b < at[k - 1] + Ext(nodes, k - 1) + d
                          /\ at[k - 1] + Ext(nodes, k - 1) <= at[k]
                          /\ at[k - 1] + Ext(nodes, k - 1) \in Int
        OBVIOUS
      <3>1. k - 1 \in 1..n /\ k - 1 < k /\ k - 1 > 0
        BY <1>0, <2>0
      <3>2. at[k - 1] + Ext(nodes, k - 1) <= at[k]
        BY <3>1 DEF Spread
      <3>3. Scale * b < at[k - 1] + Ext(nodes, k - 1) + d
        BY <2>1, <3>1
      <3> DEFINE j == k - 1
      <3>4. at[j] \in Int /\ Ext(nodes, j) \in Int
        <4>1. j \in 1..n
          BY <3>1
        <4> HIDE DEF j
        <4> QED BY <1>2, <4>1
      <3> QED BY <3>2, <3>3, <3>4
    <2>4. k = 1 => b = 0
      BY DEF EndsAlong
    <2>5. Scale * b < at[k] + d
      <3> DEFINE s == at[k - 1] + Ext(nodes, k - 1)
                 t == at[k]
                 u == Scale * b
      <3>1. t \in Int /\ 0 <= t /\ u \in Int
        BY <1>0, <1>2, <2>2
      <3>2. CASE k = 1
        <4>1. u = 0
          BY <1>0, <2>4, <3>2
        <4> HIDE DEF u, t, d
        <4>2. u < t + d
          BY <1>0, <3>1, <4>1
        <4> QED BY <4>2 DEF u, t
      <3>3. CASE k > 1
        <4>1. u < s + d /\ s <= t /\ s \in Int
          BY <2>3, <3>3
        <4> HIDE DEF s, t, u, d
        <4>2. u < t + d
          BY <1>0, <3>1, <4>1
        <4> QED BY <4>2 DEF u, t
      <3> QED BY <2>0, <3>2, <3>3
    <2>6. CASE nodes[k].cell = 0
      <3> DEFINE v == nodes[k].x + nodes[k].w
      <3>1. e \in Int /\ OnSite(e) /\ v <= e /\ e < v + SiteW /\ v \in Int
        BY <1>2, <1>3, <2>2, <2>6
      <3>2. NodeOk(r, nodes[k])
        BY DEF IsRow
      <3>3. 0 <= nodes[k].x /\ at[k] = Scale * nodes[k].x /\ at[k] + Ext(nodes, k) = Scale * v
        BY <1>2, <2>6, <3>2, FixedNode
      <3>4. 0 <= e
        BY <1>2, <3>1, <3>3
      <3>5. Scale * e < at[k] + Ext(nodes, k) + d
        <4>1. Scale * e < Scale * (v + SiteW) /\ Scale * (v + SiteW) = Scale * v + d
          <5> HIDE DEF v, e
          <5> QED BY <1>0, <3>1
        <4> HIDE DEF v, d, e
        <4> QED BY <3>3, <4>1
      <3>6. ASSUME NEW i \in 1..k, nodes[i].cell # 0 PROVE Pos(i) < e
        <4>1. i \in 1..k - 1 /\ i \in 1..n /\ i < k /\ i > 0 /\ i \in 0..k - 1
          BY <1>0, <2>0, <2>6, <3>6
        <4>2. Good(i)
          BY <1>5, <4>1
        <4>3. ends[i] \in Int /\ Scale * ends[i] < at[i] + Ext(nodes, i) + d
          BY <4>1, <4>2
        <4>4. d <= Ext(nodes, i) /\ at[i] + Ext(nodes, i) <= at[k]
          BY <3>6, <4>1, CellWide DEF Spread
        <4> DEFINE p == Pos(i)
                   a == at[i]
                   w == nodes[i].w
                   c == nodes[k].x
        <4>5. p \in Int /\ ends[i] = p + w /\ a \in Int /\ w \in Int /\ c \in Int /\ Ext(nodes, i) = Scale * w
          <5>1. a \in Int /\ w \in Int /\ c \in Int /\ Ext(nodes, i) = Scale * w
            BY <1>2, <4>1
          <5>2. ends[i] = p + w /\ p \in Int
            BY <4>3, <5>1 DEF PosOf
          <5> QED BY <5>1, <5>2
        <4>6. Scale * p + Scale * w < a + Scale * w + d /\ d <= Scale * w /\ a + Scale * w <= Scale * c
          <5>1. Scale * ends[i] = Scale * p + Scale * w
            <6> HIDE DEF p, w
            <6> QED BY <1>0, <4>5
          <5> HIDE DEF p, w, a, c, d
          <5>2. Scale * p + Scale * w < a + Scale * w + d
            <6>1. at[i] = a
              BY DEF a
            <6> QED BY <4>3, <4>5, <5>1, <6>1
          <5>3. d <= Scale * w
            BY <4>4, <4>5
          <5>4. a + Scale * w <= Scale * c
            BY <3>3, <4>4, <4>5 DEF a, c
          <5> QED BY <5>2, <5>3, <5>4
        <4>7. Scale * p < Scale * c
          <5>1. Scale * p \in Int /\ Scale * w \in Int /\ Scale * c \in Int
            <6> HIDE DEF p, w, c
            <6> QED BY <1>0, <4>5
          <5> HIDE DEF p, w, c, a, d
          <5> QED BY <1>0, <4>5, <4>6, <5>1
        <4>8. p < c
          <5> HIDE DEF p, c
          <5>1. c <= p <=> Scale * c <= Scale * p
            BY <4>5, ScaledUp
          <5>2. Scale * c \in Int /\ Scale * p \in Int
            BY <4>5, ScaledUp
          <5> QED BY <4>5, <4>7, <5>1, <5>2
        <4>9. c < e
          BY <1>2, <3>1
        <4> HIDE DEF p, c, e
        <4>10. p < e
          BY <3>1, <4>5, <4>8, <4>9
        <4> QED BY <4>10 DEF p
      <3> QED BY <2>0, <3>1, <3>4, <3>5, <3>6
    <2>7. CASE nodes[k].cell # 0
      <3> DEFINE p == Pos(k)
                 w == nodes[k].w
                 a == at[k]
      <3>1. /\ e \in Int /\ OnSite(e) /\ p \in Int /\ b <= p
            /\ Scale * p <= a \/ Scale * p <= Scale * b
        BY <1>3, <2>2, <2>7
      <3>2. e = p + w /\ w \in Int /\ w > 0 /\ a \in Int /\ Ext(nodes, k) = Scale * w
        BY <1>2, <1>4, <2>7, <3>1
      <3>3. Scale * p < a + d
        <4>1. Scale * p \in Int /\ Scale * b \in Int
          <5> HIDE DEF p, b
          <5> QED BY <1>0, <2>2, <3>1
        <4>2. Scale * b < a + d
          BY <2>5
        <4> HIDE DEF p, b, a, d
        <4> QED BY <1>0, <3>1, <3>2, <4>1, <4>2
      <3>4. Scale * e < a + Ext(nodes, k) + d
        <4>1. Scale * e = Scale * p + Scale * w /\ Scale * p \in Int /\ Scale * w \in Int
          <5> HIDE DEF p, w, e
          <5> QED BY <1>0, <3>1, <3>2
        <4> HIDE DEF p, w, a, d, e
        <4> QED BY <1>0, <3>2, <3>3, <4>1
      <3>5. 0 <= e /\ p < e /\ b < e
        <4> HIDE DEF p, w, e, b
        <4> QED BY <2>2, <3>1, <3>2
      <3>6. ASSUME NEW i \in 1..k, nodes[i].cell # 0 PROVE Pos(i) < e
        <4>1. i = k \/ i \in 1..k - 1
          BY <2>0
        <4>2. CASE i = k
          BY <3>5, <4>2
        <4>3. CASE i \in 1..k - 1
          <5>1. Pos(i) < b /\ b < e /\ b \in Int /\ e \in Int
            BY <2>2, <3>1, <3>5, <3>6, <4>3
          <5>2. Pos(i) \in Int
            <6>1. Good(i)
              BY <1>5, <2>0, <4>3
            <6>2. ends[i] \in Int /\ nodes[i].w \in Int
              BY <1>2, <2>0, <4>3, <6>1
            <6> QED BY <6>2 DEF PosOf
          <5> DEFINE q == Pos(i)
          <5> HIDE DEF q, b, e
          <5>3. q < e
            BY <5>1, <5>2 DEF q
          <5> QED BY <5>3 DEF q
        <4> QED BY <4>1, <4>2, <4>3
      <3> QED BY <2>0, <3>1, <3>4, <3>5, <3>6
    <2> QED BY <2>6, <2>7
  <1>6. Bad = {}
    <2> SUFFICES ASSUME Bad # {} PROVE FALSE
      OBVIOUS
    <2>1. PICK m \in Bad : \A l \in Bad : m <= l
      <3>1. Bad \in SUBSET Nat
        OBVIOUS
      <3> HIDE DEF Bad
      <3> QED BY <3>1, Least
    <2>2. m # 0
      BY <1>1
    <2>3. m \in 1..n /\ \A j \in 0..m - 1 : j \in 0..n /\ ~(m <= j)
      BY <1>0, <2>2
    <2>4. \A j \in 0..m - 1 : j \notin Bad
      <3> HIDE DEF Bad
      <3> QED BY <2>1, <2>3
    <2>5. (\A j \in 0..m - 1 : Good(j)) /\ ~Good(m)
      BY <2>3, <2>4
    <2> HIDE DEF Good
    <2> QED BY <1>5, <2>3, <2>5
  <1>7. ASSUME NEW k \in 0..n PROVE Good(k)
    <2>1. k \notin Bad
      BY <1>6
    <2> HIDE DEF Good
    <2> QED BY <2>1
  <1>8. ASSUME NEW i \in 1..n, NEW k \in 1..n, nodes[i].cell # 0, nodes[k].cell # 0, i < k
        PROVE  Pos(i) < Pos(k)
    <2>1. k - 1 \in 0..n /\ i \in 1..k - 1 /\ i \in 0..n
      BY <1>0, <1>8
    <2>2. Good(k - 1)
      <3> DEFINE j == k - 1
      <3>1. j \in 0..n
        BY <2>1
      <3> HIDE DEF Good, j
      <3>2. Good(j)
        BY <1>7, <3>1
      <3> QED BY <3>2 DEF j
    <2>3. ends[k - 1] \in Int /\ OnSite(ends[k - 1]) /\ Pos(i) < ends[k - 1]
      BY <1>8, <2>1, <2>2
    <2>4. Pos(k) \in Int /\ ends[k - 1] <= Pos(k)
      BY <1>3, <1>8, <2>3
    <2>5. Pos(i) \in Int
      <3>1. Good(i)
        <4> HIDE DEF Good
        <4> QED BY <1>7, <2>1
      <3>2. ends[i] \in Int /\ nodes[i].w \in Int
        BY <1>2, <3>1
      <3> QED BY <3>2 DEF PosOf
    <2> DEFINE p == Pos(i)
               q == Pos(k)
               b == ends[k - 1]
    <2>6. p < b /\ b <= q /\ p \in Int /\ q \in Int /\ b \in Int
      BY <2>3, <2>4, <2>5
    <2>7. p < q
      <3> HIDE DEF p, q, b
      <3> QED BY <2>6
    <2> QED BY <2>7
  <1> QED BY <1>7, <1>8

LEMMA EndsBounded ==
  ASSUME in \in Inputs, NEW r, NEW nodes, IsRow(r, nodes), NEW at, Spread(nodes, at),
         NEW ends, EndsAlong(nodes, at, ends), NEW bound, Bounding(nodes, at, bound)
  PROVE  \A k \in 1..Len(nodes) :
           /\ \A i \in 1..k : IF nodes[i].cell = 0 THEN nodes[i].x + nodes[i].w <= ends[k]
                              ELSE ends[i] <= ends[k]
           /\ nodes[k].cell # 0 => Scale * PosOf(nodes, ends, k) <= bound[k]
  <1> DEFINE n == Len(nodes)
             Pos(i) == PosOf(nodes, ends, i)
             Reach(i) == IF nodes[i].cell = 0 THEN nodes[i].x + nodes[i].w ELSE ends[i]
             Good(k) == /\ \A i \in 1..k : Reach(i) <= ends[k]
                        /\ k > 0 /\ nodes[k].cell # 0 => Scale * Pos(k) <= bound[k]
             Bad == {k \in 0..n : ~Good(k)}
  <1>0. n \in Nat /\ Scale \in Nat /\ Scale > 0 /\ SiteW \in Nat /\ SiteW > 0
    BY Constants DEF IsRow
  <1>1. \A k \in 0..n : ends[k] \in Int /\ OnSite(ends[k])
    BY EndsOrdered
  <1>2. ASSUME NEW k \in 1..n PROVE
        /\ k \in 0..n /\ k - 1 \in 0..n
        /\ at[k] \in Int /\ 0 <= at[k] /\ Ext(nodes, k) \in Int /\ 0 < Ext(nodes, k)
        /\ nodes[k].x \in Int /\ nodes[k].w \in Int /\ nodes[k].w > 0
        /\ Ext(nodes, k) = Scale * nodes[k].w /\ Scale * nodes[k].x \in Int /\ Reach(k) \in Int
        /\ nodes[k].cell # 0 => bound[k] \in Int /\ at[k] <= bound[k] /\ 0 <= bound[k]
    <2>1. k \in 0..n /\ k - 1 \in 0..n
      BY <1>0
    <2>2. /\ at[k] \in Int /\ 0 <= at[k] /\ Ext(nodes, k) \in Int /\ 0 < Ext(nodes, k)
          /\ nodes[k].x \in Int /\ nodes[k].w \in Int /\ nodes[k].w > 0
          /\ Ext(nodes, k) = Scale * nodes[k].w /\ Scale * nodes[k].x \in Int
      BY Extents DEF Spread, Ext
    <2>3. Reach(k) \in Int
      BY <1>1, <2>1, <2>2
    <2> QED BY <2>1, <2>2, <2>3 DEF Bounding
  <1>3. ASSUME NEW k \in 1..n
        PROVE  /\ nodes[k].cell = 0 => ends[k] = Ceil(nodes[k]) /\ nodes[k].x + nodes[k].w <= ends[k]
               /\ nodes[k].cell # 0 =>
                    /\ Pos(k) \in Int /\ ends[k - 1] <= Pos(k) /\ ends[k] = Pos(k) + nodes[k].w
                    /\ Scale * ends[k] = Scale * Pos(k) + Ext(nodes, k)
                    /\ Scale * Pos(k) <= at[k] \/ Scale * Pos(k) <= Scale * ends[k - 1]
    <2>1. \A j \in 1..Len(nodes) : at[j] \in Int /\ at[j] + Ext(nodes, j) <= Scale * Core
      BY DEF Spread
    <2>2. ends[k - 1] \in Int /\ OnSite(ends[k - 1]) /\ ends[k] \in Int
      <3> DEFINE j == k - 1
      <3>1. j \in 0..n /\ k \in 0..n
        BY <1>2
      <3> HIDE DEF j
      <3>2. ends[j] \in Int /\ OnSite(ends[j]) /\ ends[k] \in Int
        BY <1>1, <3>1
      <3> QED BY <3>2 DEF j
    <2>3. /\ nodes[k].cell = 0 => ends[k] = Ceil(nodes[k]) /\ nodes[k].x + nodes[k].w <= ends[k]
          /\ nodes[k].cell # 0 => /\ Pos(k) \in Int /\ ends[k - 1] <= Pos(k)
                                  /\ Scale * Pos(k) <= at[k] \/ Scale * Pos(k) <= Scale * ends[k - 1]
      BY <2>1, <2>2, NodeEnds
    <2>4. ends[k] = Pos(k) + nodes[k].w
      BY <1>2, <2>2 DEF PosOf
    <2>5. Pos(k) \in Int => Scale * ends[k] = Scale * Pos(k) + Ext(nodes, k)
      <3> DEFINE p == Pos(k)
                 w == nodes[k].w
      <3>1. w \in Int /\ Ext(nodes, k) = Scale * w /\ ends[k] = p + w
        BY <1>2, <2>4
      <3>2. p \in Int => Scale * (p + w) = Scale * p + Scale * w
        <4> HIDE DEF p, w
        <4> QED BY <1>0, <3>1
      <3> QED BY <3>1, <3>2
    <2> QED BY <2>3, <2>4, <2>5
  <1>4. Good(0)
    <2>1. \A i \in 1..0 : FALSE
      OBVIOUS
    <2> QED BY <2>1
  <1>5. ASSUME NEW k \in 1..n, \A j \in 0..k - 1 : Good(j) PROVE Good(k)
    <2>0. k \in Int /\ 1 <= k /\ k - 1 \in 0..k - 1 /\ \A i \in 1..k - 1 : i \in 0..k - 1 /\ i \in 1..n /\ i < k /\ i > 0
      BY <1>0
    <2>1. \A i \in 1..k : i = k \/ i \in 1..k - 1
      BY <2>0
    <2>2. \A i \in 1..k - 1 : Reach(i) <= ends[k - 1]
      BY <1>5, <2>0
    <2>3. CASE nodes[k].cell = 0
      <3>1. ends[k] = Ceil(nodes[k]) /\ nodes[k].x + nodes[k].w <= ends[k] /\ ends[k] \in Int
        BY <1>1, <1>2, <1>3, <2>3
      <3>2. nodes[k].x <= ends[k]
        BY <1>2, <3>1
      <3>3. ASSUME NEW i \in 1..k - 1 PROVE Reach(i) <= nodes[k].x
        <4>1. CASE nodes[i].cell = 0
          <5>1. nodes[i].x + nodes[i].w <= nodes[k].x
            BY <2>0, <2>3, <4>1 DEF IsRow
          <5> QED BY <4>1, <5>1
        <4>2. CASE nodes[i].cell # 0
          <5> DEFINE c == nodes[k].x
                     p == Pos(i)
                     e == ends[i]
          <5>1. Scale * p <= bound[i]
            BY <1>5, <2>0, <4>2
          <5>2. bound[i] + Ext(nodes, i) <= Scale * c
            <6>1. k \in i + 1..n
              BY <2>0
            <6> QED BY <2>0, <2>3, <4>2, <6>1 DEF Bounding
          <5>3. p \in Int /\ Scale * e = Scale * p + Ext(nodes, i)
            BY <1>3, <2>0, <4>2
          <5>4. e \in Int /\ c \in Int /\ bound[i] \in Int /\ Ext(nodes, i) \in Int
            BY <1>1, <1>2, <2>0, <4>2
          <5>5. Scale * e <= Scale * c
            <6>1. Scale * p \in Int /\ Scale * c \in Int
              <7> HIDE DEF p, c
              <7> QED BY <5>3, <5>4, ScaledUp
            <6> DEFINE u == Scale * p
                       v == Ext(nodes, i)
                       w == Scale * c
                       b == bound[i]
            <6>2. u \in Int /\ v \in Int /\ w \in Int /\ b \in Int /\ u <= b /\ b + v <= w
              BY <5>1, <5>2, <5>4, <6>1
            <6>3. u + v <= w
              <7> HIDE DEF u, v, w, b
              <7> QED BY <6>2
            <6> QED BY <5>3, <6>3
          <5>6. e <= c
            <6> HIDE DEF e, c
            <6> QED BY <5>4, <5>5, ScaledUp
          <5> QED BY <4>2, <5>6
        <4> QED BY <4>1, <4>2
      <3>4. ASSUME NEW i \in 1..k PROVE Reach(i) <= ends[k]
        <4>1. CASE i = k
          BY <2>3, <3>1, <4>1
        <4>2. CASE i \in 1..k - 1
          <5> DEFINE t == Reach(i)
                     c == nodes[k].x
                     e == ends[k]
          <5>1. t <= c /\ c <= e /\ t \in Int /\ c \in Int /\ e \in Int
            BY <1>2, <2>0, <3>1, <3>2, <3>3, <4>2
          <5>2. t <= e
            <6> HIDE DEF t, c, e
            <6> QED BY <5>1
          <5> QED BY <5>2
        <4> QED BY <2>1, <4>1, <4>2
      <3> HIDE DEF Reach
      <3> QED BY <2>3, <3>4
    <2>4. CASE nodes[k].cell # 0
      <3> DEFINE p == Pos(k)
                 b == ends[k - 1]
                 e == ends[k]
                 a == at[k]
                 v == bound[k]
      <3>1. /\ p \in Int /\ b <= p /\ e = p + nodes[k].w
            /\ Scale * p <= a \/ Scale * p <= Scale * b
        BY <1>3, <2>4
      <3>2. b \in Int
        <4> DEFINE j == k - 1
        <4>1. j \in 0..n
          BY <1>2
        <4> HIDE DEF j
        <4>2. ends[j] \in Int
          BY <1>1, <4>1
        <4> QED BY <4>2 DEF j
      <3>3. e \in Int /\ nodes[k].w \in Int /\ nodes[k].w > 0 /\ a \in Int /\ v \in Int /\ a <= v /\ 0 <= v
        BY <1>1, <1>2, <2>4
      <3>4. b <= e
        <4> HIDE DEF p, b, e
        <4> QED BY <3>1, <3>2, <3>3
      <3>5. ASSUME NEW i \in 1..k PROVE Reach(i) <= e
        <4>1. CASE i = k
          BY <1>1, <2>4, <4>1, <3>3
        <4>2. CASE i \in 1..k - 1
          <5> DEFINE t == Reach(i)
          <5>1. t <= b /\ t \in Int
            BY <1>2, <2>0, <2>2, <4>2
          <5> HIDE DEF t, b, e
          <5>2. t <= e
            BY <3>2, <3>3, <3>4, <5>1
          <5> QED BY <5>2 DEF t
        <4> QED BY <2>1, <4>1, <4>2
      <3>6. Scale * b <= v
        <4>1. CASE k = 1
          <5>1. b = 0 /\ Scale * 0 = 0
            BY <1>0, <4>1 DEF EndsAlong
          <5> QED BY <3>3, <5>1
        <4>2. CASE k > 1
          <5> DEFINE j == k - 1
          <5>1. j \in 1..n /\ j \in 1..k - 1 /\ j > 0 /\ j \in 0..k - 1
            BY <2>0, <4>2
          <5>2. ends[j] = b
            OBVIOUS
          <5> HIDE DEF j, b, v
          <5>3. CASE nodes[j].cell = 0
            <6>1. b = Ceil(nodes[j])
              BY <1>3, <5>1, <5>2, <5>3
            <6>2. Scale * Ceil(nodes[j]) <= bound[k]
              BY <2>4, <5>1, <5>3 DEF Bounding
            <6> QED BY <6>1, <6>2 DEF v
          <5>4. CASE nodes[j].cell # 0
            <6>1. Scale * Pos(j) <= bound[j] /\ bound[j] + Ext(nodes, j) <= bound[k]
              <7>1. Good(j)
                BY <1>5, <5>1
              <7>2. Scale * Pos(j) <= bound[j]
                BY <5>1, <5>4, <7>1
              <7>3. bound[j] + Ext(nodes, j) <= bound[k]
                BY <2>4, <5>1, <5>4 DEF Bounding
              <7> QED BY <7>2, <7>3
            <6>2. Scale * ends[j] = Scale * Pos(j) + Ext(nodes, j) /\ Pos(j) \in Int
              BY <1>3, <5>1, <5>4
            <6>3. bound[j] \in Int /\ Ext(nodes, j) \in Int
              BY <1>2, <5>1, <5>4
            <6> DEFINE s == Scale * Pos(j)
            <6>4. s \in Int
              <7> DEFINE g == Pos(j)
              <7>1. g \in Int
                BY <6>2
              <7> HIDE DEF g
              <7>2. Scale * g \in Int
                BY <1>0, <7>1
              <7> QED BY <7>2 DEF g
            <6>5. Scale * b = s + Ext(nodes, j) /\ s <= bound[j] /\ bound[j] + Ext(nodes, j) <= v
              BY <5>2, <6>1, <6>2 DEF v
            <6> HIDE DEF s
            <6> QED BY <3>3, <6>3, <6>4, <6>5
          <5> QED BY <5>3, <5>4
        <4> QED BY <2>0, <4>1, <4>2
      <3>7. Scale * p <= v
        <4>1. Scale * p \in Int /\ Scale * b \in Int
          <5> HIDE DEF p, b
          <5> QED BY <1>0, <3>1, <3>2
        <4> HIDE DEF p, a, b, v
        <4> QED BY <3>1, <3>3, <3>6, <4>1
      <3> HIDE DEF Reach
      <3> QED BY <2>4, <3>5, <3>7
    <2> QED BY <2>3, <2>4
  <1>6. Bad = {}
    <2> SUFFICES ASSUME Bad # {} PROVE FALSE
      OBVIOUS
    <2>1. PICK m \in Bad : \A l \in Bad : m <= l
      <3>1. Bad \in SUBSET Nat
        OBVIOUS
      <3> HIDE DEF Bad
      <3> QED BY <3>1, Least
    <2>2. m # 0
      BY <1>4
    <2>3. m \in 1..n /\ \A j \in 0..m - 1 : j \in 0..n /\ ~(m <= j)
      BY <1>0, <2>2
    <2>4. \A j \in 0..m - 1 : j \notin Bad
      <3> HIDE DEF Bad
      <3> QED BY <2>1, <2>3
    <2>5. (\A j \in 0..m - 1 : Good(j)) /\ ~Good(m)
      BY <2>3, <2>4
    <2> HIDE DEF Good
    <2> QED BY <1>5, <2>3, <2>5
  <1>7. ASSUME NEW k \in 1..n
        PROVE  /\ \A i \in 1..k : Reach(i) <= ends[k]
               /\ nodes[k].cell # 0 => Scale * Pos(k) <= bound[k]
    <2>1. k \in 0..n /\ k > 0 /\ k \notin Bad
      BY <1>0, <1>6
    <2>2. Good(k)
      <3> HIDE DEF Good
      <3> QED BY <2>1
    <2> HIDE DEF Reach
    <2> QED BY <2>1, <2>2
  <1> QED BY <1>7

-----------------------------------------------------------------------------
(* Legal places of the cells of a row.                                     *)

Free(r, v, w) ==
  0 <= v /\ v + w <= Core /\ \A b \in Blocked(r) : b < v \/ v + w <= b

LegalCells(r, pos, S) ==
  \A c \in S :
    /\ pos[c] \in Int /\ Free(r, pos[c], W(c))
    /\ \A d \in S \ {c} : pos[c] + W(c) <= pos[d] \/ pos[d] + W(d) <= pos[c]

LEMMA SpansFree ==
  ASSUME NEW r, NEW v \in Int, NEW w \in Int, w > 0
  PROVE  Span(v, w) \subseteq (0..Core - 1) \ Blocked(r) <=> Free(r, v, w)
  <1>0. Core \in Int /\ \A b \in Blocked(r) : b \in Int
    BY Constants, BlockedFacts
  <1>1. \A b \in Span(v, w) : b \in Int /\ v <= b /\ b < v + w
    BY DEF Span
  <1>2. \A b \in Int : v <= b /\ b < v + w => b \in Span(v, w)
    BY DEF Span
  <1>3. ASSUME Free(r, v, w) PROVE Span(v, w) \subseteq (0..Core - 1) \ Blocked(r)
    <2> SUFFICES ASSUME NEW b \in Span(v, w) PROVE b \in 0..Core - 1 /\ b \notin Blocked(r)
      OBVIOUS
    <2>1. b \in Int /\ v <= b /\ b < v + w
      BY <1>1
    <2>2. 0 <= v /\ v + w <= Core /\ \A e \in Blocked(r) : e < v \/ v + w <= e
      BY <1>3 DEF Free
    <2>3. b \in 0..Core - 1
      BY <1>0, <2>1, <2>2
    <2>4. ~(b < v \/ v + w <= b)
      BY <2>1
    <2> QED BY <2>2, <2>3, <2>4
  <1>4. ASSUME Span(v, w) \subseteq (0..Core - 1) \ Blocked(r) PROVE Free(r, v, w)
    <2>1. v \in Span(v, w) /\ v + w - 1 \in Span(v, w)
      BY <1>2
    <2>2. v \in 0..Core - 1 /\ v + w - 1 \in 0..Core - 1
      BY <1>4, <2>1
    <2>3. 0 <= v /\ v + w <= Core
      BY <1>0, <2>2
    <2>4. ASSUME NEW b \in Blocked(r) PROVE b < v \/ v + w <= b
      <3>1. b \notin Span(v, w) /\ b \in Int
        BY <1>0, <1>4
      <3> QED BY <1>2, <3>1
    <2> QED BY <2>3, <2>4 DEF Free
  <1> QED BY <1>3, <1>4

LEMMA SpansApart ==
  ASSUME NEW a \in Int, NEW w \in Int, w > 0, NEW b \in Int, NEW u \in Int, u > 0
  PROVE  Span(a, w) \cap Span(b, u) = {} <=> a + w <= b \/ b + u <= a
  <1>1. /\ \A v \in Span(a, w) : v \in Int /\ a <= v /\ v < a + w
        /\ \A v \in Span(b, u) : v \in Int /\ b <= v /\ v < b + u
        /\ \A v \in Int : a <= v /\ v < a + w => v \in Span(a, w)
        /\ \A v \in Int : b <= v /\ v < b + u => v \in Span(b, u)
    BY DEF Span
  <1>2. ASSUME a + w <= b \/ b + u <= a PROVE Span(a, w) \cap Span(b, u) = {}
    <2> SUFFICES ASSUME NEW v \in Span(a, w), v \in Span(b, u) PROVE FALSE
      OBVIOUS
    <2>1. v \in Int /\ a <= v /\ v < a + w /\ b <= v /\ v < b + u
      BY <1>1
    <2> QED BY <1>2, <2>1
  <1>3. ASSUME ~(a + w <= b), ~(b + u <= a) PROVE Span(a, w) \cap Span(b, u) # {}
    <2>1. CASE a <= b
      <3>1. b \in Span(a, w) /\ b \in Span(b, u)
        BY <1>1, <1>3, <2>1
      <3> QED BY <3>1
    <2>2. CASE ~(a <= b)
      <3>1. a \in Span(a, w) /\ a \in Span(b, u)
        BY <1>1, <1>3, <2>2
      <3> QED BY <3>1
    <2> QED BY <2>1, <2>2
  <1> QED BY <1>2, <1>3

LEMMA ObstacleSide ==
  ASSUME NEW r, NEW m, NodeOk(r, m), m.cell = 0,
         NEW v \in Int, NEW w \in Int, w > 0, Free(r, v, w)
  PROVE  m.x + m.w <= v \/ v + w <= m.x
  <1> DEFINE a == m.x
             e == m.x + m.w
             o == <<a, e>>
  <1>1. a \in Int /\ e \in Int /\ a < e
    <2>1. m.x \in Int /\ m.w \in Int /\ m.w > 0
      BY FixedNode
    <2> QED BY <2>1
  <1>2. o \in Obstacles(r) /\ o[1] = a /\ o[2] = e
    BY DEF NodeOk
  <1>3. \A b \in Int : a <= b /\ b < e => b \in Blocked(r)
    <2> HIDE DEF a, e, o
    <2>1. \A b \in Int : o[1] <= b /\ b < o[2] => b \in Blocked(r)
      BY <1>2, BlockedFacts
    <2> QED BY <1>2, <2>1
  <1> HIDE DEF a, e, o
  <1>4. \A b \in Int : a <= b /\ b < e => b < v \/ v + w <= b
    BY <1>3 DEF Free
  <1>5. ~(a <= v /\ v < e)
    BY <1>4
  <1>6. ~(v <= a /\ a < v + w)
    BY <1>1, <1>4
  <1>7. e <= v \/ v + w <= a
    BY <1>1, <1>5, <1>6
  <1> QED BY <1>7 DEF a, e

\* The cells of the row are on sites, and in legal places.
Good(r) == LegalCells(r, x, InRow(r)) /\ \A c \in InRow(r) : OnSite(x[c])

LEMMA NodesApart ==
  ASSUME NEW r, NEW nodes, IsRow(r, nodes), Good(r),
         NEW i \in 1..Len(nodes), NEW k \in 1..Len(nodes), i < k
  PROVE  nodes[i].x + nodes[i].w <= nodes[k].x
  <1> DEFINE m == nodes[i]
             n == nodes[k]
  <1>1. NodeOk(r, m) /\ NodeOk(r, n) /\ Centre(m) <= Centre(n)
    BY DEF IsRow
  <1>2. m.x \in Int /\ m.w \in Int /\ m.w > 0 /\ n.x \in Int /\ n.w \in Int /\ n.w > 0
    BY <1>1 DEF NodeOk
  <1>3. m.x + m.w <= n.x \/ n.x + n.w <= m.x
    <2>1. CASE m.cell = 0 /\ n.cell = 0
      BY <2>1 DEF IsRow
    <2>2. ASSUME m.cell = 0, n.cell # 0 PROVE m.x + m.w <= n.x \/ n.x + n.w <= m.x
      <3>1. Free(r, n.x, n.w)
        BY <1>1, <2>2 DEF NodeOk, Good, LegalCells
      <3> HIDE DEF m, n
      <3> QED BY <1>1, <1>2, <2>2, <3>1, ObstacleSide
    <2>3. ASSUME m.cell # 0, n.cell = 0 PROVE m.x + m.w <= n.x \/ n.x + n.w <= m.x
      <3>1. Free(r, m.x, m.w)
        BY <1>1, <2>3 DEF NodeOk, Good, LegalCells
      <3> HIDE DEF m, n
      <3> QED BY <1>1, <1>2, <2>3, <3>1, ObstacleSide
    <2>4. CASE m.cell # 0 /\ n.cell # 0
      <3>1. m.cell # n.cell
        BY <2>4 DEF IsRow
      <3>2. /\ m.cell \in InRow(r) /\ m.x = x[m.cell] /\ m.w = W(m.cell)
            /\ n.cell \in InRow(r) /\ n.x = x[n.cell] /\ n.w = W(n.cell)
        BY <1>1, <2>4 DEF NodeOk
      <3> HIDE DEF m, n
      <3> QED BY <3>1, <3>2 DEF Good, LegalCells
    <2> QED BY <2>1, <2>2, <2>3, <2>4
  <1>4. 2 * m.x + m.w <= 2 * n.x + n.w
    BY <1>1 DEF Centre
  <1> DEFINE a == m.x
             b == m.w
             c == n.x
             d == n.w
  <1>5. a + b <= c
    <2>1. /\ a \in Int /\ b \in Int /\ b > 0 /\ c \in Int /\ d \in Int /\ d > 0
          /\ a + b <= c \/ c + d <= a
          /\ 2 * a + b <= 2 * c + d
      BY <1>2, <1>3, <1>4
    <2> HIDE DEF a, b, c, d
    <2> QED BY <2>1
  <1> QED BY <1>5

LEMMA BoundOnSites ==
  ASSUME NEW r, NEW nodes, IsRow(r, nodes), NEW at, Spread(nodes, at), EndsOnSites(r)
  PROVE  Bounding(nodes, at, at)
  <1> SUFFICES ASSUME NEW k \in 1..Len(nodes), nodes[k].cell # 0
               PROVE  /\ at[k] \in Int /\ at[k] <= at[k] /\ 0 <= at[k]
                      /\ at[k] + Ext(nodes, k) <= Scale * Core
                      /\ \A i \in 1..k - 1 :
                           IF nodes[i].cell = 0 THEN Scale * Ceil(nodes[i]) <= at[k]
                           ELSE at[i] + Ext(nodes, i) <= at[k]
                      /\ \A j \in k + 1..Len(nodes) :
                           nodes[j].cell = 0 => at[k] + Ext(nodes, k) <= Scale * nodes[j].x
    BY DEF Bounding
  <1>0. Len(nodes) \in Nat
    BY DEF IsRow
  <1>1. /\ at[k] \in Int /\ at[k] <= at[k] /\ 0 <= at[k]
        /\ at[k] + Ext(nodes, k) <= Scale * Core
    BY DEF Spread
  <1>2. ASSUME NEW i \in 1..k - 1
        PROVE  IF nodes[i].cell = 0 THEN Scale * Ceil(nodes[i]) <= at[k]
               ELSE at[i] + Ext(nodes, i) <= at[k]
    <2>1. i \in 1..Len(nodes) /\ i < k
      BY <1>0
    <2>2. at[i] + Ext(nodes, i) <= at[k]
      BY <2>1 DEF Spread
    <2>3. ASSUME nodes[i].cell = 0 PROVE Scale * Ceil(nodes[i]) = at[i] + Ext(nodes, i)
      <3> DEFINE m == nodes[i]
                 v == m.x + m.w
                 o == <<m.x, v>>
      <3>1. NodeOk(r, m)
        BY <2>1 DEF IsRow
      <3>2. v \in Int /\ o \in Obstacles(r) /\ o[2] = v
        BY <2>3, <3>1 DEF NodeOk
      <3>3. OnSite(v)
        <4>1. v % SiteW = 0
          <5> HIDE DEF v, o
          <5> QED BY <3>2 DEF EndsOnSites
        <4> HIDE DEF v
        <4> QED BY <3>2, <4>1, OnSiteFacts
      <3>4. Ceil(m) \in Int /\ v <= Ceil(m) /\ \A w \in Int : OnSite(w) /\ v <= w => Ceil(m) <= w
        <4>1. Ceil(m) = ((v + SiteW - 1) \div SiteW) * SiteW
          BY DEF Ceil
        <4> HIDE DEF v
        <4> QED BY <3>2, <4>1, CeilFacts
      <3>5. Ceil(m) = v
        <4>1. v <= v
          BY <3>2
        <4> HIDE DEF v
        <4> QED BY <3>2, <3>3, <3>4, <4>1
      <3>6. at[i] = Scale * m.x /\ Scale * v = Scale * m.x + Ext(nodes, i)
        BY <2>1, <2>3, Extents DEF Spread
      <3> QED BY <3>5, <3>6
    <2> QED BY <2>2, <2>3
  <1>3. ASSUME NEW j \in k + 1..Len(nodes), nodes[j].cell = 0
        PROVE  at[k] + Ext(nodes, k) <= Scale * nodes[j].x
    <2>1. j \in 1..Len(nodes) /\ k < j
      BY <1>0
    <2> QED BY <1>3, <2>1 DEF Spread
  <1> QED BY <1>1, <1>2, <1>3

LEMMA BoundGood ==
  ASSUME NEW r, NEW nodes, IsRow(r, nodes), NEW at, Spread(nodes, at), Good(r)
  PROVE  \E bound : Bounding(nodes, at, bound)
  <1> DEFINE n == Len(nodes)
             Was(k) == Scale * nodes[k].x
             bound == [k \in 1..n |-> IF at[k] <= Was(k) THEN Was(k) ELSE at[k]]
  <1>0. n \in Nat
    BY DEF IsRow
  <1>1. ASSUME NEW k \in 1..n
        PROVE  /\ at[k] \in Int /\ 0 <= at[k] /\ Was(k) \in Int /\ Ext(nodes, k) \in Int
               /\ at[k] + Ext(nodes, k) <= Scale * Core /\ Scale * Core \in Int
               /\ nodes[k].cell = 0 => at[k] = Was(k)
    BY Extents, Constants DEF Spread
  <1>2. ASSUME NEW i \in 1..n, NEW k \in 1..n, i < k
        PROVE  at[i] + Ext(nodes, i) <= at[k] /\ Was(i) + Ext(nodes, i) <= Was(k)
    <2>1. at[i] + Ext(nodes, i) <= at[k]
      BY <1>2 DEF Spread
    <2> DEFINE a == nodes[i].x + nodes[i].w
               b == nodes[k].x
    <2>2. a <= b
      BY <1>2, NodesApart
    <2>3. Scale * a = Was(i) + Ext(nodes, i) /\ nodes[i].x \in Int /\ nodes[i].w \in Int /\ b \in Int
      BY Extents
    <2>4. a \in Int
      BY <2>3
    <2>5. Scale * a <= Scale * b
      <3> HIDE DEF a, b
      <3> QED BY <2>2, <2>3, <2>4, ScaledUp
    <2> HIDE DEF a
    <2> QED BY <2>1, <2>3, <2>5
  <1>3. ASSUME NEW k \in 1..n
        PROVE  /\ bound[k] \in Int /\ at[k] <= bound[k] /\ Was(k) <= bound[k] /\ 0 <= bound[k]
               /\ bound[k] = at[k] \/ bound[k] = Was(k)
    <2> DEFINE a == at[k]
               w == Was(k)
               b == bound[k]
    <2>1. b = IF a <= w THEN w ELSE a
      OBVIOUS
    <2>2. a \in Int /\ w \in Int /\ 0 <= a
      BY <1>1
    <2>3. b \in Int /\ a <= b /\ w <= b /\ 0 <= b /\ (b = a \/ b = w)
      <3> HIDE DEF a, w, b
      <3> QED BY <2>1, <2>2
    <2> HIDE DEF bound, Was
    <2> QED BY <2>3
  <1> HIDE DEF bound
  <1>4. ASSUME NEW k \in 1..n, nodes[k].cell # 0
        PROVE  bound[k] + Ext(nodes, k) <= Scale * Core
    <2>1. Was(k) + Ext(nodes, k) <= Scale * Core
      <3> DEFINE v == nodes[k].x
                 w == nodes[k].w
      <3>1. NodeOk(r, nodes[k])
        BY DEF IsRow
      <3>2. v + w <= Core
        BY <1>4, <3>1 DEF NodeOk, Good, LegalCells, Free
      <3>3. v + w \in Int /\ Core \in Int /\ Scale * (v + w) = Was(k) + Ext(nodes, k)
        <4>1. v \in Int /\ w \in Int /\ Scale * (v + w) = Was(k) + Ext(nodes, k)
          BY Extents
        <4> QED BY <4>1, Constants
      <3>4. Scale * (v + w) <= Scale * Core
        <4> DEFINE e == v + w
        <4>1. e \in Int /\ Core \in Int /\ e <= Core
          BY <3>2, <3>3
        <4> HIDE DEF e
        <4>2. Scale * e <= Scale * Core
          BY <4>1, ScaledUp
        <4> QED BY <4>2 DEF e
      <3> QED BY <3>3, <3>4
    <2> HIDE DEF Was
    <2> QED BY <1>1, <1>3, <2>1
  <1>5. ASSUME NEW k \in 1..n, nodes[k].cell # 0, NEW i \in 1..k - 1
        PROVE  IF nodes[i].cell = 0 THEN Scale * Ceil(nodes[i]) <= bound[k]
               ELSE bound[i] + Ext(nodes, i) <= bound[k]
    <2>1. i \in 1..n /\ i < k
      BY <1>0
    <2>2. CASE nodes[i].cell # 0
      <3>1. at[i] + Ext(nodes, i) <= at[k] /\ Was(i) + Ext(nodes, i) <= Was(k)
        BY <1>2, <2>1
      <3>2. /\ at[k] \in Int /\ Was(k) \in Int /\ Ext(nodes, i) \in Int /\ bound[k] \in Int
            /\ at[k] <= bound[k] /\ Was(k) <= bound[k] /\ at[i] \in Int /\ Was(i) \in Int
            /\ bound[i] = at[i] \/ bound[i] = Was(i)
        BY <1>1, <1>3, <2>1
      <3> DEFINE a == at[i]
                 b == Was(i)
                 e == Ext(nodes, i)
                 c == at[k]
                 d == Was(k)
                 f == bound[i]
                 g == bound[k]
      <3>3. f + e <= g
        <4>1. /\ a + e <= c /\ b + e <= d /\ c \in Int /\ d \in Int /\ e \in Int /\ g \in Int
              /\ c <= g /\ d <= g /\ a \in Int /\ b \in Int /\ (f = a \/ f = b)
          BY <3>1, <3>2
        <4> HIDE DEF a, b, c, d, e, f, g
        <4> QED BY <4>1
      <3> QED BY <2>2, <3>3
    <2>3. CASE nodes[i].cell = 0
      <3> DEFINE v == nodes[i].x + nodes[i].w
                 u == Ceil(nodes[i])
                 c == nodes[k].x
      <3>1. NodeOk(r, nodes[k])
        BY DEF IsRow
      <3>2. OnSite(c) /\ c \in Int
        BY <1>5, <3>1 DEF NodeOk, Good
      <3>3. v <= c
        BY <2>1, NodesApart
      <3>4. v \in Int
        <4>1. nodes[i].x \in Int /\ nodes[i].w \in Int
          BY <2>1, Extents
        <4> QED BY <4>1
      <3>5. u \in Int /\ u <= c
        <4>1. u = ((v + SiteW - 1) \div SiteW) * SiteW
          BY DEF Ceil
        <4> HIDE DEF v, u, c
        <4> QED BY <3>2, <3>3, <3>4, <4>1, CeilFacts
      <3>6. Scale * u <= Scale * c
        <4> HIDE DEF u, c
        <4> QED BY <3>2, <3>5, ScaledUp
      <3>7. Scale * u \in Int
        <4> HIDE DEF u
        <4> QED BY <3>5, ScaledUp
      <3>8. Was(k) <= bound[k] /\ Was(k) \in Int /\ bound[k] \in Int /\ Was(k) = Scale * c
        BY <1>1, <1>3
      <3> DEFINE s == Scale * u
                 w == Was(k)
                 g == bound[k]
      <3>9. s <= g
        <4>1. s <= w /\ w <= g /\ s \in Int /\ w \in Int /\ g \in Int
          BY <3>6, <3>7, <3>8
        <4> HIDE DEF s, w, g
        <4> QED BY <4>1
      <3> QED BY <2>3, <3>9
    <2> QED BY <2>2, <2>3
  <1>6. ASSUME NEW k \in 1..n, NEW j \in k + 1..n, nodes[j].cell = 0
        PROVE  bound[k] + Ext(nodes, k) <= Scale * nodes[j].x
    <2>1. j \in 1..n /\ k < j
      BY <1>0
    <2>2. at[k] + Ext(nodes, k) <= at[j] /\ Was(k) + Ext(nodes, k) <= Was(j) /\ at[j] = Was(j)
      BY <1>1, <1>2, <1>6, <2>1
    <2>3. bound[k] = at[k] \/ bound[k] = Was(k)
      BY <1>3
    <2>4. bound[k] + Ext(nodes, k) <= Was(j)
      <3> HIDE DEF Was
      <3> QED BY <2>2, <2>3
    <2> QED BY <2>4
  <1>7. \A k \in 1..n : nodes[k].cell # 0 =>
          bound[k] \in Int /\ at[k] \in Int /\ at[k] <= bound[k] /\ 0 <= bound[k]
    BY <1>1, <1>3
  <1>8. Bounding(nodes, at, bound)
    BY <1>4, <1>5, <1>6, <1>7 DEF Bounding
  <1> QED BY <1>8

LEMMA AlignedLegal ==
  ASSUME in \in Inputs, NEW r, NEW nodes, IsRow(r, nodes), NEW at, Spread(nodes, at),
         NEW ends, EndsAlong(nodes, at, ends), EndsOnSites(r) \/ Good(r),
         NEW k \in 1..Len(nodes), nodes[k].cell # 0
  PROVE  /\ Free(r, PosOf(nodes, ends, k), nodes[k].w)
         /\ \A i \in 1..k - 1 : nodes[i].cell # 0 => ends[i] <= PosOf(nodes, ends, k)
  <1> DEFINE n == Len(nodes)
             p == PosOf(nodes, ends, k)
             w == nodes[k].w
             b == ends[k - 1]
  <1>0. n \in Nat /\ k \in Int /\ 1 <= k /\ k \in 0..n
    BY DEF IsRow
  <1>1. PICK bound : Bounding(nodes, at, bound)
    BY BoundOnSites, BoundGood
  <1>2. \A j \in 0..n : ends[j] \in Int /\ OnSite(ends[j]) /\ 0 <= ends[j]
    BY EndsOrdered
  <1>3. \A j \in 1..n :
          /\ \A i \in 1..j : IF nodes[i].cell = 0 THEN nodes[i].x + nodes[i].w <= ends[j]
                             ELSE ends[i] <= ends[j]
          /\ nodes[j].cell # 0 => Scale * PosOf(nodes, ends, j) <= bound[j]
    BY <1>1, EndsBounded
  <1>4. b \in Int /\ OnSite(b) /\ 0 <= b
    <2> DEFINE j == k - 1
    <2>1. j \in 0..n
      BY <1>0
    <2> HIDE DEF j
    <2>2. ends[j] \in Int /\ OnSite(ends[j]) /\ 0 <= ends[j]
      BY <1>2, <2>1
    <2> QED BY <2>2 DEF j
  <1>5. p \in Int /\ b <= p
    <2>1. \A j \in 1..Len(nodes) : at[j] \in Int /\ at[j] + Ext(nodes, j) <= Scale * Core
      BY DEF Spread
    <2> QED BY <1>4, <2>1, NodeEnds
  <1>6. ASSUME NEW i \in 1..k - 1
        PROVE  IF nodes[i].cell = 0 THEN nodes[i].x + nodes[i].w <= p ELSE ends[i] <= p
    <2> DEFINE j == k - 1
    <2>1. j \in 1..n /\ i \in 1..j /\ i \in 1..n /\ i \in 0..n
      BY <1>0
    <2>2. IF nodes[i].cell = 0 THEN nodes[i].x + nodes[i].w <= ends[j] ELSE ends[i] <= ends[j]
      <3> HIDE DEF j
      <3> QED BY <1>3, <2>1
    <2>3. nodes[i].x \in Int /\ nodes[i].w \in Int /\ ends[i] \in Int /\ ends[j] = b
      BY <1>2, <2>1, Extents
    <2> HIDE DEF p, b, j
    <2> QED BY <1>4, <1>5, <2>2, <2>3
  <1>7. w \in Int /\ w > 0 /\ Ext(nodes, k) = Scale * w /\ Scale * (p + w) = Scale * p + Ext(nodes, k)
    <2>1. w \in Int /\ w > 0 /\ Ext(nodes, k) = Scale * w
      BY Extents DEF Ext
    <2>2. Scale * (p + w) = Scale * p + Scale * w
      <3> HIDE DEF p, w
      <3> QED BY <1>5, <2>1, ScaledUp
    <2> QED BY <2>1, <2>2
  <1>8. \A v \in Int : bound[k] + Ext(nodes, k) <= Scale * v => p + w <= v
    <2> TAKE v \in Int
    <2> DEFINE s == Scale * p
               e == Ext(nodes, k)
               g == bound[k]
               u == Scale * v
    <2>1. s <= g
      BY <1>3
    <2>2. s \in Int /\ u \in Int /\ p + w \in Int /\ Scale * (p + w) = s + e
      <3>1. p + w \in Int
        BY <1>5, <1>7
      <3>2. Scale * p \in Int /\ Scale * v \in Int
        <4> HIDE DEF p
        <4> QED BY <1>5, ScaledUp
      <3> QED BY <1>7, <3>1, <3>2
    <2>3. g \in Int /\ e \in Int
      BY <1>1, Extents DEF Bounding
    <2>4. g + e <= u => s + e <= u
      <3> HIDE DEF s, g, e, u
      <3> QED BY <2>1, <2>2, <2>3
    <2>5. Scale * (p + w) <= Scale * v => p + w <= v
      <3> DEFINE f == p + w
      <3>1. f \in Int
        BY <2>2
      <3> HIDE DEF f
      <3>2. Scale * f <= Scale * v => f <= v
        BY <3>1, ScaledUp
      <3> QED BY <3>2 DEF f
    <2> QED BY <2>2, <2>4, <2>5
  <1>9. 0 <= p /\ p + w <= Core
    <2>1. 0 <= p
      <3> HIDE DEF p, b
      <3> QED BY <1>4, <1>5
    <2>2. bound[k] + Ext(nodes, k) <= Scale * Core /\ Core \in Int
      BY <1>1, Constants DEF Bounding
    <2> HIDE DEF p, w
    <2> QED BY <1>8, <2>1, <2>2
  <1>10. ASSUME NEW c \in Blocked(r) PROVE c < p \/ p + w <= c
    <2>1. PICK o \in Obstacles(r) : o[1] <= c /\ c < o[2]
      BY BlockedFacts
    <2>2. PICK j \in 1..n : nodes[j].cell = 0 /\ nodes[j].x = o[1] /\ nodes[j].w = o[2] - o[1]
      BY DEF IsRow
    <2>3. o[1] \in Int /\ o[2] \in Int /\ nodes[j].x + nodes[j].w = o[2] /\ c \in Int
      <3>1. o[1] \in 0..Core /\ o[2] \in 0..Core /\ c \in 0..Core - 1
        BY BlockedFacts
      <3> QED BY <2>2, <3>1, Constants
    <2>4. j \in Int /\ j # k
      BY <1>0, <2>2
    <2>5. CASE j < k
      <3>1. j \in 1..k - 1
        BY <1>0, <2>5
      <3>2. o[2] <= p
        BY <1>6, <2>2, <2>3, <3>1
      <3> DEFINE t == o[2]
      <3>3. c < t /\ t <= p /\ t \in Int
        BY <2>1, <2>3, <3>2
      <3>4. c < p
        <4> HIDE DEF t, p
        <4> QED BY <1>5, <2>3, <3>3
      <3> QED BY <3>4
    <2>6. CASE j > k
      <3>1. j \in k + 1..n
        BY <1>0, <2>6
      <3>2. bound[k] + Ext(nodes, k) <= Scale * nodes[j].x
        BY <1>1, <2>2, <3>1 DEF Bounding
      <3>3. p + w <= o[1]
        <4> HIDE DEF p, w
        <4> QED BY <1>8, <2>2, <2>3, <3>2
      <3> DEFINE t == o[1]
      <3>4. t <= c /\ p + w <= t /\ t \in Int /\ p + w \in Int
        BY <1>5, <1>7, <2>1, <2>3, <3>3
      <3>5. p + w <= c
        <4> HIDE DEF t, p, w
        <4> QED BY <2>3, <3>4
      <3> QED BY <3>5
    <2> QED BY <1>0, <2>4, <2>5, <2>6
  <1>11. Free(r, p, w)
    <2> HIDE DEF p, w
    <2> QED BY <1>9, <1>10 DEF Free
  <1> QED BY <1>6, <1>11

LEMMA AbacusRow ==
  ASSUME in \in Inputs, x \in [Cells -> Int], NEW r, PlaceRow(Nodes(r)).ok,
         NEW X, \A c \in InRow(r) : X[c] = AbacusX(c)
  PROVE  /\ \A c \in InRow(r) : X[c] \in Int /\ 0 <= X[c] /\ OnSite(X[c])
         /\ \A c, d \in InRow(r) : X[c] = X[d] => c = d
         /\ EndsOnSites(r) \/ Good(r) => LegalCells(r, X, InRow(r))
  <1> DEFINE nodes == Nodes(r)
             n == Len(nodes)
             at == PlaceRow(nodes).at
             ends == Aligned(nodes, at)
             Pos(k) == PosOf(nodes, ends, k)
             Of(c) == CHOOSE k \in DOMAIN nodes : nodes[k].cell = c
  <1>1. IsRow(r, nodes)
    BY NodesSorted
  <1>2. n \in Nat /\ DOMAIN nodes = 1..n
    <2> HIDE DEF nodes
    <2> QED BY <1>1 DEF IsRow
  <1>3. Spread(nodes, at)
    <2>1. InPlace(nodes, PlaceRow(nodes), n)
      <3>1. PlaceRow(nodes).ok
        OBVIOUS
      <3> HIDE DEF nodes
      <3> QED BY <1>1, <3>1, RowPlaced
    <2> HIDE DEF nodes
    <2> QED BY <2>1 DEF InPlace, Spread
  <1>4. EndsAlong(nodes, at, ends)
    <2> HIDE DEF nodes, at
    <2> QED BY <1>1, AlignedAlong
  <1> HIDE DEF ends
  <1>5. ASSUME NEW c \in InRow(r)
        PROVE  /\ Of(c) \in 1..n /\ nodes[Of(c)].cell = c /\ c # 0 /\ c \in Cells
               /\ nodes[Of(c)].w = W(c) /\ X[c] = Pos(Of(c))
    <2>1. RowOf(y[c]) = r /\ c \in Cells /\ c # 0
      BY LegalizeAssumption DEF InRow
    <2>2. \E k \in 1..n : nodes[k].cell = c
      <3> HIDE DEF nodes
      <3> QED BY <1>1 DEF IsRow
    <2>3. Of(c) \in 1..n /\ nodes[Of(c)].cell = c
      <3> HIDE DEF nodes, n
      <3> QED BY <1>2, <2>2
    <2>4. nodes[Of(c)].w = W(c)
      <3> DEFINE k == Of(c)
      <3>1. k \in 1..n /\ nodes[k].cell = c
        BY <2>3
      <3> HIDE DEF nodes, k
      <3>2. NodeOk(r, nodes[k])
        BY <1>1, <3>1 DEF IsRow
      <3>3. nodes[k].w = W(c)
        BY <2>1, <3>1, <3>2 DEF NodeOk
      <3> QED BY <3>3 DEF k
    <2>5. AbacusX(c) = ends[Of(c)] - W(c)
      <3> HIDE DEF nodes
      <3> QED BY <2>1 DEF AbacusX, nodes, ends
    <2> HIDE DEF nodes, n
    <2> QED BY <2>1, <2>3, <2>4, <2>5 DEF PosOf
  <1> HIDE DEF Of
  <1>6. ASSUME NEW k \in 1..n, nodes[k].cell # 0
        PROVE  Pos(k) \in Int /\ 0 <= Pos(k) /\ OnSite(Pos(k)) /\ ends[k] = Pos(k) + nodes[k].w
    <2> HIDE DEF nodes, at
    <2>1. \A j \in 0..n : ends[j] \in Int /\ OnSite(ends[j]) /\ 0 <= ends[j]
      BY <1>1, <1>3, <1>4, EndsOrdered
    <2> DEFINE j == k - 1
    <2>2. j \in 0..n /\ k \in 0..n
      BY <1>2
    <2>3. ends[j] \in Int /\ OnSite(ends[j]) /\ 0 <= ends[j] /\ ends[k] \in Int
      <3> HIDE DEF j
      <3> QED BY <2>1, <2>2
    <2>4. \A i \in 1..Len(nodes) : at[i] \in Int /\ at[i] + Ext(nodes, i) <= Scale * Core
      BY <1>3 DEF Spread
    <2>5. Pos(k) \in Int /\ OnSite(Pos(k)) /\ ends[j] <= Pos(k)
      BY <1>1, <1>4, <1>6, <2>3, <2>4, NodeEnds
    <2>6. 0 <= Pos(k)
      <3> DEFINE p == Pos(k)
                 b == ends[j]
      <3>1. b \in Int /\ 0 <= b /\ b <= p /\ p \in Int
        BY <2>3, <2>5
      <3> HIDE DEF p, b
      <3>2. 0 <= p
        BY <3>1
      <3> QED BY <3>2 DEF p
    <2>7. ends[k] = Pos(k) + nodes[k].w
      <3>1. nodes[k].w \in Int
        BY <1>1, Extents
      <3> QED BY <2>3, <3>1 DEF PosOf
    <2> QED BY <2>5, <2>6, <2>7
  <1>7. ASSUME NEW c \in InRow(r) PROVE X[c] \in Int /\ 0 <= X[c] /\ OnSite(X[c])
    <2>1. Of(c) \in 1..n /\ nodes[Of(c)].cell # 0 /\ X[c] = Pos(Of(c))
      BY <1>5
    <2> DEFINE k == Of(c)
    <2>2. k \in 1..n /\ nodes[k].cell # 0 /\ X[c] = Pos(k)
      BY <2>1
    <2> HIDE DEF k, nodes, n
    <2> QED BY <1>6, <2>2
  <1>8. ASSUME NEW c \in InRow(r), NEW d \in InRow(r), c # d
        PROVE  \E i, k \in 1..n : /\ i < k /\ nodes[i].cell # 0 /\ nodes[k].cell # 0
                                  /\ \/ i = Of(c) /\ k = Of(d)
                                     \/ i = Of(d) /\ k = Of(c)
    <2>1. /\ Of(c) \in 1..n /\ nodes[Of(c)].cell = c /\ c # 0
          /\ Of(d) \in 1..n /\ nodes[Of(d)].cell = d /\ d # 0
      BY <1>5
    <2>2. Of(c) # Of(d)
      BY <1>8, <2>1
    <2> DEFINE i == Of(c)
               k == Of(d)
    <2>3. i \in 1..n /\ k \in 1..n /\ nodes[i].cell # 0 /\ nodes[k].cell # 0 /\ i # k
      BY <2>1, <2>2
    <2>4. i < k \/ k < i
      <3> HIDE DEF i, k, nodes, n
      <3> QED BY <1>2, <2>3
    <2> HIDE DEF nodes, n
    <2> QED BY <2>3, <2>4
  <1>9. ASSUME NEW c \in InRow(r), NEW d \in InRow(r), c # d PROVE X[c] # X[d]
    <2>1. PICK i, k \in 1..n : /\ i < k /\ nodes[i].cell # 0 /\ nodes[k].cell # 0
                               /\ \/ i = Of(c) /\ k = Of(d)
                                  \/ i = Of(d) /\ k = Of(c)
      BY <1>8, <1>9
    <2>2. Pos(i) < Pos(k)
      <3> HIDE DEF nodes, at
      <3> QED BY <1>1, <1>3, <1>4, <2>1, EndsOrdered
    <2>3. Pos(i) \in Int /\ Pos(k) \in Int
      BY <1>6, <2>1
    <2>4. Pos(i) # Pos(k)
      <3> DEFINE a == Pos(i)
                 b == Pos(k)
      <3>1. a < b /\ a \in Int /\ b \in Int
        BY <2>2, <2>3
      <3> HIDE DEF a, b
      <3>2. a # b
        BY <3>1
      <3> QED BY <3>2 DEF a, b
    <2>5. X[c] = Pos(Of(c)) /\ X[d] = Pos(Of(d))
      BY <1>5
    <2> HIDE DEF nodes, n, at
    <2> QED BY <2>1, <2>4, <2>5
  <1>10. ASSUME EndsOnSites(r) \/ Good(r) PROVE LegalCells(r, X, InRow(r))
    <2>1. ASSUME NEW k \in 1..n, nodes[k].cell # 0
          PROVE  /\ Free(r, Pos(k), nodes[k].w)
                 /\ \A i \in 1..k - 1 : nodes[i].cell # 0 => ends[i] <= Pos(k)
      <3> HIDE DEF nodes, at
      <3> QED BY <1>1, <1>3, <1>4, <1>10, <2>1, AlignedLegal
    <2>2. ASSUME NEW c \in InRow(r) PROVE Free(r, X[c], W(c))
      <3> DEFINE k == Of(c)
      <3>1. k \in 1..n /\ nodes[k].cell # 0 /\ nodes[k].w = W(c) /\ X[c] = Pos(k)
        BY <1>5
      <3> HIDE DEF k, nodes, n
      <3> QED BY <2>1, <3>1
    <2>3. ASSUME NEW c \in InRow(r), NEW d \in InRow(r), c # d
          PROVE  X[c] + W(c) <= X[d] \/ X[d] + W(d) <= X[c]
      <3>1. PICK i, k \in 1..n : /\ i < k /\ nodes[i].cell # 0 /\ nodes[k].cell # 0
                                 /\ \/ i = Of(c) /\ k = Of(d)
                                    \/ i = Of(d) /\ k = Of(c)
        BY <1>8, <2>3
      <3>2. i \in 1..k - 1
        <4> HIDE DEF nodes, n
        <4> QED BY <1>2, <3>1
      <3>3. Pos(i) + nodes[i].w <= Pos(k)
        <4>1. ends[i] <= Pos(k)
          BY <2>1, <3>1, <3>2
        <4>2. ends[i] = Pos(i) + nodes[i].w
          BY <1>6, <3>1
        <4> QED BY <4>1, <4>2
      <3>4. /\ X[c] = Pos(Of(c)) /\ X[d] = Pos(Of(d))
            /\ nodes[Of(c)].w = W(c) /\ nodes[Of(d)].w = W(d)
        BY <1>5
      <3> HIDE DEF nodes, n
      <3> QED BY <3>1, <3>3, <3>4
    <2> QED BY <1>7, <2>2, <2>3 DEF LegalCells
  <1> QED BY <1>7, <1>9, <1>10

-----------------------------------------------------------------------------
(* The padding pass.                                                       *)

LEMMA PastFacts ==
  ASSUME NEW r, NEW v \in Int, 0 <= v, NEW w \in Int, w > 0
  PROVE  LET u == Past(r, v, w) IN
         /\ u \in Int /\ v <= u /\ Span(u, w) \cap Blocked(r) = {}
         /\ Span(v, w) \cap Blocked(r) = {} => u = v
         /\ EndsOnSites(r) /\ OnSite(v) => OnSite(u)
  <1> DEFINE M == {u \in v..v + Core : Span(u, w) \cap Blocked(r) = {}}
             u == Past(r, v, w)
  <1>0. Core \in Int /\ 0 <= Core /\ Blocked(r) \subseteq 0..Core - 1
    BY Constants, BlockedFacts
  <1>1. v + Core \in M
    <2>1. \A b \in Span(v + Core, w) : b \in Int /\ Core <= b
      BY <1>0 DEF Span
    <2>2. \A b \in Span(v + Core, w) : b \notin Blocked(r)
      BY <1>0, <2>1
    <2>3. v + Core \in v..v + Core
      BY <1>0
    <2> QED BY <2>2, <2>3
  <1>2. M \in SUBSET Int /\ \A m \in M : v <= m
    BY <1>0
  <1>3. u \in M /\ \A m \in M : u <= m
    <2>1. u = Min(M)
      BY DEF Past
    <2> HIDE DEF u, M
    <2> QED BY <1>1, <1>2, <2>1, MinFacts
  <1> HIDE DEF u
  <1>4. u \in Int /\ v <= u /\ u <= v + Core /\ Span(u, w) \cap Blocked(r) = {}
    BY <1>0, <1>3
  <1>5. ASSUME Span(v, w) \cap Blocked(r) = {} PROVE u = v
    <2>1. v \in M
      BY <1>0, <1>5
    <2>2. u <= v
      <3> HIDE DEF M
      <3> QED BY <1>3, <2>1
    <2> QED BY <1>4, <2>2
  <1>6. ASSUME EndsOnSites(r), OnSite(v) PROVE OnSite(u)
    <2>1. CASE u = v
      BY <1>6, <2>1
    <2>2. CASE u # v
      <3>1. u - 1 \in v..v + Core /\ ~(u <= u - 1)
        BY <1>0, <1>4, <2>2
      <3>2. u - 1 \notin M
        <4> HIDE DEF M
        <4> QED BY <1>3, <3>1
      <3>3. PICK b \in Span(u - 1, w) : b \in Blocked(r)
        BY <3>1, <3>2
      <3>4. b = u - 1
        <4>1. b \in Int /\ u - 1 <= b /\ b < u - 1 + w
          BY <1>4, <3>3 DEF Span
        <4>2. b # u - 1 => b \in Span(u, w)
          BY <1>4, <4>1 DEF Span
        <4> QED BY <1>4, <3>3, <4>2
      <3>5. u \notin Blocked(r)
        <4>1. u \in Span(u, w)
          BY <1>4 DEF Span
        <4> QED BY <1>4, <4>1
      <3>6. PICK o \in Obstacles(r) : o[1] <= u - 1 /\ u - 1 < o[2]
        BY <3>3, <3>4, BlockedFacts
      <3>7. o[1] \in Int /\ o[2] \in Int
        <4>1. o[1] \in 0..Core /\ o[2] \in 0..Core
          BY BlockedFacts
        <4> QED BY <1>0, <4>1
      <3>8. ~(o[1] <= u /\ u < o[2])
        BY <1>4, <3>5, BlockedFacts
      <3>9. o[2] = u
        <4> DEFINE a == o[1]
                   e == o[2]
        <4>1. a \in Int /\ e \in Int /\ a <= u - 1 /\ u - 1 < e /\ ~(a <= u /\ u < e)
          BY <3>6, <3>7, <3>8
        <4> HIDE DEF a, e
        <4>2. e = u
          BY <1>4, <4>1
        <4> QED BY <4>2 DEF e
      <3>10. u % SiteW = 0
        BY <1>6, <3>9 DEF EndsOnSites
      <3> QED BY <1>4, <3>10, OnSiteFacts
    <2> QED BY <2>1, <2>2
  <1> QED BY <1>4, <1>5, <1>6 DEF u

\* The cells of a row from left to right.
IsOrder(order, r) ==
  /\ Len(order) \in Nat /\ DOMAIN order = 1..Len(order)
  /\ \A k \in 1..Len(order) : order[k] \in InRow(r)
  /\ \A c \in InRow(r) : \E k \in 1..Len(order) : order[k] = c
  /\ \A i, k \in 1..Len(order) : i < k => x[order[i]] < x[order[k]]
  /\ \A i, k \in 1..Len(order) : order[i] = order[k] => i = k

LEMMA RowOrdered ==
  ASSUME NEW r, \A c \in InRow(r) : x[c] \in Int, \A c, d \in InRow(r) : x[c] = x[d] => c = d
  PROVE  IsOrder(Ordered(InRow(r), {p \in InRow(r) \X InRow(r) : x[p[1]] < x[p[2]]}), r)
  <1> DEFINE S == InRow(r)
             before == {p \in S \X S : x[p[1]] < x[p[2]]}
             s == Ordered(S, before)
  <1>1. IsFiniteSet(S)
    BY LegalizeAssumption, FS_Subset DEF InRow
  <1>2. Orders(before, S)
    <2> HIDE DEF S
    <2>1. \A c \in S : x[c] \in Int
      BY DEF S
    <2>2. \A c, d \in S : <<c, d>> \in before <=> x[c] < x[d]
      OBVIOUS
    <2>3. \A c, d \in S : x[c] = x[d] => c = d
      BY DEF S
    <2> HIDE DEF before
    <2>4. \A d \in S : <<d, d>> \notin before
      BY <2>1, <2>2
    <2>5. \A d, e, f \in S : <<d, e>> \in before /\ <<e, f>> \in before => <<d, f>> \in before
      BY <2>1, <2>2
    <2>6. \A d, e \in S : d # e => <<d, e>> \in before \/ <<e, d>> \in before
      BY <2>1, <2>2, <2>3
    <2> QED BY <2>4, <2>5, <2>6 DEF Orders
  <1>3. IsSorted(s, S, before)
    <2> HIDE DEF S, before, s
    <2> QED BY <1>1, <1>2, OrderedSorts DEF s
  <1>4. IsOrder(s, r)
    <2>1. \A c, d \in S : <<c, d>> \in before => x[c] < x[d]
      OBVIOUS
    <2> HIDE DEF before, s
    <2>2. Len(s) = Cardinality(S)
      BY <1>3 DEF IsSorted
    <2> QED BY <1>3, <2>1, <2>2 DEF IsSorted, IsOrder
  <1> QED BY <1>4

\* Places the cells of an order are shifted to, gap apart.
IsShift(order, r, from, gap, s) ==
  \A k \in 1..Len(order) :
    LET v == Max({from[order[k]], IF k = 1 THEN 0 ELSE s[k - 1].end}) IN
    /\ s[k].at = Past(r, v, W(order[k])) /\ s[k].end = s[k].at + W(order[k]) + gap

LEMMA Shifted ==
  ASSUME NEW r, NEW order, IsOrder(order, r), NEW from, NEW gap
  PROVE  IsShift(order, r, from, gap, Shift(order, r, from, gap))
  <1> DEFINE n == Len(order)
             p == [r |-> r, order |-> order, from |-> from, gap |-> gap]
             first == [at |-> 0, end |-> 0]
             f == CHOOSE g : IsAlong(g, "shift", p, first, n)
  <1>1. n \in Nat
    BY DEF IsOrder
  <1>2. Shift(order, r, from, gap) = f
    BY DEF Shift, Steps, IsAlong, Turn
  <1>3. Follows(f, "shift", p, first, n)
    <2> HIDE DEF n, p, first
    <2> QED BY <1>1, AlongFollows
  <1> HIDE DEF f
  <1>4. f[0].end = 0 /\ \A k \in 1..n : f[k] = Pushed(r, order[k], from[order[k]], f[k - 1].end, gap)
    BY <1>3 DEF Follows, Turn
  <1>5. ASSUME NEW k \in 1..n
        PROVE  LET v == Max({from[order[k]], IF k = 1 THEN 0 ELSE f[k - 1].end}) IN
               /\ f[k].at = Past(r, v, W(order[k])) /\ f[k].end = f[k].at + W(order[k]) + gap
    <2> DEFINE b == IF k = 1 THEN 0 ELSE f[k - 1].end
    <2>1. f[k - 1].end = b
      BY <1>4
    <2>2. f[k] = Pushed(r, order[k], from[order[k]], b, gap)
      BY <1>4, <2>1
    <2> HIDE DEF b
    <2>3. /\ f[k].at = Past(r, Max({from[order[k]], b}), W(order[k]))
          /\ f[k].end = f[k].at + W(order[k]) + gap
      BY <2>2 DEF Pushed
    <2> QED BY <2>3 DEF b
  <1> QED BY <1>2, <1>5 DEF IsShift

\* Where a shift of the cells of an order puts them.
IsApart(order, r, from, gap, s) ==
  \A k \in 1..Len(order) :
    /\ s[k].at \in Int /\ 0 <= s[k].at /\ Span(s[k].at, W(order[k])) \cap Blocked(r) = {}
    /\ \A i \in 1..k - 1 : s[i].at + W(order[i]) + gap <= s[k].at
    /\ EndsOnSites(r) /\ OnSite(gap) /\ (\A c \in InRow(r) : OnSite(from[c])) => OnSite(s[k].at)

LEMMA ShiftApart ==
  ASSUME NEW r, NEW order, IsOrder(order, r), NEW from, \A c \in InRow(r) : from[c] \in Int /\ 0 <= from[c],
         NEW gap \in Nat, NEW s, IsShift(order, r, from, gap, s)
  PROVE  IsApart(order, r, from, gap, s)
  <1> DEFINE n == Len(order)
             Sited == EndsOnSites(r) /\ OnSite(gap) /\ \A c \in InRow(r) : OnSite(from[c])
             Fine(k) == /\ s[k].at \in Int /\ 0 <= s[k].at /\ s[k].end = s[k].at + W(order[k]) + gap
                        /\ Span(s[k].at, W(order[k])) \cap Blocked(r) = {}
                        /\ \A i \in 1..k - 1 : s[i].at + W(order[i]) + gap <= s[k].at
                        /\ Sited => OnSite(s[k].at)
             Bad == {k \in 1..n : ~Fine(k)}
  <1>0. n \in Nat
    BY DEF IsOrder
  <1>1. ASSUME NEW k \in 1..n
        PROVE  /\ order[k] \in InRow(r) /\ W(order[k]) \in Int /\ W(order[k]) > 0 /\ OnSite(W(order[k]))
               /\ from[order[k]] \in Int /\ 0 <= from[order[k]]
    <2>1. order[k] \in InRow(r) /\ order[k] \in Cells
      BY DEF IsOrder, InRow
    <2>2. W(order[k]) \in Int /\ W(order[k]) > 0
      BY <2>1, Constants
    <2>3. OnSite(W(order[k]))
      BY <2>1, OnSiteFacts
    <2> QED BY <2>1, <2>2, <2>3
  <1>2. ASSUME NEW k \in 1..n, \A j \in 1..k - 1 : Fine(j) PROVE Fine(k)
    <2> DEFINE c == order[k]
               w == W(c)
               b == IF k = 1 THEN 0 ELSE s[k - 1].end
               f == from[c]
               v == Max({f, b})
               u == s[k].at
    <2>0. k \in Int /\ 1 <= k /\ (k # 1 => k - 1 \in 1..k - 1 /\ k - 1 \in 1..n)
          /\ \A i \in 1..k - 1 : i \in 1..n
      BY <1>0
    <2>1. u = Past(r, v, w) /\ s[k].end = u + w + gap
      BY DEF IsShift
    <2>2. w \in Int /\ w > 0 /\ OnSite(w) /\ f \in Int /\ 0 <= f
      BY <1>1
    <2>3. b \in Int /\ 0 <= b /\ (Sited => OnSite(b)) /\ \A i \in 1..k - 1 : s[i].at + W(order[i]) + gap <= b
      <3>1. CASE k = 1
        <4>1. b = 0 /\ OnSite(0) /\ \A i \in 1..k - 1 : FALSE
          BY <3>1, OnSiteFacts
        <4> QED BY <4>1
      <3>2. CASE k # 1
        <4> DEFINE j == k - 1
        <4>1. j \in 1..k - 1 /\ j \in 1..n /\ b = s[j].end
          BY <2>0, <3>2
        <4> DEFINE a == s[j].at
                   e == W(order[j])
        <4>2. Fine(j)
          <5> HIDE DEF j, Fine
          <5> QED BY <1>2, <4>1
        <4>3. /\ a \in Int /\ 0 <= a /\ b = a + e + gap /\ (Sited => OnSite(a))
              /\ \A i \in 1..j - 1 : s[i].at + W(order[i]) + gap <= a
          BY <4>1, <4>2
        <4>4. e \in Int /\ e > 0 /\ OnSite(e)
          <5> HIDE DEF j
          <5> QED BY <1>1, <4>1
        <4>5. b \in Int /\ 0 <= b /\ a <= b
          <5> HIDE DEF a, b, e
          <5> QED BY <4>3, <4>4
        <4>6. Sited => OnSite(b)
          <5> SUFFICES ASSUME Sited PROVE OnSite(a + e + gap)
            BY <4>3
          <5>1. OnSite(a) /\ OnSite(gap)
            BY <4>3
          <5> HIDE DEF a, e, Sited
          <5>2. OnSite(a + e) /\ a + e \in Int
            BY <4>3, <4>4, <5>1, OnSiteFacts
          <5> QED BY <5>1, <5>2, OnSiteFacts
        <4>7. ASSUME NEW i \in 1..k - 1 PROVE s[i].at + W(order[i]) + gap <= b
          <5>1. i = j \/ i \in 1..j - 1
            BY <2>0
          <5>2. CASE i = j
            <6>1. s[i].at + W(order[i]) + gap = b
              BY <4>3, <5>2
            <6> HIDE DEF b
            <6> QED BY <4>5, <6>1
          <5>3. CASE i \in 1..j - 1
            <6> DEFINE g == s[i].at + W(order[i]) + gap
            <6>1. g <= a /\ a <= b
              BY <4>3, <4>5, <5>3
            <6>2. g \in Int
              <7>1. i \in 1..n /\ i \in 1..k - 1
                BY <2>0
              <7>2. Fine(i)
                <8> HIDE DEF Fine
                <8> QED BY <1>2, <7>1
              <7>3. s[i].at \in Int /\ W(order[i]) \in Int
                BY <1>1, <7>1, <7>2
              <7> QED BY <7>3
            <6> HIDE DEF g, a, b
            <6>3. g <= b
              BY <4>3, <4>5, <6>1, <6>2
            <6> QED BY <6>3 DEF g
          <5> QED BY <5>1, <5>2, <5>3
        <4> HIDE DEF b
        <4> QED BY <4>5, <4>6, <4>7
      <3> QED BY <3>1, <3>2
    <2>4. v = IF f <= b THEN b ELSE f
      <3> HIDE DEF f, b
      <3> QED BY <2>2, <2>3, TwoNumbers
    <2>5. v \in Int /\ 0 <= v /\ b <= v /\ (Sited => OnSite(v))
      <3>1. Sited => OnSite(f)
        BY <1>1
      <3> HIDE DEF f, b, v, Sited
      <3> QED BY <2>2, <2>3, <2>4, <3>1
    <2>6. /\ u \in Int /\ v <= u /\ Span(u, w) \cap Blocked(r) = {}
          /\ EndsOnSites(r) /\ OnSite(v) => OnSite(u)
      <3> HIDE DEF v, w, u
      <3> QED BY <2>1, <2>2, <2>5, PastFacts
    <2>7. Sited => OnSite(u)
      BY <2>5, <2>6
    <2>8. 0 <= u /\ b <= u
      <3> HIDE DEF u, v, b
      <3> QED BY <2>3, <2>5, <2>6
    <2>9. ASSUME NEW i \in 1..k - 1 PROVE s[i].at + W(order[i]) + gap <= u
      <3> DEFINE g == s[i].at + W(order[i]) + gap
      <3>1. g <= b
        BY <2>3
      <3>2. g \in Int
        <4>1. i \in 1..n
          BY <2>0
        <4>2. Fine(i)
          <5> HIDE DEF Fine
          <5> QED BY <1>2
        <4>3. s[i].at \in Int /\ W(order[i]) \in Int
          BY <1>1, <4>1, <4>2
        <4> QED BY <4>3
      <3> HIDE DEF g, b, u
      <3>3. g <= u
        BY <2>3, <2>6, <2>8, <3>1, <3>2
      <3> QED BY <3>3 DEF g
    <2> HIDE DEF Sited
    <2> QED BY <2>1, <2>6, <2>7, <2>8, <2>9
  <1>3. Bad = {}
    <2> SUFFICES ASSUME Bad # {} PROVE FALSE
      OBVIOUS
    <2>1. PICK m \in Bad : \A l \in Bad : m <= l
      <3>1. Bad \in SUBSET Nat
        OBVIOUS
      <3> HIDE DEF Bad
      <3> QED BY <3>1, Least
    <2>2. m \in 1..n /\ \A j \in 1..m - 1 : j \in 1..n /\ ~(m <= j)
      BY <1>0
    <2>3. \A j \in 1..m - 1 : j \notin Bad
      <3> HIDE DEF Bad
      <3> QED BY <2>1, <2>2
    <2>4. (\A j \in 1..m - 1 : Fine(j)) /\ ~Fine(m)
      BY <2>2, <2>3
    <2> HIDE DEF Fine
    <2> QED BY <1>2, <2>2, <2>4
  <1>4. ASSUME NEW k \in 1..n PROVE Fine(k)
    <2>1. k \notin Bad
      BY <1>3
    <2> HIDE DEF Fine
    <2> QED BY <2>1
  <1> QED BY <1>4 DEF IsApart

\* Cells in legal places are not shifted.
LEMMA ShiftStays ==
  ASSUME NEW r, NEW order, IsOrder(order, r), NEW from,
         \A c \in InRow(r) : from[c] = x[c] /\ from[c] \in Int,
         LegalCells(r, from, InRow(r)), NEW s, IsShift(order, r, from, 0, s)
  PROVE  \A k \in 1..Len(order) : s[k].at = from[order[k]]
  <1> DEFINE n == Len(order)
             Fine(k) == s[k].at = from[order[k]]
             Bad == {k \in 1..n : ~Fine(k)}
  <1>0. n \in Nat
    BY DEF IsOrder
  <1>1. ASSUME NEW k \in 1..n
        PROVE  /\ order[k] \in InRow(r) /\ W(order[k]) \in Int /\ W(order[k]) > 0
               /\ from[order[k]] \in Int /\ Free(r, from[order[k]], W(order[k]))
    <2>1. order[k] \in InRow(r) /\ order[k] \in Cells
      BY DEF IsOrder, InRow
    <2> QED BY <2>1, Constants DEF LegalCells
  <1>2. ASSUME NEW k \in 1..n, \A j \in 1..k - 1 : Fine(j) PROVE Fine(k)
    <2> DEFINE c == order[k]
               w == W(c)
               b == IF k = 1 THEN 0 ELSE s[k - 1].end
               f == from[c]
               v == Max({f, b})
               u == s[k].at
    <2>1. u = Past(r, v, w)
      BY DEF IsShift
    <2>2. w \in Int /\ w > 0 /\ f \in Int /\ Free(r, f, w)
      BY <1>1
    <2>3. 0 <= f
      <3> HIDE DEF f, w
      <3> QED BY <2>2 DEF Free
    <2>4. b \in Int /\ b <= f
      <3>1. CASE k = 1
        BY <2>3, <3>1
      <3>2. CASE k # 1
        <4> DEFINE j == k - 1
        <4>1. j \in 1..k - 1 /\ j \in 1..n /\ j < k /\ b = s[j].end
          BY <1>0, <3>2
        <4> HIDE DEF j, b
        <4> DEFINE d == order[j]
                   a == from[d]
                   e == W(d)
        <4>2. s[j].at = a
          BY <1>2, <4>1
        <4>3. s[j].end = s[j].at + e + 0
          BY <4>1 DEF IsShift
        <4>4. a \in Int /\ e \in Int /\ e > 0 /\ d \in InRow(r)
          BY <1>1, <4>1
        <4>5. a < f
          <5>1. x[d] < x[c]
            BY <4>1 DEF IsOrder
          <5>2. a = x[d] /\ f = x[c]
            BY <1>1, <4>4
          <5> QED BY <5>1, <5>2
        <4>6. a + e <= f \/ f + w <= a
          <5>1. d # c
            BY <4>1 DEF IsOrder
          <5>2. c \in InRow(r)
            BY <1>1
          <5> QED BY <4>4, <5>1, <5>2 DEF LegalCells
        <4>7. b = a + e
          <5> HIDE DEF a, e
          <5> QED BY <4>1, <4>2, <4>3, <4>4
        <4> HIDE DEF a, e, f, w
        <4> QED BY <2>2, <4>4, <4>5, <4>6, <4>7
      <3> QED BY <3>1, <3>2
    <2>5. v = f
      <3> HIDE DEF f, b
      <3>1. Max({f, b}) = IF f <= b THEN b ELSE f
        BY <2>2, <2>4, TwoNumbers
      <3> QED BY <2>2, <2>4, <3>1
    <2>6. Span(f, w) \cap Blocked(r) = {}
      <3> HIDE DEF f, w
      <3>1. Span(f, w) \subseteq (0..Core - 1) \ Blocked(r)
        BY <2>2, SpansFree
      <3> QED BY <3>1
    <2>7. Past(r, f, w) = f
      <3> HIDE DEF f, w
      <3> QED BY <2>2, <2>3, <2>6, PastFacts
    <2> HIDE DEF v, w, f
    <2>8. u = f
      BY <2>1, <2>5, <2>7
    <2> QED BY <2>8 DEF f
  <1>3. Bad = {}
    <2> SUFFICES ASSUME Bad # {} PROVE FALSE
      OBVIOUS
    <2>1. PICK m \in Bad : \A l \in Bad : m <= l
      <3>1. Bad \in SUBSET Nat
        OBVIOUS
      <3> HIDE DEF Bad
      <3> QED BY <3>1, Least
    <2>2. m \in 1..n /\ \A j \in 1..m - 1 : j \in 1..n /\ ~(m <= j)
      BY <1>0
    <2>3. \A j \in 1..m - 1 : j \notin Bad
      <3> HIDE DEF Bad
      <3> QED BY <2>1, <2>2
    <2>4. (\A j \in 1..m - 1 : Fine(j)) /\ ~Fine(m)
      BY <2>2, <2>3
    <2> HIDE DEF Fine
    <2> QED BY <1>2, <2>2, <2>4
  <1> QED BY <1>3

LEMMA MovedFacts ==
  ASSUME NEW r, NEW order, IsOrder(order, r), NEW pos, NEW s, NEW c \in InRow(r)
  PROVE  /\ Moved(pos, order, s)[c] = pos[c] \/ \E k \in 1..Len(order) : Moved(pos, order, s)[c] = s[k].at
         /\ Fits(order, s, Len(order)) =>
              \E k \in 1..Len(order) : order[k] = c /\ Moved(pos, order, s)[c] = s[k].at
                                       /\ s[k].at + W(c) <= Core
  <1> DEFINE n == Len(order)
             m == CHOOSE k \in 1..n : order[k] = c
  <1>0. n \in Nat
    BY DEF IsOrder
  <1>1. c \in Cells
    BY DEF InRow
  <1>2. m \in 1..n /\ order[m] = c
    <2>1. \E k \in 1..n : order[k] = c
      BY DEF IsOrder
    <2> HIDE DEF n
    <2> QED BY <2>1
  <1>3. Moved(pos, order, s)[c] = IF \E k \in 1..n : order[k] = c /\ Fits(order, s, k) THEN s[m].at ELSE pos[c]
    BY <1>1 DEF Moved
  <1> HIDE DEF m
  <1>4. ASSUME Fits(order, s, n)
        PROVE  /\ \E k \in 1..n : order[k] = c /\ Fits(order, s, k)
               /\ s[m].at + W(c) <= Core
    <2>1. \A j \in 1..n : s[j].at + W(order[j]) <= Core
      BY <1>4 DEF Fits
    <2>2. \A j \in 1..m : j \in 1..n
      BY <1>0, <1>2
    <2>3. Fits(order, s, m)
      BY <2>1, <2>2 DEF Fits
    <2>4. s[m].at + W(order[m]) <= Core
      BY <1>2, <2>1
    <2> QED BY <1>2, <2>3, <2>4
  <1> HIDE DEF n
  <1>5. Moved(pos, order, s)[c] = pos[c] \/ \E k \in 1..n : Moved(pos, order, s)[c] = s[k].at
    BY <1>2, <1>3
  <1>6. Fits(order, s, n) =>
          \E k \in 1..n : order[k] = c /\ Moved(pos, order, s)[c] = s[k].at /\ s[k].at + W(c) <= Core
    BY <1>2, <1>3, <1>4
  <1> QED BY <1>5, <1>6 DEF n

\* Cells in the order of their places, gap apart where they fit.
LEMMA PaddedRow ==
  ASSUME NEW r, NEW order, IsOrder(order, r), NEW from, NEW gap \in Nat, NEW s,
         IsApart(order, r, from, gap, s), Fits(order, s, Len(order)), NEW pos,
         NEW P, \A c \in InRow(r) : P[c] = Moved(pos, order, s)[c]
  PROVE  /\ LegalCells(r, P, InRow(r))
         /\ \A c, d \in InRow(r) : P[c] < P[d] => P[d] - P[c] >= W(c) + gap
         /\ EndsOnSites(r) /\ OnSite(gap) /\ (\A c \in InRow(r) : OnSite(from[c])) =>
              \A c \in InRow(r) : OnSite(P[c])
  <1> DEFINE n == Len(order)
  <1>0. n \in Nat
    BY DEF IsOrder
  <1>1. ASSUME NEW c \in InRow(r)
        PROVE  \E k \in 1..n : order[k] = c /\ P[c] = s[k].at /\ s[k].at + W(c) <= Core
    BY MovedFacts
  <1>2. ASSUME NEW c \in InRow(r) PROVE W(c) \in Int /\ W(c) > 0
    BY Constants DEF InRow
  <1>3. ASSUME NEW c \in InRow(r) PROVE P[c] \in Int /\ 0 <= P[c] /\ Free(r, P[c], W(c))
    <2>1. PICK k \in 1..n : order[k] = c /\ P[c] = s[k].at /\ s[k].at + W(c) <= Core
      BY <1>1
    <2>2. P[c] \in Int /\ 0 <= P[c] /\ Span(P[c], W(c)) \cap Blocked(r) = {} /\ P[c] + W(c) <= Core
      BY <2>1 DEF IsApart
    <2> DEFINE v == P[c]
               w == W(c)
    <2>3. w \in Int /\ w > 0
      BY <1>2
    <2>4. Span(v, w) \subseteq (0..Core - 1) \ Blocked(r)
      <3> SUFFICES ASSUME NEW b \in Span(v, w) PROVE b \in 0..Core - 1
        BY <2>2
      <3>1. b \in Int /\ v <= b /\ b < v + w
        BY <2>2, <2>3 DEF Span
      <3>2. v \in Int /\ 0 <= v /\ v + w <= Core /\ Core \in Int
        BY <2>2, Constants
      <3> HIDE DEF v, w
      <3> QED BY <2>3, <3>1, <3>2
    <2>5. Free(r, v, w)
      <3>1. v \in Int
        BY <2>2
      <3> HIDE DEF v, w
      <3> QED BY <2>3, <2>4, <3>1, SpansFree
    <2> QED BY <2>2, <2>5
  <1>4. ASSUME NEW c \in InRow(r), NEW d \in InRow(r), c # d
        PROVE  P[c] + W(c) + gap <= P[d] \/ P[d] + W(d) + gap <= P[c]
    <2>1. PICK k \in 1..n : order[k] = c /\ P[c] = s[k].at
      BY <1>1
    <2>2. PICK l \in 1..n : order[l] = d /\ P[d] = s[l].at
      BY <1>1
    <2>3. k # l /\ k \in Int /\ l \in Int
      BY <1>0, <1>4, <2>1, <2>2
    <2>4. CASE k < l
      <3>1. k \in 1..l - 1
        BY <1>0, <2>4
      <3> QED BY <2>1, <2>2, <3>1 DEF IsApart
    <2>5. CASE l < k
      <3>1. l \in 1..k - 1
        BY <1>0, <2>5
      <3> QED BY <2>1, <2>2, <3>1 DEF IsApart
    <2> QED BY <2>3, <2>4, <2>5
  <1>5. ASSUME NEW c \in InRow(r), NEW d \in InRow(r), c # d
        PROVE  P[c] + W(c) <= P[d] \/ P[d] + W(d) <= P[c]
    <2> DEFINE a == P[c]
               b == P[d]
               v == W(c)
               w == W(d)
    <2>1. a \in Int /\ b \in Int /\ v \in Int /\ w \in Int /\ (a + v + gap <= b \/ b + w + gap <= a)
      BY <1>2, <1>3, <1>4, <1>5
    <2>2. a + v <= b \/ b + w <= a
      <3> HIDE DEF a, b, v, w
      <3> QED BY <2>1
    <2> QED BY <2>2
  <1>6. ASSUME NEW c \in InRow(r), NEW d \in InRow(r), P[c] < P[d]
        PROVE  P[d] - P[c] >= W(c) + gap
    <2> DEFINE a == P[c]
               b == P[d]
               v == W(c)
               w == W(d)
    <2>1. c # d
      BY <1>3, <1>6
    <2>2. a \in Int /\ b \in Int /\ v \in Int /\ w \in Int /\ w > 0 /\ a < b
          /\ (a + v + gap <= b \/ b + w + gap <= a)
      BY <1>2, <1>3, <1>4, <1>6, <2>1
    <2>3. b - a >= v + gap
      <3> HIDE DEF a, b, v, w
      <3> QED BY <2>2
    <2> QED BY <2>3
  <1>7. ASSUME EndsOnSites(r), OnSite(gap), \A c \in InRow(r) : OnSite(from[c]), NEW c \in InRow(r)
        PROVE  OnSite(P[c])
    <2>1. PICK k \in 1..n : P[c] = s[k].at
      BY <1>1
    <2> QED BY <1>7, <2>1 DEF IsApart
  <1> QED BY <1>3, <1>5, <1>6, <1>7 DEF LegalCells

LEMMA PadRowFacts ==
  ASSUME in \in Inputs, NEW r,
         \A c \in InRow(r) : x[c] \in Int /\ 0 <= x[c] /\ OnSite(x[c]) /\ ops[c] = x[c],
         \A c, d \in InRow(r) : x[c] = x[d] => c = d,
         NEW P, \A c \in InRow(r) : P[c] = PadRow(r)[c]
  PROVE  /\ \A c \in InRow(r) : P[c] \in Int
         /\ LegalCells(r, x, InRow(r)) =>
              /\ LegalCells(r, P, InRow(r))
              /\ EndsOnSites(r) => \A c \in InRow(r) : OnSite(P[c])
              /\ \/ \A c \in InRow(r) : P[c] = x[c]
                 \/ \A c, d \in InRow(r) : P[c] < P[d] => P[d] - P[c] >= W(c) + in.pad * SiteW
  <1> DEFINE order == Ordered(InRow(r), {p \in InRow(r) \X InRow(r) : x[p[1]] < x[p[2]]})
             gap == in.pad * SiteW
             shift == Shift(order, r, x, gap)
             first == Moved(x, order, shift)
             again == Shift(order, r, ops, 0)
             n == Len(order)
  <1>1. IsOrder(order, r)
    BY RowOrdered
  <1>2. gap \in Nat /\ OnSite(gap)
    <2>1. in.pad \in Nat /\ in.pad \in Int /\ SiteW \in Nat
      BY InputAssumption, Constants
    <2>2. gap \in Nat
      BY <2>1
    <2>3. OnSite(gap)
      BY <2>1 DEF OnSite
    <2> QED BY <2>2, <2>3
  <1>3. PadRow(r) = IF Fits(order, shift, n) THEN first ELSE Moved(first, order, again)
    BY DEF PadRow, Retried
  <1> HIDE DEF order, gap
  <1>4. IsApart(order, r, x, gap, shift)
    <2>1. IsShift(order, r, x, gap, shift)
      BY <1>1, Shifted
    <2> HIDE DEF shift
    <2> QED BY <1>1, <1>2, <2>1, ShiftApart
  <1>5. IsShift(order, r, ops, 0, again)
    BY <1>1, Shifted
  <1>6. IsApart(order, r, ops, 0, again)
    <2>1. \A c \in InRow(r) : ops[c] \in Int /\ 0 <= ops[c]
      OBVIOUS
    <2> HIDE DEF again
    <2> QED BY <1>1, <1>5, <2>1, ShiftApart
  <1> HIDE DEF shift, again
  <1>7. /\ \A k \in 1..n : shift[k].at \in Int
        /\ \A k \in 1..n : again[k].at \in Int
    BY <1>4, <1>6 DEF IsApart
  <1>8. CASE Fits(order, shift, n)
    <2>1. \A c \in InRow(r) : P[c] = Moved(x, order, shift)[c]
      BY <1>3, <1>8
    <2>2. /\ LegalCells(r, P, InRow(r))
          /\ \A c, d \in InRow(r) : P[c] < P[d] => P[d] - P[c] >= W(c) + gap
          /\ EndsOnSites(r) => \A c \in InRow(r) : OnSite(P[c])
      BY <1>1, <1>2, <1>4, <1>8, <2>1, PaddedRow
    <2>3. \A c \in InRow(r) : P[c] \in Int
      BY <2>2 DEF LegalCells
    <2> QED BY <2>2, <2>3 DEF gap
  <1>9. CASE ~Fits(order, shift, n)
    <2>1. \A c \in InRow(r) : P[c] = Moved(first, order, again)[c]
      BY <1>3, <1>9
    <2>2. \A c \in InRow(r) : first[c] \in Int
      <3> TAKE c \in InRow(r)
      <3>1. first[c] = x[c] \/ \E k \in 1..n : first[c] = shift[k].at
        BY <1>1, MovedFacts
      <3> HIDE DEF first, n
      <3> QED BY <1>7, <3>1
    <2>3. \A c \in InRow(r) : P[c] \in Int
      <3> TAKE c \in InRow(r)
      <3> HIDE DEF first
      <3>1. P[c] = first[c] \/ \E k \in 1..n : P[c] = again[k].at
        BY <1>1, <2>1, MovedFacts
      <3> HIDE DEF n
      <3> QED BY <1>7, <2>2, <3>1
    <2>4. ASSUME LegalCells(r, x, InRow(r)) PROVE \A c \in InRow(r) : P[c] = x[c]
      <3>1. \A k \in 1..n : again[k].at = x[order[k]]
        <4>1. LegalCells(r, ops, InRow(r))
          BY <2>4 DEF LegalCells
        <4>2. \A k \in 1..n : again[k].at = ops[order[k]]
          <5>1. \A c \in InRow(r) : ops[c] = x[c] /\ ops[c] \in Int
            OBVIOUS
          <5> QED BY <1>1, <1>5, <4>1, <5>1, ShiftStays
        <4>3. \A k \in 1..n : order[k] \in InRow(r)
          BY <1>1 DEF IsOrder
        <4> QED BY <4>2, <4>3
      <3>2. Fits(order, again, n)
        <4> SUFFICES ASSUME NEW j \in 1..n PROVE again[j].at + W(order[j]) <= Core
          BY DEF Fits
        <4>1. order[j] \in InRow(r)
          BY <1>1 DEF IsOrder
        <4>2. x[order[j]] + W(order[j]) <= Core
          BY <2>4, <4>1 DEF LegalCells, Free
        <4> QED BY <3>1, <4>2
      <3> TAKE c \in InRow(r)
      <3> HIDE DEF first
      <3>3. PICK k \in 1..n : order[k] = c /\ P[c] = again[k].at
        BY <1>1, <2>1, <3>2, MovedFacts
      <3> QED BY <3>1, <3>3
    <2>5. ASSUME LegalCells(r, x, InRow(r))
          PROVE  LegalCells(r, P, InRow(r)) /\ \A c \in InRow(r) : OnSite(P[c])
      BY <2>4, <2>5 DEF LegalCells
    <2> QED BY <2>3, <2>4, <2>5
  <1> QED BY <1>8, <1>9

-----------------------------------------------------------------------------
(* The greedy passes put every cell they place in a legal place.           *)

\* The cells in S, at px and py, are in rows, on sites, and legal.
LegalPlaces(px, py, S) ==
  /\ px \in [Cells -> Int] /\ py \in [Cells -> Int] /\ S \subseteq Cells
  /\ \A c \in S : \E r \in Rows : py[c] = r * SiteH /\ OnSite(px[c]) /\ Free(r, px[c], W(c))
  /\ \A c, d \in S : c # d /\ py[c] = py[d] => px[c] + W(c) <= px[d] \/ px[d] + W(d) <= px[c]

Taken(r, at) ==
  Blocked(r) \cup UNION {Span(at.x[c], W(c)) : c \in {c \in at.placed : at.y[c] = r * SiteH}}

LEMMA TargetWithin ==
  ASSUME NEW want \in Int, NEW w \in Nat, w > 0, NEW blank,
         blank[1] \in Int, blank[2] \in Int, w <= blank[2] - blank[1]
  PROVE  LET t == Target(want, w, blank) IN t \in Int /\ blank[1] <= t /\ t + w <= blank[2]
  <1> DEFINE a == blank[1]
             b == blank[2]
             near == Min({16 * w, b - a})
             t == Target(want, w, blank)
  <1>1. a \in Int /\ b \in Int /\ w <= b - a
    OBVIOUS
  <1>2. near \in Int /\ 0 <= near
    <2> DEFINE u == 16 * w
               v == b - a
    <2>1. u \in Int /\ v \in Int /\ 0 <= u /\ 0 <= v
      BY <1>1
    <2>2. near = Min({u, v})
      OBVIOUS
    <2> HIDE DEF u, v, near
    <2> QED BY <2>1, <2>2, TwoNumbers
  <1>3. t = IF 4 * want <= 4 * a + near THEN a
            ELSE IF 4 * (want + w) >= 4 * b - near THEN b - w
            ELSE want
    BY DEF Target
  <1> HIDE DEF a, b, near, t
  <1>4. t \in Int /\ a <= t /\ t + w <= b
    BY <1>1, <1>2, <1>3
  <1> QED BY <1>4 DEF a, b, t

LEMMA ApartFacts ==
  ASSUME NEW a \in Int, NEW b \in Int
  PROVE  Apart(a, b) \in Nat
  BY DEF Apart

LEMMA SitesCover ==
  ASSUME NEW site \in Int, NEW w \in Int, NEW b \in Int,
         site * SiteW <= b, b < (site + w) * SiteW
  PROVE  \E s \in site..site + w - 1 : s * SiteW <= b /\ b < s * SiteW + SiteW
  <1> DEFINE s == b \div SiteW
  <1>0. SiteW \in Nat \ {0}
    BY Constants
  <1>1. s \in Int /\ s * SiteW <= b /\ b < s * SiteW + SiteW
    BY <1>0, Divided
  <1> HIDE DEF s
  <1>2. (s + 1) * SiteW = s * SiteW + SiteW
    BY <1>0, <1>1
  <1>3. \A u, v \in Int : u * SiteW < v * SiteW => u < v
    BY <1>0
  <1>4. site * SiteW < (s + 1) * SiteW /\ s * SiteW < (site + w) * SiteW
    <2>1. site * SiteW \in Int /\ s * SiteW \in Int /\ (site + w) * SiteW \in Int
      BY <1>0, <1>1
    <2> QED BY <1>0, <1>1, <1>2, <2>1
  <1>5. site < s + 1 /\ s < site + w
    <2>1. s + 1 \in Int /\ site + w \in Int
      BY <1>1
    <2> QED BY <1>1, <1>3, <1>4, <2>1
  <1>6. s \in site..site + w - 1
    BY <1>1, <1>5
  <1> QED BY <1>1, <1>6

\* A cell of w sites at a site within a blank is on nothing that is taken.
LEMMA BlankFree ==
  ASSUME NEW r, NEW at, NEW blank \in Blanks(r, at), NEW c \in Cells, NEW site \in Int,
         blank[1] <= site, site + WidthOf(c) <= blank[2]
  PROVE  LET v == site * SiteW IN
         /\ v \in Int /\ OnSite(v) /\ 0 <= v /\ v + W(c) <= Core
         /\ Span(v, W(c)) \cap Taken(r, at) = {}
  <1> DEFINE v == site * SiteW
             w == WidthOf(c)
             S == {s \in 0..Sites - 1 : Span(s * SiteW, SiteW) \cap Taken(r, at) = {}}
             a == blank[1]
             b == blank[2]
  <1>0. /\ SiteW \in Nat /\ SiteW > 0 /\ Sites \in Nat /\ w \in Nat /\ w > 0 /\ W(c) = w * SiteW
        /\ Core = Sites * SiteW /\ W(c) \in Nat /\ W(c) > 0
    BY Constants DEF W, Core
  <1>1. Blanks(r, at) = Runs(S, Sites)
    BY DEF Blanks, Taken
  <1>2. a \in Int /\ b \in Int /\ 0 <= a /\ b <= Sites /\ \A s \in Int : a <= s /\ s < b => s \in S
    <2>1. S \subseteq 0..Sites - 1
      OBVIOUS
    <2>2. blank \in Runs(S, Sites)
      BY <1>1
    <2> HIDE DEF S
    <2>3. a \in 0..Sites /\ b \in 0..Sites
      BY <1>0, <2>2, RunsApart
    <2>4. \A s \in Int : a <= s /\ s < b => s \in S
      BY <1>0, <2>1, <2>2, RunsCover
    <2> QED BY <1>0, <2>3, <2>4
  <1>3. v \in Int /\ OnSite(v) /\ 0 <= v
    BY <1>0, <1>2 DEF OnSite
  <1>4. v + W(c) = (site + w) * SiteW
    BY <1>0
  <1>5. v + W(c) <= Core
    <2>1. site + w \in Int /\ site + w <= Sites
      BY <1>0, <1>2
    <2> DEFINE e == site + w
    <2>2. e \in Int /\ e <= Sites
      BY <2>1
    <2> HIDE DEF e
    <2>3. e * SiteW <= Sites * SiteW
      BY <1>0, <2>2
    <2> QED BY <1>0, <1>4, <2>3 DEF e
  <1>6. ASSUME NEW u \in Span(v, W(c)) PROVE u \notin Taken(r, at)
    <2>1. u \in Int /\ site * SiteW <= u /\ u < (site + w) * SiteW
      <3>1. u \in Int /\ v <= u /\ u < v + W(c)
        <4> HIDE DEF v
        <4> QED BY <1>0, <1>3 DEF Span
      <3> QED BY <1>4, <3>1
    <2>2. PICK s \in site..site + w - 1 : s * SiteW <= u /\ u < s * SiteW + SiteW
      <3>1. w \in Int
        BY <1>0
      <3> HIDE DEF w
      <3> QED BY <2>1, <3>1, SitesCover
    <2>3. s \in Int /\ a <= s /\ s < b
      BY <1>0, <1>2
    <2>4. s \in S
      BY <1>2, <2>3
    <2>5. u \in Span(s * SiteW, SiteW)
      <3>1. s * SiteW \in Int
        BY <1>0, <2>3
      <3> QED BY <1>0, <2>1, <2>2, <3>1 DEF Span
    <2>6. Span(s * SiteW, SiteW) \cap Taken(r, at) = {}
      BY <2>4
    <2> QED BY <2>5, <2>6
  <1> QED BY <1>3, <1>5, <1>6

LEMMA OfferFacts ==
  ASSUME in \in Inputs, NEW at, NEW c \in Cells, NEW want \in Int, NEW mid \in Int,
         NEW r \in Rows, NEW o \in Offers(at, c, want, mid, r)
  PROVE  /\ o.row = r /\ o.cost \in Nat /\ o.site \in Int
         /\ \E b \in Blanks(r, at) : b[1] <= o.site /\ o.site + WidthOf(c) <= b[2]
  <1> DEFINE w == WidthOf(c)
             cost(b) == 2 * SiteW * Apart(Target(want, w, b), want) + Apart(2 * r * SiteH, mid)
  <1>1. w \in Nat /\ w > 0 /\ SiteW \in Nat /\ SiteH \in Nat /\ Sites \in Nat
    BY Constants
  <1>2. r \in Nat
    BY RowFacts
  <1>3. PICK b \in Blanks(r, at) : /\ b[2] - b[1] >= w
                                   /\ o = [row |-> r, site |-> Target(want, w, b), cost |-> cost(b)]
    BY DEF Offers
  <1>4. o.row = r /\ o.site = Target(want, w, b) /\ o.cost = cost(b)
    BY <1>3
  <1>5. b[1] \in Int /\ b[2] \in Int
    <2>1. \E S \in SUBSET (0..Sites - 1) : b \in Runs(S, Sites)
      BY DEF Blanks
    <2>2. b[1] \in 0..Sites /\ b[2] \in 0..Sites
      BY <1>1, <2>1, RunsApart
    <2> QED BY <1>1, <2>2
  <1>6. o.site \in Int /\ b[1] <= o.site /\ o.site + w <= b[2]
    <2>1. w <= b[2] - b[1]
      <3> HIDE DEF w
      <3> QED BY <1>1, <1>3, <1>5
    <2> HIDE DEF w
    <2> QED BY <1>1, <1>4, <1>5, <2>1, TargetWithin
  <1>7. o.cost \in Nat
    <2> DEFINE p == Apart(o.site, want)
               q == Apart(2 * r * SiteH, mid)
    <2>1. p \in Nat
      BY <1>6, ApartFacts
    <2>2. q \in Nat
      <3>1. 2 * r * SiteH \in Int
        BY <1>1, <1>2
      <3> QED BY <3>1, ApartFacts
    <2>3. o.cost = 2 * SiteW * p + q
      BY <1>4
    <2> HIDE DEF p, q
    <2> QED BY <1>1, <2>1, <2>2, <2>3
  <1> QED BY <1>4, <1>6, <1>7

LEMMA BestFacts ==
  ASSUME NEW offers, offers # {}, NEW home \in Int,
         \A o \in offers : o.cost \in Nat /\ o.row \in Nat
  PROVE  Best(offers, home) \in offers
  <1> DEFINE turn(o) == IF o.row > home THEN 2 * (o.row - home) - 1 ELSE 2 * (home - o.row)
             costs == {o.cost : o \in offers}
  <1>1. PICK o \in offers : \A p \in offers : o.cost <= p.cost
    <2>1. PICK m \in costs : \A n \in costs : m <= n
      <3>1. costs \in SUBSET Nat /\ costs # {}
        OBVIOUS
      <3> HIDE DEF costs
      <3> QED BY <3>1, Least
    <2> QED BY <2>1
  <1> DEFINE cheap == {p \in offers : p.cost = o.cost}
             turns == {turn(p) : p \in cheap}
  <1>2. \A p \in offers : turn(p) \in Nat
    OBVIOUS
  <1>3. PICK best \in cheap : \A p \in cheap : turn(best) <= turn(p)
    <2>1. PICK m \in turns : \A n \in turns : m <= n
      <3>1. turns \in SUBSET Nat
        <4> HIDE DEF turn
        <4> QED BY <1>2
      <3>2. turns # {}
        <4> HIDE DEF turn
        <4> QED BY <1>1
      <3> HIDE DEF turns
      <3> QED BY <3>1, <3>2, Least
    <2> HIDE DEF turn
    <2> QED BY <2>1
  <1>4. \A p \in offers : best.cost < p.cost \/ (best.cost = p.cost /\ turn(best) <= turn(p))
    <2> HIDE DEF turn
    <2> SUFFICES ASSUME NEW p \in offers
                 PROVE  best.cost < p.cost \/ (best.cost = p.cost /\ turn(best) <= turn(p))
      OBVIOUS
    <2>1. best.cost = o.cost /\ o.cost <= p.cost /\ o.cost \in Int /\ p.cost \in Int
      BY <1>1
    <2>2. CASE p.cost = o.cost
      BY <1>3, <2>1, <2>2
    <2>3. CASE p.cost # o.cost
      BY <2>1, <2>3
    <2> QED BY <2>2, <2>3
  <1>5. \E e \in offers : \A p \in offers : e.cost < p.cost \/ (e.cost = p.cost /\ turn(e) <= turn(p))
    <2> HIDE DEF turn
    <2> QED BY <1>3, <1>4
  <1> QED BY <1>5 DEF Best

LEMMA InsertLegal ==
  ASSUME in \in Inputs, NEW at, LegalPlaces(at.x, at.y, at.placed), NEW c \in Cells
  PROVE  LET to == Insert(at, c) IN LegalPlaces(to.x, to.y, to.placed)
  <1> DEFINE want == (StartX(c) + at.x[c]) \div (2 * SiteW)
             mid == StartY(c) + at.y[c]
             offers == UNION {Offers(at, c, want, mid, r) : r \in Rows}
             home == Min({NumRows - 1, mid \div (2 * SiteH)})
             o == Best(offers, home)
             to == Insert(at, c)
  <1>0. /\ SiteW \in Nat /\ SiteW > 0 /\ SiteH \in Nat /\ SiteH > 0 /\ NumRows \in Nat
        /\ W(c) \in Nat /\ W(c) > 0 /\ Core \in Int
    BY Constants, RowFacts
  <1>1. at.x \in [Cells -> Int] /\ at.y \in [Cells -> Int] /\ at.placed \subseteq Cells
    BY DEF LegalPlaces
  <1>2. want \in Int /\ mid \in Int
    <2>1. StartX(c) \in Int /\ StartY(c) \in Int /\ at.x[c] \in Int /\ at.y[c] \in Int
      BY <1>1, StartFacts
    <2>2. StartX(c) + at.x[c] \in Int /\ 2 * SiteW \in Nat \ {0} /\ mid \in Int
      BY <1>0, <2>1
    <2> QED BY <2>2, Divided
  <1>3. home \in Int
    <2> DEFINE h == mid \div (2 * SiteH)
    <2>1. h \in Int
      <3>1. 2 * SiteH \in Nat \ {0}
        BY <1>0
      <3> HIDE DEF mid
      <3> QED BY <1>2, <3>1, Divided
    <2>2. NumRows - 1 \in Int
      BY <1>0
    <2> HIDE DEF h
    <2> QED BY <2>1, <2>2, TwoNumbers DEF h
  <1> HIDE DEF want, mid
  <1>4. \A e \in offers : e.cost \in Nat /\ e.row \in Nat
    <2> SUFFICES ASSUME NEW r \in Rows, NEW e \in Offers(at, c, want, mid, r)
                 PROVE  e.cost \in Nat /\ e.row \in Nat
      OBVIOUS
    <2>1. e.cost \in Nat /\ e.row = r
      BY <1>2, OfferFacts
    <2> QED BY <2>1, RowFacts
  <1>5. to = IF offers = {} THEN at
             ELSE [x |-> [at.x EXCEPT ![c] = o.site * SiteW],
                   y |-> [at.y EXCEPT ![c] = o.row * SiteH],
                   placed |-> at.placed \cup {c}]
    BY DEF Insert, want, mid
  <1>6. CASE offers = {}
    BY <1>5, <1>6
  <1>7. CASE offers # {}
    <2>1. o \in offers
      <3> HIDE DEF offers, home
      <3> QED BY <1>3, <1>4, <1>7, BestFacts
    <2>2. PICK r \in Rows : o \in Offers(at, c, want, mid, r)
      BY <2>1
    <2> HIDE DEF offers, o
    <2>3. /\ o.row = r /\ o.site \in Int
          /\ \E b \in Blanks(r, at) : b[1] <= o.site /\ o.site + WidthOf(c) <= b[2]
      BY <1>2, <2>2, OfferFacts
    <2>4. PICK b \in Blanks(r, at) : b[1] <= o.site /\ o.site + WidthOf(c) <= b[2]
      BY <2>3
    <2> DEFINE v == o.site * SiteW
               u == r * SiteH
    <2>5. v \in Int /\ OnSite(v) /\ 0 <= v /\ v + W(c) <= Core /\ Span(v, W(c)) \cap Taken(r, at) = {}
      BY <2>3, <2>4, BlankFree
    <2>6. u \in Int /\ r \in Nat
      BY RowFacts
    <2> HIDE DEF v, u
    <2>7. /\ to.x = [at.x EXCEPT ![c] = v] /\ to.y = [at.y EXCEPT ![c] = u]
          /\ to.placed = at.placed \cup {c}
      BY <1>5, <1>7, <2>3 DEF v, u
    <2> HIDE DEF to
    <2>8. Free(r, v, W(c))
      <3>1. Span(v, W(c)) \cap Blocked(r) = {}
        BY <2>5 DEF Taken
      <3>2. Span(v, W(c)) \subseteq 0..Core - 1
        BY <1>0, <2>5 DEF Span
      <3> QED BY <1>0, <2>5, <3>1, <3>2, SpansFree
    <2>9. ASSUME NEW d \in at.placed, at.y[d] = u
          PROVE  v + W(c) <= at.x[d] \/ at.x[d] + W(d) <= v
      <3>1. Span(at.x[d], W(d)) \subseteq Taken(r, at)
        BY <2>9 DEF Taken, u
      <3>2. Span(v, W(c)) \cap Span(at.x[d], W(d)) = {}
        BY <2>5, <3>1
      <3>3. at.x[d] \in Int /\ W(d) \in Int /\ W(d) > 0
        BY <1>1, Constants
      <3> QED BY <1>0, <2>5, <3>2, <3>3, SpansApart
    <2>10. /\ to.x \in [Cells -> Int] /\ to.y \in [Cells -> Int] /\ to.placed \subseteq Cells
           /\ to.x[c] = v /\ to.y[c] = u
           /\ \A d \in Cells \ {c} : to.x[d] = at.x[d] /\ to.y[d] = at.y[d]
      BY <1>1, <2>5, <2>6, <2>7
    <2>11. \A d \in to.placed : d = c \/ (d \in at.placed /\ d \in Cells \ {c})
      BY <1>1, <2>7
    <2>12. ASSUME NEW d \in to.placed
           PROVE  \E q \in Rows : to.y[d] = q * SiteH /\ OnSite(to.x[d]) /\ Free(q, to.x[d], W(d))
      <3>1. CASE d = c
        BY <2>5, <2>8, <2>10, <3>1 DEF u
      <3>2. CASE d # c
        <4>1. d \in at.placed /\ to.x[d] = at.x[d] /\ to.y[d] = at.y[d]
          BY <2>10, <2>11, <3>2
        <4>2. \E q \in Rows : at.y[d] = q * SiteH /\ OnSite(at.x[d]) /\ Free(q, at.x[d], W(d))
          BY <4>1 DEF LegalPlaces
        <4> QED BY <4>1, <4>2
      <3> QED BY <3>1, <3>2
    <2>13. ASSUME NEW d \in to.placed, NEW e \in to.placed, d # e, to.y[d] = to.y[e]
           PROVE  to.x[d] + W(d) <= to.x[e] \/ to.x[e] + W(e) <= to.x[d]
      <3>1. CASE d = c
        BY <2>9, <2>10, <2>11, <2>13, <3>1
      <3>2. CASE e = c
        BY <2>9, <2>10, <2>11, <2>13, <3>2
      <3>3. CASE d # c /\ e # c
        <4>1. /\ d \in at.placed /\ to.x[d] = at.x[d] /\ to.y[d] = at.y[d]
              /\ e \in at.placed /\ to.x[e] = at.x[e] /\ to.y[e] = at.y[e]
          BY <2>10, <2>11, <3>3
        <4> QED BY <2>13, <4>1 DEF LegalPlaces
      <3> QED BY <3>1, <3>2, <3>3
    <2>14. LegalPlaces(to.x, to.y, to.placed)
      BY <2>10, <2>12, <2>13 DEF LegalPlaces
    <2> QED BY <2>14 DEF to
  <1> QED BY <1>6, <1>7

\* The orders in which the passes take the cells.
LEMMA ByKeys ==
  ASSUME NEW key \in [Cells -> Int], NEW second \in [Cells -> Int], NEW before,
         \A c, d \in Cells :
           <<c, d>> \in before <=>
             \/ key[c] > key[d]
             \/ key[c] = key[d] /\ (second[c] > second[d] \/ (second[c] = second[d] /\ c > d))
  PROVE  IsSorted(Ordered(Cells, before), Cells, before)
  <1>1. IsFiniteSet(Cells) /\ Cells \subseteq Nat
    BY LegalizeAssumption
  <1>2. \A c \in Cells : c \in Int /\ key[c] \in Int /\ second[c] \in Int
    BY <1>1
  <1>3. \A d \in Cells : <<d, d>> \notin before
    BY <1>2
  <1>4. ASSUME NEW d \in Cells, NEW e \in Cells, NEW f \in Cells,
               <<d, e>> \in before, <<e, f>> \in before
        PROVE  <<d, f>> \in before
    BY <1>2, <1>4
  <1>5. ASSUME NEW d \in Cells, NEW e \in Cells, d # e
        PROVE  <<d, e>> \in before \/ <<e, d>> \in before
    BY <1>2, <1>5
  <1>6. Orders(before, Cells)
    BY <1>3, <1>4, <1>5 DEF Orders
  <1> QED BY <1>1, <1>6, OrderedSorts

LEMMA PassOrders ==
  ASSUME in \in Inputs
  PROVE  /\ Len(FromRight) \in Nat /\ \A k \in 1..Len(FromRight) : FromRight[k] \in Cells
         /\ Len(FromLeft) \in Nat /\ \A k \in 1..Len(FromLeft) : FromLeft[k] \in Cells
  <1> DEFINE R(c) == 1000 * (2 * StartX(c) + W(c)) + 2 * W(c)
             L(c) == 2 * W(c) - 1000 * (2 * StartX(c) + W(c))
             right == [c \in Cells |-> R(c)]
             left == [c \in Cells |-> L(c)]
             high == [c \in Cells |-> StartY(c)]
             low == [c \in Cells |-> -StartY(c)]
             highFirst == {p \in Cells \X Cells :
                             \/ StartY(p[1]) > StartY(p[2])
                             \/ StartY(p[1]) = StartY(p[2]) /\ p[1] > p[2]}
             lowFirst == {p \in Cells \X Cells :
                             \/ StartY(p[1]) < StartY(p[2])
                             \/ StartY(p[1]) = StartY(p[2]) /\ p[1] > p[2]}
             fromRight == {p \in Cells \X Cells :
                             R(p[1]) > R(p[2]) \/ (R(p[1]) = R(p[2]) /\ p \in highFirst)}
             fromLeft == {p \in Cells \X Cells :
                             L(p[1]) > L(p[2]) \/ (L(p[1]) = L(p[2]) /\ p \in lowFirst)}
  <1>1. \A c \in Cells : StartX(c) \in Int /\ StartY(c) \in Int /\ W(c) \in Int
    BY StartFacts, Constants
  <1>2. \A c \in Cells : R(c) \in Int /\ L(c) \in Int /\ -StartY(c) \in Int
    BY <1>1
  <1> HIDE DEF R, L
  <1>3. right \in [Cells -> Int] /\ left \in [Cells -> Int] /\ high \in [Cells -> Int] /\ low \in [Cells -> Int]
    BY <1>1, <1>2
  <1>4. /\ \A c \in Cells : right[c] = R(c) /\ left[c] = L(c) /\ high[c] = StartY(c) /\ low[c] = -StartY(c)
        /\ \A c, d \in Cells : low[c] > low[d] <=> StartY(c) < StartY(d)
        /\ \A c, d \in Cells : low[c] = low[d] <=> StartY(c) = StartY(d)
    BY <1>1
  <1> HIDE DEF right, left, high, low
  <1>5. \A c, d \in Cells :
          <<c, d>> \in fromRight <=>
            \/ right[c] > right[d]
            \/ right[c] = right[d] /\ (high[c] > high[d] \/ (high[c] = high[d] /\ c > d))
    BY <1>4
  <1>6. \A c, d \in Cells :
          <<c, d>> \in fromLeft <=>
            \/ left[c] > left[d]
            \/ left[c] = left[d] /\ (low[c] > low[d] \/ (low[c] = low[d] /\ c > d))
    BY <1>4
  <1>7. FromRight = Ordered(Cells, fromRight) /\ FromLeft = Ordered(Cells, fromLeft)
    BY DEF FromRight, FromLeft, Descending, R, L
  <1> HIDE DEF fromRight, fromLeft
  <1>8. IsSorted(FromRight, Cells, fromRight) /\ IsSorted(FromLeft, Cells, fromLeft)
    BY <1>3, <1>5, <1>6, <1>7, ByKeys
  <1> QED BY <1>8 DEF IsSorted

LEMMA DistributeLegal ==
  ASSUME in \in Inputs, x \in [Cells -> Int], y \in [Cells -> Int],
         NEW order, Len(order) \in Nat, \A k \in 1..Len(order) : order[k] \in Cells,
         Distribute(order)
  PROVE  unplaced' \subseteq Cells /\ LegalPlaces(x', y', Cells \ unplaced')
  <1> DEFINE n == Len(order)
             first == [x |-> x, y |-> y, placed |-> {}]
             f == CHOOSE g : IsAlong(g, "greedy", order, first, n)
             Legal(at) == LegalPlaces(at.x, at.y, at.placed)
  <1>1. x' = f[n].x /\ y' = f[n].y /\ unplaced' = Cells \ f[n].placed
    BY DEF Distribute, Steps, IsAlong, Turn
  <1>2. Follows(f, "greedy", order, first, n)
    <2> HIDE DEF n, first
    <2>1. n \in Nat
      BY DEF n
    <2> QED BY <2>1, AlongFollows
  <1> HIDE DEF f
  <1>3. f[0] = first /\ \A k \in 1..n : f[k] = Insert(f[k - 1], order[k])
    BY <1>2 DEF Follows, Turn
  <1>4. Legal(first)
    BY DEF LegalPlaces
  <1>5. ASSUME NEW k \in 1..n, Legal(f[k - 1]) PROVE Legal(f[k])
    <2>1. order[k] \in Cells /\ f[k] = Insert(f[k - 1], order[k])
      BY <1>3
    <2> QED BY <1>5, <2>1, InsertLegal
  <1>6. Legal(f[n])
    <2> DEFINE Bad == {k \in 0..n : ~Legal(f[k])}
    <2> SUFFICES ASSUME Bad # {} PROVE FALSE
      <3>1. n \in 0..n
        OBVIOUS
      <3> HIDE DEF Legal
      <3> QED BY <3>1
    <2>1. PICK k \in Bad : \A j \in Bad : k <= j
      <3>1. Bad \in SUBSET Nat
        OBVIOUS
      <3> HIDE DEF Bad
      <3> QED BY <3>1, Least
    <2> HIDE DEF Legal
    <2>2. k \in 0..n /\ ~Legal(f[k])
      BY <2>1
    <2>3. k # 0
      BY <1>3, <1>4, <2>2
    <2>4. k \in 1..n /\ k - 1 \in 0..n
      BY <2>2, <2>3
    <2>5. k - 1 \in Bad
      BY <1>5, <2>2, <2>4
    <2> QED BY <2>1, <2>2, <2>5
  <1>7. Cells \ unplaced' = f[n].placed
    <2>1. f[n].placed \subseteq Cells
      BY <1>6 DEF LegalPlaces
    <2> QED BY <1>1, <2>1
  <1> QED BY <1>1, <1>6, <1>7

\* A row in which the passes found a place for every cell is a legal one.
LEMMA PlacedGood ==
  ASSUME in \in Inputs, LegalPlaces(x, y, Cells \ unplaced),
         NEW r, InRow(r) \cap unplaced = {}
  PROVE  Good(r)
  <1>1. \A c \in InRow(r) : c \in Cells /\ c \in Cells \ unplaced /\ x[c] \in Int
    BY DEF InRow, LegalPlaces
  <1>2. ASSUME NEW c \in InRow(r)
        PROVE  y[c] = r * SiteH /\ OnSite(x[c]) /\ Free(r, x[c], W(c))
    <2>1. PICK q \in Rows : y[c] = q * SiteH /\ OnSite(x[c]) /\ Free(q, x[c], W(c))
      BY <1>1 DEF LegalPlaces
    <2>2. q = r
      BY <2>1, RowFacts DEF InRow
    <2> QED BY <2>1, <2>2
  <1>3. ASSUME NEW c \in InRow(r), NEW d \in InRow(r) \ {c}
        PROVE  x[c] + W(c) <= x[d] \/ x[d] + W(d) <= x[c]
    BY <1>1, <1>2 DEF LegalPlaces
  <1> QED BY <1>1, <1>2, <1>3 DEF Good, LegalCells

-----------------------------------------------------------------------------
(* The invariant.                                                          *)

\* What Abacus leaves for the padding pass.
FromAbacus ==
  \A r \in Rows :
    /\ \A c \in InRow(r) : 0 <= x[c] /\ OnSite(x[c]) /\ ops[c] = x[c]
    /\ \A c, d \in InRow(r) : x[c] = x[d] => c = d
    /\ Sound(r) => LegalCells(r, x, InRow(r))

LInv ==
  /\ TypeOK
  /\ phase = "start" => x = in.x /\ y = in.y
  /\ phase \in {"guard", "abacus"} => LegalPlaces(x, y, Cells \ unplaced)
  /\ phase = "pad" => FromAbacus
  /\ LegalOut
  /\ PadOrPlain

\* What depends on the input alone stays.
LEMMA SameInput ==
  ASSUME in' = in
  PROVE  /\ NumRows' = NumRows /\ Rows' = Rows
         /\ \A r : Blocked(r)' = Blocked(r)
         /\ \A r : EndsOnSites(r)' <=> EndsOnSites(r)
         /\ InputLegal' <=> InputLegal
         /\ PaddingCompliant' <=> PaddingCompliant
  <1>1. NumRows' = NumRows
    BY DEF NumRows
  <1>2. Rows' = Rows
    BY <1>1 DEF Rows
  <1>3. ASSUME NEW r PROVE Blocked(r)' = Blocked(r)
    BY DEF Blocked, SegsAt
  <1>4. ASSUME NEW r PROVE EndsOnSites(r)' <=> EndsOnSites(r)
    BY <1>3 DEF EndsOnSites, Obstacles
  <1>5. InputLegal' <=> InputLegal
    BY DEF InputLegal, Blocked, SegsAt
  <1>6. PaddingCompliant' <=> PaddingCompliant
    BY <1>2 DEF PaddingCompliant, Neighbours
  <1> QED BY <1>1, <1>2, <1>3, <1>4, <1>5, <1>6

LEMMA SameRows ==
  ASSUME in' = in, y' = y
  PROVE  /\ \A r : InRow(r)' = InRow(r)
         /\ unplaced' = unplaced => \A r : Sound(r)' <=> Sound(r)
  <1>1. \A v : RowOf(v)' = RowOf(v)
    BY SameInput DEF RowOf
  <1>2. ASSUME NEW r PROVE InRow(r)' = InRow(r)
    BY <1>1 DEF InRow
  <1>3. ASSUME NEW r, unplaced' = unplaced PROVE Sound(r)' <=> Sound(r)
    BY <1>2, <1>3, SameInput DEF Sound
  <1> QED BY <1>2, <1>3

\* Legal places in terms of the spans of the cells.
LEMMA LegalSpans ==
  ASSUME NEW r, NEW S \in SUBSET Cells, NEW X, LegalCells(r, X, S)
  PROVE  \A c \in S :
           /\ Span(X[c], W(c)) \subseteq (0..Core - 1) \ Blocked(r)
           /\ \A d \in S \ {c} : Span(X[c], W(c)) \cap Span(X[d], W(d)) = {}
  <1> SUFFICES ASSUME NEW c \in S
               PROVE  /\ Span(X[c], W(c)) \subseteq (0..Core - 1) \ Blocked(r)
                      /\ \A d \in S \ {c} : Span(X[c], W(c)) \cap Span(X[d], W(d)) = {}
    OBVIOUS
  <1>1. X[c] \in Int /\ W(c) \in Int /\ W(c) > 0 /\ Free(r, X[c], W(c))
    BY Constants DEF LegalCells
  <1>2. ASSUME NEW d \in S \ {c} PROVE Span(X[c], W(c)) \cap Span(X[d], W(d)) = {}
    <2>1. X[d] \in Int /\ W(d) \in Int /\ W(d) > 0
      BY Constants DEF LegalCells
    <2>2. X[c] + W(c) <= X[d] \/ X[d] + W(d) <= X[c]
      BY DEF LegalCells
    <2> QED BY <1>1, <2>1, <2>2, SpansApart
  <1> QED BY <1>1, <1>2, SpansFree

\* An input that is kept.
LEMMA KeptLegal ==
  ASSUME in \in Inputs, InputLegal
  PROVE  /\ \A c \in Cells : in.y[c] \in {r * SiteH : r \in Rows}
         /\ \A r : \A c \in Cells : in.y[c] = r * SiteH /\ r \in Rows =>
              /\ Span(in.x[c], W(c)) \subseteq (0..Core - 1) \ Blocked(r)
              /\ in.x[c] % SiteW = 0
         /\ \A c, d \in Cells : c # d /\ in.y[c] = in.y[d] =>
              Span(in.x[c], W(c)) \cap Span(in.x[d], W(d)) = {}
  <1>0. SiteH \in Nat \ {0} /\ SiteW \in Nat /\ SiteW > 0 /\ Core \in Int
    BY Constants
  <1>1. ASSUME NEW c \in Cells
        PROVE  \E r \in Rows : /\ r = in.y[c] \div SiteH /\ in.y[c] = r * SiteH
                               /\ Span(in.x[c], W(c)) \subseteq (0..Core - 1) \ Blocked(r)
    <2> DEFINE r == in.y[c] \div SiteH
    <2>1. in.x[c] \in Int /\ in.y[c] \in Int /\ W(c) \in Int /\ W(c) > 0
      BY StartFacts, Constants
    <2>2. PICK s \in SegsAt(r) : s.x <= in.x[c] /\ in.x[c] + W(c) <= s.x + s.n * SiteW
      BY DEF InputLegal
    <2>3. s \in in.segs /\ s.row = r
      BY <2>2 DEF SegsAt
    <2>4. r \in Rows
      BY <2>3, RowFacts
    <2>5. in.y[c] = r * SiteH
      <3>1. in.y[c] % SiteH = 0
        BY DEF InputLegal
      <3> QED BY <1>0, <2>1, <3>1
    <2>6. Span(in.x[c], W(c)) \cap Blocked(r) = {}
      BY DEF InputLegal
    <2> HIDE DEF r
    <2>7. 0 <= in.x[c] /\ in.x[c] + W(c) <= Core
      <3>1. s.x \in Nat /\ s.x + s.n * SiteW <= Core /\ s.n \in Nat
        BY <2>3, InputAssumption
      <3>2. s.n * SiteW \in Int
        BY <1>0, <3>1
      <3> QED BY <1>0, <2>1, <2>2, <3>1, <3>2
    <2>8. Span(in.x[c], W(c)) \subseteq 0..Core - 1
      BY <1>0, <2>1, <2>7 DEF Span
    <2> QED BY <2>4, <2>5, <2>6, <2>8 DEF r
  <1>2. \A c \in Cells : in.x[c] % SiteW = 0
    BY DEF InputLegal
  <1>3. ASSUME NEW r \in Rows, NEW c \in Cells, in.y[c] = r * SiteH
        PROVE  Span(in.x[c], W(c)) \subseteq (0..Core - 1) \ Blocked(r)
    <2>1. PICK q \in Rows : /\ in.y[c] = q * SiteH
                            /\ Span(in.x[c], W(c)) \subseteq (0..Core - 1) \ Blocked(q)
      BY <1>1
    <2>2. q = r
      BY <1>3, <2>1, RowFacts
    <2> QED BY <2>1, <2>2
  <1>4. \A c, d \in Cells : c # d /\ in.y[c] = in.y[d] =>
          Span(in.x[c], W(c)) \cap Span(in.x[d], W(d)) = {}
    BY DEF InputLegal
  <1>5. \A c \in Cells : in.y[c] \in {r * SiteH : r \in Rows}
    BY <1>1
  <1> QED BY <1>2, <1>3, <1>4, <1>5

-----------------------------------------------------------------------------
(* The steps.                                                              *)

\* A placement that meets what LegalOut asks of the rows.
LEMMA RowsLegal ==
  ASSUME in \in Inputs, NEW X, NEW Y,
         \A c \in Cells : Y[c] \in {r * SiteH : r \in Rows},
         \A r \in Rows : Sound(r) =>
           /\ LegalCells(r, X, InRow(r))
           /\ EndsOnSites(r) => \A c \in InRow(r) : OnSite(X[c])
  PROVE  /\ \A c \in Cells : Y[c] \in {r * SiteH : r \in Rows}
         /\ \A r \in Rows : Sound(r) => \A c \in InRow(r) :
              /\ Span(X[c], W(c)) \subseteq (0..Core - 1) \ Blocked(r)
              /\ EndsOnSites(r) => X[c] % SiteW = 0
              /\ \A d \in InRow(r) \ {c} : Span(X[c], W(c)) \cap Span(X[d], W(d)) = {}
  <1> SUFFICES ASSUME NEW r \in Rows, Sound(r), NEW c \in InRow(r)
               PROVE  /\ Span(X[c], W(c)) \subseteq (0..Core - 1) \ Blocked(r)
                      /\ EndsOnSites(r) => X[c] % SiteW = 0
                      /\ \A d \in InRow(r) \ {c} : Span(X[c], W(c)) \cap Span(X[d], W(d)) = {}
    OBVIOUS
  <1>1. InRow(r) \in SUBSET Cells
    BY DEF InRow
  <1>2. LegalCells(r, X, InRow(r))
    OBVIOUS
  <1>3. /\ Span(X[c], W(c)) \subseteq (0..Core - 1) \ Blocked(r)
        /\ \A d \in InRow(r) \ {c} : Span(X[c], W(c)) \cap Span(X[d], W(d)) = {}
    BY <1>1, <1>2, LegalSpans
  <1>4. EndsOnSites(r) => X[c] % SiteW = 0
    BY <1>2, OnSiteFacts DEF LegalCells
  <1> QED BY <1>3, <1>4

LEMMA InitHolds ==
  ASSUME LegalizeInit
  PROVE  LInv
  <1>1. TypeOK
    BY InputAssumption DEF LegalizeInit, TypeOK
  <1>2. phase = "start" /\ x = in.x /\ y = in.y
    BY DEF LegalizeInit
  <1> QED BY <1>1, <1>2 DEF LInv, LegalOut, PadOrPlain

LEMMA DeclineKeeps ==
  ASSUME LInv, Decline
  PROVE  LInv'
  <1>1. TypeOK'
    BY DEF LInv, Decline, TypeOK
  <1>2. phase' = "dpl"
    BY DEF Decline
  <1> QED BY <1>1, <1>2 DEF LInv, LegalOut, PadOrPlain

LEMMA PreserveKeeps ==
  ASSUME LInv, Preserve
  PROVE  LInv'
  <1>1. TypeOK'
    BY DEF LInv, Preserve, TypeOK
  <1>2. /\ phase = "start" /\ phase' = "done" /\ in' = in /\ x' = x /\ y' = y /\ unplaced' = unplaced
        /\ InputLegal /\ PaddingCompliant /\ in \in Inputs
    BY DEF LInv, Preserve, TypeOK
  <1>3. x = in.x /\ y = in.y
    BY <1>2 DEF LInv
  <1>4. LegalOut'
    <2>1. \A c \in Cells : y[c] \in {r * SiteH : r \in Rows}
      BY <1>2, <1>3, KeptLegal
    <2>2. ASSUME NEW r \in Rows, NEW c \in InRow(r)
          PROVE  c \in Cells /\ y[c] = r * SiteH
      <3>1. c \in Cells /\ RowOf(y[c]) = r
        BY DEF InRow
      <3>2. PICK q \in Rows : y[c] = q * SiteH
        BY <2>1, <3>1
      <3>3. q = r
        BY <1>2, <3>1, <3>2, RowFacts
      <3> QED BY <3>1, <3>2, <3>3
    <2>3. ASSUME NEW r \in Rows, NEW c \in InRow(r)
          PROVE  /\ Span(x[c], W(c)) \subseteq (0..Core - 1) \ Blocked(r)
                 /\ x[c] % SiteW = 0
                 /\ \A d \in InRow(r) \ {c} : Span(x[c], W(c)) \cap Span(x[d], W(d)) = {}
      <3>1. c \in Cells /\ y[c] = r * SiteH
        BY <2>2
      <3>2. Span(x[c], W(c)) \subseteq (0..Core - 1) \ Blocked(r) /\ x[c] % SiteW = 0
        BY <1>2, <1>3, <3>1, KeptLegal
      <3>3. ASSUME NEW d \in InRow(r) \ {c} PROVE Span(x[c], W(c)) \cap Span(x[d], W(d)) = {}
        <4>1. d \in Cells /\ y[d] = r * SiteH /\ c # d
          BY <2>2
        <4> QED BY <1>2, <1>3, <3>1, <4>1, KeptLegal
      <3> QED BY <3>2, <3>3
    <2>4. /\ \A c \in Cells : x'[c] = x[c] /\ y'[c] = y[c]
          /\ Rows' = Rows /\ \A r : InRow(r)' = InRow(r)
          /\ \A r : Blocked(r)' = Blocked(r)
      BY <1>2, SameInput, SameRows
    <2>5. \A c \in Cells : y'[c] \in {r * SiteH : r \in Rows'}
      BY <2>1, <2>4
    <2>6. \A r \in Rows' : \A c \in InRow(r)' :
            /\ Span(x'[c], W(c)) \subseteq (0..Core - 1) \ Blocked(r)'
            /\ x'[c] % SiteW = 0
            /\ \A d \in InRow(r)' \ {c} : Span(x'[c], W(c)) \cap Span(x'[d], W(d)) = {}
      BY <1>2, <2>3, <2>4
    <2> QED BY <2>5, <2>6 DEF LegalOut
  <1>5. InputLegal' /\ PaddingCompliant'
    BY <1>2, SameInput
  <1> QED BY <1>1, <1>2, <1>4, <1>5 DEF LInv, PadOrPlain

LEMMA BeginKeeps ==
  ASSUME LInv, Begin
  PROVE  LInv'
  <1>0. in \in Inputs
    BY DEF LInv, TypeOK
  <1>1. \A c \in Cells : Clamp(in.x[c], Core - W(c)) \in Int /\ Clamp(in.y[c], (NumRows - 1) * SiteH) \in Int
    BY <1>0, StartFacts DEF StartX, StartY
  <1>2. x' \in [Cells -> Int] /\ y' \in [Cells -> Int]
    BY <1>1 DEF Begin
  <1>3. TypeOK'
    BY <1>2 DEF LInv, Begin, TypeOK
  <1>4. phase' = "first"
    BY DEF Begin
  <1> QED BY <1>3, <1>4 DEF LInv, LegalOut, PadOrPlain

LEMMA GreedyKeeps ==
  ASSUME LInv, GreedyFirst \/ GreedySecond
  PROVE  LInv'
  <1>0. in \in Inputs /\ x \in [Cells -> Int] /\ y \in [Cells -> Int]
    BY DEF LInv, TypeOK
  <1>1. unplaced' \subseteq Cells /\ LegalPlaces(x', y', Cells \ unplaced')
    <2>1. CASE GreedyFirst
      <3>1. Distribute(FromRight)
        BY <2>1 DEF GreedyFirst
      <3> QED BY <1>0, <3>1, PassOrders, DistributeLegal
    <2>2. CASE GreedySecond
      <3>1. Distribute(FromLeft)
        BY <2>2 DEF GreedySecond
      <3> QED BY <1>0, <3>1, PassOrders, DistributeLegal
    <2> QED BY <2>1, <2>2
  <1>2. in' = in /\ ops' = ops /\ phase' \in {"second", "guard"}
    BY DEF GreedyFirst, GreedySecond
  <1>3. TypeOK'
    BY <1>1, <1>2 DEF LInv, TypeOK, LegalPlaces
  <1>4. LegalPlaces(x, y, Cells \ unplaced)'
    <2>1. Rows' = Rows /\ \A r : Blocked(r)' = Blocked(r)
      BY <1>2, SameInput
    <2> QED BY <1>1, <2>1 DEF LegalPlaces, Free
  <1> QED BY <1>2, <1>3, <1>4 DEF LInv, LegalOut, PadOrPlain

LEMMA GuardKeeps ==
  ASSUME LInv, Guard
  PROVE  LInv'
  <1>1. /\ phase = "guard" /\ phase' \in {"dpl", "abacus"}
        /\ in' = in /\ x' = x /\ y' = y /\ ops' = ops /\ unplaced' = unplaced
    BY DEF Guard
  <1>2. TypeOK'
    BY <1>1 DEF LInv, TypeOK
  <1>3. LegalPlaces(x, y, Cells \ unplaced)'
    <2>1. Rows' = Rows /\ \A r : Blocked(r)' = Blocked(r)
      BY <1>1, SameInput
    <2>2. LegalPlaces(x, y, Cells \ unplaced)
      BY <1>1 DEF LInv
    <2> QED BY <1>1, <2>1, <2>2 DEF LegalPlaces, Free
  <1> QED BY <1>1, <1>2, <1>3 DEF LInv, LegalOut, PadOrPlain

LEMMA AbacusKeeps ==
  ASSUME LInv, Abacus
  PROVE  LInv'
  <1>1. /\ in' = in /\ y' = y /\ unplaced' = unplaced /\ phase = "abacus" /\ in \in Inputs
        /\ x \in [Cells -> Int] /\ y \in [Cells -> Int] /\ ops \in [Cells -> Int]
        /\ LegalPlaces(x, y, Cells \ unplaced) /\ unplaced \in SUBSET Cells
    BY DEF LInv, TypeOK, Abacus
  <1>2. CASE \E r \in Rows : ~PlaceRow(Nodes(r)).ok
    <2>1. phase' = "abort" /\ x' = x /\ ops' = ops
      BY <1>2 DEF Abacus
    <2>2. TypeOK'
      BY <1>1, <2>1 DEF TypeOK
    <2> QED BY <2>1, <2>2 DEF LInv, LegalOut, PadOrPlain
  <1>3. CASE ~ \E r \in Rows : ~PlaceRow(Nodes(r)).ok
    <2>1. phase' = "pad" /\ ops' = [c \in Cells |-> AbacusX(c)] /\ x' = ops'
      BY <1>3 DEF Abacus
    <2>2. PICK X : X = [c \in Cells |-> AbacusX(c)]
      OBVIOUS
    <2>3. x' = X /\ ops' = X /\ DOMAIN X = Cells /\ \A c \in Cells : X[c] = AbacusX(c)
      BY <2>1, <2>2
    <2>4. ASSUME NEW r \in Rows
          PROVE  /\ \A c \in InRow(r) : X[c] \in Int /\ 0 <= X[c] /\ OnSite(X[c])
                 /\ \A c, d \in InRow(r) : X[c] = X[d] => c = d
                 /\ Sound(r) => LegalCells(r, X, InRow(r))
      <3>1. PlaceRow(Nodes(r)).ok
        BY <1>3
      <3>2. \A c \in InRow(r) : X[c] = AbacusX(c)
        BY <2>3 DEF InRow
      <3>3. Sound(r) => EndsOnSites(r) \/ Good(r)
        BY <1>1, PlacedGood DEF Sound
      <3> QED BY <1>1, <3>1, <3>2, <3>3, AbacusRow
    <2>5. X \in [Cells -> Int]
      <3>1. ASSUME NEW c \in Cells PROVE X[c] \in Int
        <4>1. RowOf(y[c]) \in Rows /\ c \in InRow(RowOf(y[c]))
          BY <1>1, RowFacts DEF InRow
        <4> QED BY <2>4, <4>1
      <3> QED BY <2>2, <2>3, <3>1
    <2>6. TypeOK'
      BY <1>1, <2>1, <2>3, <2>5 DEF TypeOK
    <2>7. FromAbacus'
      <3>1. /\ Rows' = Rows /\ \A r : Blocked(r)' = Blocked(r)
            /\ \A r : InRow(r)' = InRow(r)
            /\ \A r : Sound(r)' <=> Sound(r)
        BY <1>1, SameInput, SameRows
      <3>2. \A r \in Rows' :
              /\ \A c \in InRow(r)' : 0 <= x'[c] /\ OnSite(x'[c]) /\ ops'[c] = x'[c]
              /\ \A c, d \in InRow(r)' : x'[c] = x'[d] => c = d
        BY <2>3, <2>4, <3>1
      <3>3. \A r \in Rows' : Sound(r)' => LegalCells(r, x, InRow(r))'
        BY <2>3, <2>4, <3>1 DEF LegalCells, Free
      <3> QED BY <3>2, <3>3 DEF FromAbacus
    <2> QED BY <2>1, <2>6, <2>7 DEF LInv, LegalOut, PadOrPlain
  <1> QED BY <1>2, <1>3

LEMMA PadKeeps ==
  ASSUME LInv, Pad
  PROVE  LInv'
  <1>1. /\ in' = in /\ ops' = ops /\ unplaced' = unplaced /\ phase' = "done" /\ in \in Inputs
        /\ x \in [Cells -> Int] /\ y \in [Cells -> Int] /\ ops \in [Cells -> Int]
        /\ unplaced \in SUBSET Cells /\ FromAbacus
    BY DEF LInv, TypeOK, Pad
  <1>2. /\ DOMAIN x' = Cells
        /\ \A c \in Cells : x'[c] = IF in.pad = 0 THEN x[c] ELSE PadRow(RowOf(y[c]))[c]
        /\ y' = [c \in Cells |-> RowOf(y[c]) * SiteH]
    BY <1>1 DEF Pad
  <1>3. PICK X : X = x'
    OBVIOUS
  <1>4. \A c \in Cells : RowOf(y[c]) \in Rows /\ RowOf(y[c]) * SiteH \in Int
                         /\ RowOf(RowOf(y[c]) * SiteH) = RowOf(y[c])
    BY <1>1, RowFacts
  <1>5. ASSUME NEW r \in Rows
        PROVE  /\ \A c \in InRow(r) : X[c] \in Int
               /\ Sound(r) =>
                    /\ LegalCells(r, X, InRow(r))
                    /\ EndsOnSites(r) => \A c \in InRow(r) : OnSite(X[c])
                    /\ \/ \A c \in InRow(r) : X[c] = ops[c]
                       \/ \A c, d \in InRow(r) : X[c] < X[d] => X[d] - X[c] >= W(c) + in.pad * SiteW
    <2>1. /\ \A c \in InRow(r) : x[c] \in Int /\ 0 <= x[c] /\ OnSite(x[c]) /\ ops[c] = x[c]
          /\ \A c, d \in InRow(r) : x[c] = x[d] => c = d
          /\ Sound(r) => LegalCells(r, x, InRow(r))
      BY <1>1 DEF FromAbacus, InRow
    <2>2. CASE in.pad = 0
      <3>1. \A c \in InRow(r) : X[c] = x[c]
        BY <1>2, <1>3, <2>2 DEF InRow
      <3> QED BY <2>1, <3>1 DEF LegalCells
    <2>3. CASE in.pad # 0
      <3>1. \A c \in InRow(r) : X[c] = PadRow(r)[c]
        BY <1>2, <1>3, <2>3 DEF InRow
      <3> QED BY <1>1, <2>1, <3>1, PadRowFacts
    <2> QED BY <2>2, <2>3
  <1>6. X \in [Cells -> Int] /\ y' \in [Cells -> Int]
    <2>1. \A c \in Cells : X[c] \in Int
      <3> TAKE c \in Cells
      <3>1. c \in InRow(RowOf(y[c]))
        BY DEF InRow
      <3> QED BY <1>4, <1>5, <3>1
    <2>2. X = [c \in Cells |-> X[c]]
      BY <1>1, <1>3 DEF Pad
    <2> QED BY <1>2, <1>4, <2>1, <2>2
  <1>7. TypeOK'
    BY <1>1, <1>3, <1>6 DEF TypeOK
  <1>8. /\ Rows' = Rows /\ \A r : Blocked(r)' = Blocked(r)
        /\ \A r : EndsOnSites(r)' <=> EndsOnSites(r)
    BY <1>1, SameInput
  <1>9. \A r : InRow(r)' = InRow(r)
    <2>1. \A v : RowOf(v)' = RowOf(v)
      BY <1>1, SameInput DEF RowOf
    <2>2. \A c \in Cells : RowOf(y[c])' = RowOf(y[c])
      BY <1>2, <1>4, <2>1
    <2> QED BY <2>2 DEF InRow
  <1>10. \A r : Sound(r)' <=> Sound(r)
    BY <1>1, <1>8, <1>9 DEF Sound
  <1>11. LegalOut'
    <2>1. PICK Y : Y = y'
      OBVIOUS
    <2>2. \A c \in Cells : Y[c] \in {r * SiteH : r \in Rows}
      BY <1>2, <1>4, <2>1
    <2>3. /\ \A c \in Cells : Y[c] \in {r * SiteH : r \in Rows}
          /\ \A r \in Rows : Sound(r) => \A c \in InRow(r) :
               /\ Span(X[c], W(c)) \subseteq (0..Core - 1) \ Blocked(r)
               /\ EndsOnSites(r) => X[c] % SiteW = 0
               /\ \A d \in InRow(r) \ {c} : Span(X[c], W(c)) \cap Span(X[d], W(d)) = {}
      BY <1>1, <1>5, <2>2, RowsLegal
    <2>4. \A c \in Cells : y'[c] \in {r * SiteH : r \in Rows'}
      BY <1>8, <2>1, <2>3
    <2>5. \A r \in Rows' : Sound(r)' => \A c \in InRow(r)' :
            /\ Span(x'[c], W(c)) \subseteq (0..Core - 1) \ Blocked(r)'
            /\ EndsOnSites(r)' => x'[c] % SiteW = 0
            /\ \A d \in InRow(r)' \ {c} : Span(x'[c], W(c)) \cap Span(x'[d], W(d)) = {}
      BY <1>3, <1>8, <1>9, <1>10, <2>3
    <2> QED BY <2>4, <2>5 DEF LegalOut
  <1>12. PadOrPlain'
    <2>1. \A r \in Rows' : Sound(r)' =>
            \/ \A c \in InRow(r)' : x'[c] = ops'[c]
            \/ \A c, d \in InRow(r)' : x'[c] < x'[d] => x'[d] - x'[c] >= W(c) + in'.pad * SiteW
      BY <1>1, <1>3, <1>5, <1>8, <1>9, <1>10
    <2> QED BY <2>1 DEF PadOrPlain
  <1> QED BY <1>1, <1>7, <1>11, <1>12 DEF LInv

LEMMA StutterKeeps ==
  ASSUME LInv, UNCHANGED lvars
  PROVE  LInv'
  <1>1. /\ in' = in /\ x' = x /\ y' = y /\ ops' = ops /\ unplaced' = unplaced /\ phase' = phase
    BY DEF lvars
  <1>2. /\ Rows' = Rows /\ \A r : Blocked(r)' = Blocked(r)
        /\ \A r : InRow(r)' = InRow(r)
        /\ \A r : Sound(r)' <=> Sound(r)
        /\ \A r : EndsOnSites(r)' <=> EndsOnSites(r)
        /\ InputLegal' <=> InputLegal
        /\ PaddingCompliant' <=> PaddingCompliant
    BY <1>1, SameInput, SameRows
  <1>3. TypeOK'
    BY <1>1 DEF LInv, TypeOK
  <1>4. phase' \in {"guard", "abacus"} => LegalPlaces(x, y, Cells \ unplaced)'
    BY <1>1, <1>2 DEF LInv, LegalPlaces, Free
  <1>5. phase' = "pad" => FromAbacus'
    BY <1>1, <1>2 DEF LInv, FromAbacus, LegalCells, Free
  <1>6. LegalOut'
    BY <1>1, <1>2 DEF LInv, LegalOut
  <1>7. PadOrPlain'
    BY <1>1, <1>2 DEF LInv, PadOrPlain
  <1> QED BY <1>1, <1>3, <1>4, <1>5, <1>6, <1>7 DEF LInv

LEMMA LInvHolds == LegalizeSpec => []LInv
  <1>1. ASSUME LInv, [LegalizeNext]_lvars PROVE LInv'
    <2>1. CASE Decline
      BY <1>1, <2>1, DeclineKeeps
    <2>2. CASE Preserve
      BY <1>1, <2>2, PreserveKeeps
    <2>3. CASE Begin
      BY <1>1, <2>3, BeginKeeps
    <2>4. CASE GreedyFirst \/ GreedySecond
      BY <1>1, <2>4, GreedyKeeps
    <2>5. CASE Guard
      BY <1>1, <2>5, GuardKeeps
    <2>6. CASE Abacus
      BY <1>1, <2>6, AbacusKeeps
    <2>7. CASE Pad
      BY <1>1, <2>7, PadKeeps
    <2>8. CASE UNCHANGED lvars
      BY <1>1, <2>8, StutterKeeps
    <2> QED BY <1>1, <2>1, <2>2, <2>3, <2>4, <2>5, <2>6, <2>7, <2>8 DEF LegalizeNext
  <1> QED BY <1>1, InitHolds, PTL DEF LegalizeSpec

\* The places of the cells, also those Abacus left them at, are whole numbers
\* throughout: no division in greedy, Abacus or padding leaves the rows.
THEOREM LegalizeTypes == LegalizeSpec => []TypeOK
  <1>1. LInv => TypeOK
    BY DEF LInv
  <1> QED BY <1>1, LInvHolds, PTL

\* What dpLegalizeCore delivers is legal in every row where the obstacles end
\* on sites or every cell had a place after the greedy passes: every cell is
\* within the core, off all obstacles and off all other cells, after Abacus,
\* alignment to sites and padding have all moved it.
THEOREM LegalPlacement == LegalizeSpec => []LegalOut
  <1>1. LInv => LegalOut
    BY DEF LInv
  <1> QED BY <1>1, LInvHolds, PTL

\* The padding pass pads such a row as asked or leaves it as Abacus did:
\* starting over without padding, it moves no cell (dpLegalizeCore, legalize_core.cpp:439).
THEOREM PaddedOrPlain == LegalizeSpec => []PadOrPlain
  <1>1. LInv => PadOrPlain
    BY DEF LInv
  <1> QED BY <1>1, LInvHolds, PTL

=============================================================================
