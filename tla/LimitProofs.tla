---------------------------- MODULE LimitProofs ----------------------------
(***************************************************************************)
(* What the two counting controls promise, for every instance: the fixed   *)
(* windows of RateLimiter and the counts over auth_audit of Registration.  *)
(* Both keep their counts by age and add them up, so facts about totals    *)
(* come first: they are proved by induction, in the form of a set that     *)
(* contains whatever its smaller neighbours force into it.                 *)
(***************************************************************************)
EXTENDS RateLimiter, Registration, FiniteSetTheorems, WellFoundedInduction, TLAPS

LEMMA NatOrder ==
  \E R : IsWellFoundedOn(R, Nat) /\ \A x, y \in Nat : <<y, x>> \in R <=> y < x
<1>1. \A x, y \in Nat : <<y, x>> \in OpToRel(<, Nat) <=> y < x
  BY DEF OpToRel
<1> QED BY <1>1, NatLessThanWellFounded, Zenon

LEMMA Least ==
  ASSUME NEW T \in SUBSET Nat, T # {}
  PROVE  \E n \in T : \A m \in T : n <= m
<1>1. PICK R : IsWellFoundedOn(R, Nat) /\ \A x, y \in Nat : <<y, x>> \in R <=> y < x
  BY NatOrder
<1>2. PICK x \in T : \A y \in T : ~ (<<y, x>> \in R)
  BY <1>1, WFMin
<1>3. \A y \in T : ~ (y < x)
  BY <1>1, <1>2, Zenon
<1> QED BY <1>3

LEMMA CountUp ==
  ASSUME NEW B, 0 \in B, \A n \in Nat : n \in B => n + 1 \in B
  PROVE  Nat \subseteq B
<1> SUFFICES ASSUME Nat \ B # {} PROVE FALSE
  OBVIOUS
<1>1. PICK n \in Nat \ B : \A m \in Nat \ B : n <= m
  BY Least
<1>2. n # 0 /\ n - 1 \in Nat
  BY <1>1
<1>3. n - 1 \in B
  BY <1>1, <1>2
<1> QED BY <1>1, <1>2, <1>3

LEMMA SetInduction ==
  ASSUME NEW S, IsFiniteSet(S), NEW B,
         \A s \in SUBSET S : (\A x \in s : s \ {x} \in B) => s \in B
  PROVE  \A s \in SUBSET S : s \in B
<1> DEFINE Size(n) == {s \in SUBSET S : Cardinality(s) = n}
           G == {n \in Nat : Size(n) \subseteq B}
<1>0. \A s \in SUBSET S : IsFiniteSet(s) /\ Cardinality(s) \in Nat
  BY FS_Subset, FS_CardinalityType
<1>1. 0 \in G
  <2>1. \A s \in Size(0) : s = {}
    BY <1>0, FS_EmptySet
  <2> QED BY <2>1
<1>2. ASSUME NEW n \in Nat, n \in G PROVE n + 1 \in G
  <2>1. ASSUME NEW s \in Size(n + 1), NEW x \in s PROVE s \ {x} \in B
    <3>1. Cardinality(s \ {x}) = Cardinality(s) - 1
      BY <1>0, FS_RemoveElement
    <3>2. s \ {x} \in Size(n)
      BY <3>1
    <3> QED BY <1>2, <3>2
  <2> QED BY <2>1
<1> HIDE DEF G
<1>3. Nat \subseteq G
  BY <1>1, <1>2, CountUp
<1> QED BY <1>0, <1>3 DEF G

-----------------------------------------------------------------------------
First(s) == CHOOSE y \in s : TRUE
IsTotal(f, S, g) == g = [s \in SUBSET S |-> IF s = {} THEN 0 ELSE f[First(s)] + g[s \ {First(s)}]]

LEMMA TotalUnfolds ==
  ASSUME NEW f, NEW S, \E g : IsTotal(f, S, g)
  PROVE  \E g : IsTotal(f, S, g) /\ SumFunctionOnSet(f, S) = g[S]
  BY DEF SumFunctionOnSet, FoldFunctionOnSet, MapThenFoldSet, IsTotal, First

LEMMA TotalExists ==
  ASSUME NEW S, IsFiniteSet(S), NEW f
  PROVE  \E g : IsTotal(f, S, g)
<1> DEFINE UpTo(n) == {s \in SUBSET S : Cardinality(s) <= n}
           Ok(n, g) == g = [s \in UpTo(n) |->
                              IF s = {} THEN 0 ELSE f[First(s)] + g[s \ {First(s)}]]
           B == {n \in Nat : \E g : Ok(n, g)}
<1>0. \A s \in SUBSET S : IsFiniteSet(s) /\ Cardinality(s) \in Nat
  BY FS_Subset, FS_CardinalityType
<1>1. ASSUME NEW n \in Nat, NEW s \in UpTo(n + 1), s # {}
      PROVE  s \ {First(s)} \in UpTo(n)
  <2>1. First(s) \in s
    BY <1>1 DEF First
  <2>2. Cardinality(s \ {First(s)}) = Cardinality(s) - 1
    BY <1>0, <2>1, FS_RemoveElement
  <2> QED BY <1>0, <2>2
<1>2. 0 \in B
  <2> DEFINE g0 == [s \in UpTo(0) |-> 0]
  <2>1. \A s \in UpTo(0) : s = {}
    BY <1>0, FS_EmptySet
  <2>2. Ok(0, g0)
    BY <2>1
  <2> QED BY <2>2
<1>3. ASSUME NEW n \in Nat, n \in B PROVE n + 1 \in B
  <2>1. PICK g : Ok(n, g)
    BY <1>3
  <2> DEFINE h == [s \in UpTo(n + 1) |->
                     IF s = {} THEN 0 ELSE f[First(s)] + g[s \ {First(s)}]]
  <2>2. ASSUME NEW s \in UpTo(n) PROVE h[s] = g[s]
    <3>1. s \in UpTo(n + 1)
      BY <1>0
    <3>2. g[s] = IF s = {} THEN 0 ELSE f[First(s)] + g[s \ {First(s)}]
      BY <2>1
    <3> QED BY <3>1, <3>2
  <2>3. \A s \in UpTo(n + 1) : s # {} => h[s \ {First(s)}] = g[s \ {First(s)}]
    BY <1>1, <2>2
  <2>4. Ok(n + 1, h)
    BY <2>3
  <2> HIDE DEF h, Ok
  <2>5. \E q : Ok(n + 1, q)
    BY <2>4
  <2> QED BY <2>5
<1> HIDE DEF B
<1>4. Cardinality(S) \in B
  BY <1>0, <1>2, <1>3, CountUp
<1>5. PICK g : Ok(Cardinality(S), g)
  BY <1>4 DEF B
<1>6. UpTo(Cardinality(S)) = SUBSET S
  BY <1>0, FS_Subset
<1> QED BY <1>5, <1>6 DEF IsTotal

LEMMA TotalUnique ==
  ASSUME NEW S, IsFiniteSet(S), NEW U \in SUBSET S, NEW f, NEW g, NEW h,
         IsTotal(f, S, g), IsTotal(f, U, h)
  PROVE  \A s \in SUBSET U : g[s] = h[s]
<1> DEFINE B == {s \in SUBSET U : g[s] = h[s]}
<1>1. IsFiniteSet(U)
  BY FS_Subset
<1>2. ASSUME NEW s \in SUBSET U, \A x \in s : s \ {x} \in B PROVE s \in B
  <2>1. /\ g[s] = IF s = {} THEN 0 ELSE f[First(s)] + g[s \ {First(s)}]
        /\ h[s] = IF s = {} THEN 0 ELSE f[First(s)] + h[s \ {First(s)}]
    BY DEF IsTotal
  <2>2. s # {} => First(s) \in s
    BY DEF First
  <2> QED BY <1>2, <2>1, <2>2
<1> HIDE DEF B
<1>3. \A s \in SUBSET U : s \in B
  BY <1>1, <1>2, SetInduction
<1> QED BY <1>3 DEF B

LEMMA TotalRecursion ==
  ASSUME NEW S, IsFiniteSet(S), NEW f
  PROVE  SumFunctionOnSet(f, S) =
           IF S = {} THEN 0 ELSE f[First(S)] + SumFunctionOnSet(f, S \ {First(S)})
<1> DEFINE U == S \ {First(S)}
<1>1. IsFiniteSet(U)
  BY FS_Subset
<1>2. PICK g : IsTotal(f, S, g) /\ SumFunctionOnSet(f, S) = g[S]
  BY TotalExists, TotalUnfolds
<1>3. PICK h : IsTotal(f, U, h) /\ SumFunctionOnSet(f, U) = h[U]
  BY <1>1, TotalExists, TotalUnfolds
<1>4. g[U] = h[U]
  BY <1>2, <1>3, TotalUnique
<1>5. g[S] = IF S = {} THEN 0 ELSE f[First(S)] + g[U]
  BY <1>2 DEF IsTotal
<1> QED BY <1>2, <1>3, <1>4, <1>5

\* The total of f over S
Total(f, S) == SumFunctionOnSet(f, S)
NatOn(f, S) == \A x \in S : f[x] \in Nat

LEMMA TotalEmpty == \A f : Total(f, {}) = 0
  BY TotalRecursion, FS_EmptySet DEF Total

LEMMA TotalType ==
  ASSUME NEW S, IsFiniteSet(S), NEW f, NatOn(f, S)
  PROVE  Total(f, S) \in Nat
<1> DEFINE B == {s \in SUBSET S : Total(f, s) \in Nat}
<1>1. ASSUME NEW s \in SUBSET S, \A x \in s : s \ {x} \in B PROVE s \in B
  <2>1. Total(f, s) = IF s = {} THEN 0 ELSE f[First(s)] + Total(f, s \ {First(s)})
    BY FS_Subset, TotalRecursion DEF Total
  <2>2. s # {} => First(s) \in s
    BY DEF First
  <2> QED BY <1>1, <2>1, <2>2 DEF NatOn
<1> HIDE DEF B
<1>2. S \in B
  BY <1>1, SetInduction
<1> QED BY <1>2 DEF B

\* The order in which the elements are added does not matter.
LEMMA TotalStep ==
  ASSUME NEW S, IsFiniteSet(S), NEW f, NatOn(f, S), NEW a \in S
  PROVE  Total(f, S) = f[a] + Total(f, S \ {a})
<1> DEFINE B == {s \in SUBSET S : \A x \in s : Total(f, s) = f[x] + Total(f, s \ {x})}
<1>1. ASSUME NEW s \in SUBSET S, \A x \in s : s \ {x} \in B PROVE s \in B
  <2> SUFFICES ASSUME NEW x \in s PROVE Total(f, s) = f[x] + Total(f, s \ {x})
    OBVIOUS
  <2> DEFINE p == First(s)
  <2>1. p \in s
    BY DEF First
  <2>2. Total(f, s) = f[p] + Total(f, s \ {p})
    BY FS_Subset, TotalRecursion DEF Total
  <2>3. CASE x = p
    BY <2>2, <2>3
  <2>4. CASE x # p
    <3>1. Total(f, s \ {p}) = f[x] + Total(f, (s \ {p}) \ {x})
      BY <1>1, <2>1, <2>4
    <3>2. Total(f, s \ {x}) = f[p] + Total(f, (s \ {x}) \ {p})
      BY <1>1, <2>1, <2>4
    <3>3. (s \ {p}) \ {x} = (s \ {x}) \ {p}
      OBVIOUS
    <3> DEFINE u == (s \ {p}) \ {x}
    <3>4. Total(f, u) \in Nat /\ f[x] \in Nat /\ f[p] \in Nat
      BY <2>1, FS_Subset, TotalType DEF NatOn
    <3>5. Total(f, s \ {p}) = f[x] + Total(f, u)
      BY <3>1
    <3>6. Total(f, s \ {x}) = f[p] + Total(f, u)
      BY <3>2, <3>3, Zenon
    <3> HIDE DEF u, p
    <3> QED BY <2>2, <3>4, <3>5, <3>6
  <2> QED BY <2>3, <2>4
<1> HIDE DEF B
<1>2. S \in B
  BY <1>1, SetInduction
<1> QED BY <1>2 DEF B

LEMMA TotalAdd ==
  ASSUME NEW S, IsFiniteSet(S), NEW f, NEW a, a \notin S, NatOn(f, S \cup {a})
  PROVE  Total(f, S \cup {a}) = f[a] + Total(f, S)
<1>1. (S \cup {a}) \ {a} = S
  OBVIOUS
<1>2. IsFiniteSet(S \cup {a})
  BY FS_AddElement
<1> QED BY <1>1, <1>2, TotalStep

LEMMA TotalSame ==
  ASSUME NEW S, IsFiniteSet(S), NEW f, NEW g, \A x \in S : f[x] = g[x]
  PROVE  Total(f, S) = Total(g, S)
<1> DEFINE B == {s \in SUBSET S : Total(f, s) = Total(g, s)}
<1>1. ASSUME NEW s \in SUBSET S, \A x \in s : s \ {x} \in B PROVE s \in B
  <2>1. /\ Total(f, s) = IF s = {} THEN 0 ELSE f[First(s)] + Total(f, s \ {First(s)})
        /\ Total(g, s) = IF s = {} THEN 0 ELSE g[First(s)] + Total(g, s \ {First(s)})
    BY FS_Subset, TotalRecursion DEF Total
  <2>2. s # {} => First(s) \in s
    BY DEF First
  <2> QED BY <1>1, <2>1, <2>2
<1> HIDE DEF B
<1>2. \A s \in SUBSET S : s \in B
  BY <1>1, SetInduction, Zenon
<1> QED BY <1>2 DEF B

-----------------------------------------------------------------------------
(* Totals by age: f over the ages 0 .. n-1 *)
Younger(f, n) == Total(f, 0 .. n - 1)

LEMMA AgesFinite == \A n \in Nat : IsFiniteSet(0 .. n - 1)
  BY FS_Interval

LEMMA YoungerZero == \A f : Younger(f, 0) = 0
<1>1. 0 .. 0 - 1 = {}
  OBVIOUS
<1> QED BY <1>1, TotalEmpty DEF Younger

LEMMA YoungerType ==
  ASSUME NEW n \in Nat, NEW f, NatOn(f, 0 .. n - 1)
  PROVE  Younger(f, n) \in Nat
  BY AgesFinite, TotalType DEF Younger

LEMMA YoungerNext ==
  ASSUME NEW n \in Nat, NEW f, NatOn(f, 0 .. n)
  PROVE  Younger(f, n + 1) = Younger(f, n) + f[n]
<1>1. 0 .. (n + 1) - 1 = (0 .. n - 1) \cup {n} /\ n \notin 0 .. n - 1
  OBVIOUS
<1>2. Total(f, (0 .. n - 1) \cup {n}) = f[n] + Total(f, 0 .. n - 1)
  <2>1. NatOn(f, (0 .. n - 1) \cup {n})
    BY <1>1 DEF NatOn
  <2> QED BY <1>1, <2>1, AgesFinite, TotalAdd
<1>3. Younger(f, n) \in Nat /\ f[n] \in Nat
  BY YoungerType DEF NatOn
<1>4. Younger(f, n + 1) = f[n] + Younger(f, n)
  BY <1>1, <1>2, Zenon DEF Younger
<1> QED BY <1>3, <1>4

LEMMA YoungerSame ==
  ASSUME NEW n \in Nat, NEW f, NEW g, \A a \in 0 .. n - 1 : f[a] = g[a]
  PROVE  Younger(f, n) = Younger(g, n)
  BY AgesFinite, TotalSame DEF Younger

LEMMA YoungerNothing ==
  ASSUME NEW N \in Nat, NEW f, \A a \in 0 .. N - 1 : f[a] = 0
  PROVE  Younger(f, N) = 0
<1> DEFINE B == {n \in Nat : n <= N => Younger(f, n) = 0}
<1>1. 0 \in B
  BY YoungerZero
<1>2. ASSUME NEW n \in Nat, n \in B PROVE n + 1 \in B
  <2> SUFFICES ASSUME n + 1 <= N PROVE Younger(f, n + 1) = 0
    OBVIOUS
  <2>1. NatOn(f, 0 .. n) /\ f[n] = 0
    BY DEF NatOn
  <2>2. Younger(f, n + 1) = Younger(f, n) + f[n]
    BY <2>1, YoungerNext
  <2> QED BY <1>2, <2>1, <2>2
<1> HIDE DEF B
<1>3. N \in B
  BY <1>1, <1>2, CountUp
<1> QED BY <1>3 DEF B

\* d more at age 0
Raised(f, g, n, d) ==
  NatOn(f, 0 .. n - 1) /\ g[0] = f[0] + d /\ \A a \in 1 .. n - 1 : g[a] = f[a]

LEMMA YoungerRaised ==
  ASSUME NEW n \in Nat \ {0}, NEW f, NEW g, NEW d \in Nat, Raised(f, g, n, d)
  PROVE  Younger(g, n) = Younger(f, n) + d
<1> USE DEF Raised
<1> DEFINE S == (0 .. n - 1) \ {0}
<1>0. IsFiniteSet(S) /\ S = 1 .. n - 1
  BY AgesFinite, FS_Subset
<1>1. Total(f, S) = Total(g, S) /\ Total(f, S) \in Nat
  BY <1>0, TotalSame, TotalType DEF NatOn
<1>2. Younger(f, n) = f[0] + Total(f, S)
  BY AgesFinite, TotalStep DEF Younger
<1>3. NatOn(g, 0 .. n - 1)
  BY DEF NatOn
<1>4. Younger(g, n) = g[0] + Total(g, S)
  BY AgesFinite, TotalStep, <1>3 DEF Younger
<1>5. f[0] \in Nat
  BY DEF NatOn
<1> HIDE DEF S
<1> QED BY <1>1, <1>2, <1>4, <1>5

\* When everything grows a tick older, what is younger than n + 1 was younger than n.
Aged(f, g, N) ==
  NatOn(f, 0 .. N - 1) /\ g[0] = 0 /\ \A a \in 1 .. N : g[a] = f[a - 1]

LEMMA YoungerAged ==
  ASSUME NEW N \in Nat, NEW f, NEW g, Aged(f, g, N)
  PROVE  \A n \in 0 .. N : Younger(g, n + 1) = Younger(f, n)
<1> USE DEF Aged
<1> DEFINE B == {n \in Nat : n <= N => Younger(g, n + 1) = Younger(f, n)}
<1>1. 0 \in B
  <2>1. NatOn(g, 0 .. 0)
    BY DEF NatOn
  <2>2. Younger(g, 0 + 1) = Younger(g, 0) + g[0]
    BY <2>1, YoungerNext
  <2> QED BY <2>2, YoungerZero
<1>2. ASSUME NEW n \in Nat, n \in B PROVE n + 1 \in B
  <2> SUFFICES ASSUME n + 1 <= N PROVE Younger(g, (n + 1) + 1) = Younger(f, n + 1)
    OBVIOUS
  <2>1. NatOn(g, 0 .. n + 1) /\ NatOn(f, 0 .. n)
    BY DEF NatOn
  <2>2. Younger(g, (n + 1) + 1) = Younger(g, n + 1) + g[n + 1]
    BY <2>1, YoungerNext
  <2>3. Younger(f, n + 1) = Younger(f, n) + f[n]
    BY <2>1, YoungerNext
  <2> QED BY <1>2, <2>2, <2>3
<1> HIDE DEF B
<1>3. Nat \subseteq B
  BY <1>1, <1>2, CountUp
<1> QED BY <1>3 DEF B

LEMMA YoungerGrows ==
  ASSUME NEW N \in Nat, NEW f, NatOn(f, 0 .. N - 1)
  PROVE  \A n \in 0 .. N : Younger(f, n) <= Younger(f, N)
<1> DEFINE B == {n \in Nat : n <= N => \A m \in 0 .. n : Younger(f, m) <= Younger(f, n)}
<1>0. \A n \in 0 .. N : Younger(f, n) \in Nat
  BY YoungerType DEF NatOn
<1>1. 0 \in B
  BY <1>0
<1>2. ASSUME NEW n \in Nat, n \in B PROVE n + 1 \in B
  <2> SUFFICES ASSUME n + 1 <= N PROVE \A m \in 0 .. n + 1 : Younger(f, m) <= Younger(f, n + 1)
    OBVIOUS
  <2>1. NatOn(f, 0 .. n)
    BY DEF NatOn
  <2>2. Younger(f, n + 1) = Younger(f, n) + f[n] /\ f[n] \in Nat
    BY <2>1, YoungerNext DEF NatOn
  <2> HIDE DEF NatOn
  <2> QED BY <1>0, <1>2, <2>2
<1> HIDE DEF B
<1>3. N \in B
  BY <1>1, <1>2, CountUp
<1> QED BY <1>3 DEF B

-----------------------------------------------------------------------------
(* The limiter: what one call does to the table.                           *)

LimiterTyped ==
  /\ table \subseteq Key
  /\ count \in [Key -> Nat] /\ left \in [Key -> 0 .. Window]
  /\ \A k \in Live : count[k] <= Limit

LEMMA TableFinite ==
  ASSUME LimiterTyped
  PROVE  /\ IsFiniteSet(table) /\ Cardinality(table) \in Nat
         /\ IsFiniteSet(Live) /\ Cardinality(Live) \in Nat /\ Cardinality(Live) <= Cardinality(table)
<1>1. IsFiniteSet(table) /\ Live \subseteq table
  BY LimiterAssumption, FS_Subset DEF LimiterTyped, Live
<1> QED BY <1>1, FS_Subset, FS_CardinalityType

\* A call about k leaves every other window that is open as it is.
LEMMA SweptKeeps ==
  ASSUME LimiterTyped, NEW k \in Key
  PROVE  Live \subseteq Swept(k) /\ Swept(k) \subseteq table /\ (k \in table => Swept(k) = table)
  BY DEF Swept, Live

\* What k holds after n units were granted: its window goes on, or a new one starts.
LEMMA ChargeEffect ==
  ASSUME LimiterTyped, NEW k \in Key, NEW n \in Nat, Charge(k, n)
  PROVE  /\ LimiterTyped'
         /\ \A j \in Live \ {k} : j \in Live' /\ count'[j] = count[j] /\ left'[j] = left[j]
         /\ \A j \in Live' \ {k} : j \in Live
         /\ k \in Live' /\ count'[k] <= Limit
         /\ k \in Live => count'[k] = count[k] + n /\ left'[k] = left[k]
         /\ k \notin Live => count'[k] = n /\ left'[k] = Window
<1> USE LimiterAssumption
<1>1. CASE k \in Live
  <2>1. /\ table' = table
        /\ count' = [j \in Key |-> IF j \in table THEN [count EXCEPT ![k] = @ + n][j] ELSE 0]
        /\ left' = [j \in Key |-> IF j \in table THEN left[j] ELSE 0]
        /\ count[k] + n <= Limit
    BY <1>1 DEF Charge, Buckets, Fits
  <2>2. /\ count' \in [Key -> Nat] /\ left' \in [Key -> 0 .. Window]
        /\ \A j \in table : left'[j] = left[j] /\ (j # k => count'[j] = count[j])
        /\ count'[k] = count[k] + n
    BY <1>1, <2>1 DEF LimiterTyped, Live
  <2>3. Live' = Live
    BY <2>1, <2>2 DEF Live, LimiterTyped
  <2> QED BY <1>1, <2>1, <2>2, <2>3 DEF LimiterTyped, Live
<1>2. CASE k \notin Live
  <2> DEFINE T == Swept(k) \cup {k}
  <2>1. /\ table' = T
        /\ count' = [j \in Key |-> IF j \in T THEN [count EXCEPT ![k] = n][j] ELSE 0]
        /\ left' = [j \in Key |-> IF j \in T THEN [left EXCEPT ![k] = Window][j] ELSE 0]
        /\ n <= Limit
    BY <1>2 DEF Charge, Buckets, Fits
  <2>2. Live \subseteq T /\ T \subseteq table \cup {k} /\ k \in T
    BY SweptKeeps
  <2> HIDE DEF T
  <2>3. /\ count' \in [Key -> Nat] /\ left' \in [Key -> 0 .. Window]
        /\ \A j \in T : j # k => count'[j] = count[j] /\ left'[j] = left[j]
        /\ count'[k] = n /\ left'[k] = Window
    BY <2>1, <2>2 DEF LimiterTyped
  <2>4. Live' = Live \cup {k}
    BY <2>1, <2>2, <2>3 DEF Live, LimiterTyped
  <2> QED BY <1>2, <2>1, <2>2, <2>3, <2>4 DEF LimiterTyped
<1> QED BY <1>1, <1>2

\* Deleting buckets whose window has ended changes no open window.
LEMMA DropEffect ==
  ASSUME LimiterTyped, NEW T \in SUBSET table, Live \subseteq T, Buckets(T, count, left)
  PROVE  /\ LimiterTyped' /\ Live' = Live
         /\ \A j \in Live : count'[j] = count[j] /\ left'[j] = left[j]
<1>1. /\ table' = T
      /\ count' = [j \in Key |-> IF j \in T THEN count[j] ELSE 0]
      /\ left' = [j \in Key |-> IF j \in T THEN left[j] ELSE 0]
  BY DEF Buckets
<1>2. /\ count' \in [Key -> Nat] /\ left' \in [Key -> 0 .. Window]
      /\ \A j \in T : count'[j] = count[j] /\ left'[j] = left[j]
  BY <1>1, LimiterAssumption DEF LimiterTyped
<1>3. Live' = Live
  BY <1>1, <1>2 DEF Live, LimiterTyped
<1> QED BY <1>1, <1>2, <1>3 DEF LimiterTyped

LEMMA RefuseEffect ==
  ASSUME LimiterTyped, NEW k \in Key, NEW n \in Nat, Refuse(k, n)
  PROVE  /\ LimiterTyped' /\ Live' = Live /\ table' \subseteq table
         /\ \A j \in Live : count'[j] = count[j] /\ left'[j] = left[j]
<1> DEFINE T == IF k \notin Live /\ n <= Limit THEN Swept(k) ELSE table
<1>1. Live \subseteq T /\ T \in SUBSET table
  BY SweptKeeps DEF Live
<1>2. Buckets(T, count, left)
  BY DEF Refuse
<1> HIDE DEF T
<1>3. table' = T
  BY <1>2 DEF Buckets
<1> QED BY <1>1, <1>2, <1>3, DropEffect

LEMMA CollectEffect ==
  ASSUME LimiterTyped, CollectEnded
  PROVE  /\ LimiterTyped' /\ Live' = Live /\ table' \subseteq table
         /\ \A j \in Live : count'[j] = count[j] /\ left'[j] = left[j]
<1>1. Live \in SUBSET table /\ Buckets(Live, count, left)
  BY DEF Live, CollectEnded
<1>2. table' = Live
  BY <1>1 DEF Buckets
<1> QED BY <1>1, <1>2, DropEffect

LEMMA TickEffect ==
  ASSUME LimiterTyped, Tick
  PROVE  /\ LimiterTyped' /\ UNCHANGED <<table, count>>
         /\ \A k \in Live : left'[k] = left[k] - 1
         /\ \A k \in Key : left[k] = 0 => left'[k] = 0
<1>1. /\ left' = [k \in Key |-> IF left[k] > 0 THEN left[k] - 1 ELSE 0]
      /\ UNCHANGED <<table, count>>
  BY DEF Tick
<1>2. left' \in [Key -> 0 .. Window] /\ \A k \in Key : left'[k] > 0 => left[k] > 0
  BY <1>1, LimiterAssumption DEF LimiterTyped
<1>3. Live' \subseteq Live
  BY <1>1, <1>2 DEF Live, LimiterTyped
<1> QED BY <1>1, <1>2, <1>3 DEF LimiterTyped, Live

\* A step of the handlers, as the limiter and the record of Followed see it.
Granted(k, n) == Charge(k, n) /\ (Submitted(k, n) \/ UNCHANGED letIn)
Exempt(k, n) == k \in Admin /\ UNCHANGED limiterVars /\ (Submitted(k, n) \/ UNCHANGED letIn)
Refused(k, n) == Refuse(k, n) /\ UNCHANGED letIn

LEMMA LimiterSteps ==
  ASSUME [Next]_vars
  PROVE  \/ \E k \in Key, n \in Nat \ {0} : Granted(k, n) \/ Exempt(k, n) \/ Refused(k, n)
         \/ CollectEnded /\ UNCHANGED letIn
         \/ Tick
         \/ UNCHANGED <<limiterVars, letIn>>
<1>1. ASSUME NEW r \in Req, handleCrawlBulk(r)
      PROVE  \E k \in Key, n \in Nat \ {0} : Granted(k, n) \/ Exempt(k, n) \/ Refused(k, n)
  <2>1. Of[r] \in Key /\ 1 \in Nat \ {0}
    BY LimiterAssumption
  <2>2. Granted(Of[r], 1) \/ Exempt(Of[r], 1) \/ Refused(Of[r], 1)
    BY <1>1 DEF handleCrawlBulk, Admitted, TurnedAway, Granted, Exempt, Refused
  <2> QED BY <2>1, <2>2
<1>2. ASSUME NEW r \in Req, NEW n \in 1 .. MaxBatch, ChargeBatch(r, n)
      PROVE  \E k \in Key, m \in Nat \ {0} : Granted(k, m) \/ Exempt(k, m) \/ Refused(k, m)
  <2>1. Of[r] \in Key /\ n \in Nat \ {0}
    BY LimiterAssumption
  <2>2. Granted(Of[r], n) \/ Exempt(Of[r], n) \/ Refused(Of[r], n)
    BY <1>2 DEF ChargeBatch, Admitted, TurnedAway, Granted, Exempt, Refused
  <2> QED BY <2>1, <2>2
<1>3. ASSUME NEW k \in Key, handleCrawl(k)
      PROVE  \E j \in Key, n \in Nat \ {0} : Granted(j, n) \/ Exempt(j, n) \/ Refused(j, n)
  <2>1. Granted(k, 1) \/ Exempt(k, 1) \/ Refused(k, 1)
    BY <1>3 DEF handleCrawl, Admitted, TurnedAway, Granted, Exempt, Refused
  <2> QED BY <2>1
<1>4. ASSUME NEW r \in Req,
             \/ BadBody(r) \/ AddURL(r) \/ SkipURL(r)
             \/ QueueFull(r) \/ BatchDone(r) \/ Answer(r)
      PROVE  UNCHANGED <<limiterVars, letIn>>
  BY <1>4 DEF BadBody, AddURL, SkipURL, QueueFull, BatchDone, Answer
<1>5. CollectEnded => UNCHANGED letIn
  BY DEF CollectEnded
<1>6. UNCHANGED vars => UNCHANGED <<limiterVars, letIn>>
  BY DEF vars, limiterVars
<1> QED BY <1>1, <1>2, <1>3, <1>4, <1>5, <1>6 DEF Next

\* No call changes what an open window of somebody else holds.
LEMMA LimiterTypedStep == LimiterTyped /\ [Next]_vars => LimiterTyped'
<1> SUFFICES ASSUME LimiterTyped, [Next]_vars PROVE LimiterTyped'
  OBVIOUS
<1>1. ASSUME NEW k \in Key, NEW n \in Nat \ {0}, Granted(k, n) \/ Refused(k, n)
      PROVE LimiterTyped'
  BY <1>1, ChargeEffect, RefuseEffect DEF Granted, Refused
<1>2. ASSUME UNCHANGED limiterVars PROVE LimiterTyped'
  BY <1>2 DEF limiterVars, LimiterTyped, Live
<1> QED BY <1>1, <1>2, CollectEffect, TickEffect, LimiterSteps DEF Exempt

LEMMA LimiterTypedInit == Init => LimiterTyped
  BY LimiterAssumption DEF Init, LimiterTyped, Live

\* Charging keeps the table within its cap: there is room, or room is made.
LEMMA ChargeRoom ==
  ASSUME LimiterTyped, TableBounded, NEW k \in Key, NEW n \in Nat, Charge(k, n)
  PROVE  TableBounded'
<1> DEFINE T == Swept(k)
<1>1. IsFiniteSet(T) /\ Cardinality(T) \in Nat
  BY TableFinite DEF Swept
<1>2. Live \subseteq table
  BY DEF Live
<1>3. CASE k \in table
  <2>1. table' = table
    BY <1>2, <1>3, SweptKeeps DEF Charge, Buckets
  <2> QED BY <2>1, Zenon DEF TableBounded
<1>4. CASE k \notin table
  <2>1. table' = T \cup {k} /\ Cardinality(T) < MaxBuckets
    BY <1>2, <1>4 DEF Charge, Buckets, Fits, HasRoom
  <2>2. Cardinality(T \cup {k}) <= Cardinality(T) + 1
    BY <1>1, FS_AddElement
  <2>3. Cardinality(T \cup {k}) \in Nat
    BY <1>1, FS_AddElement, FS_CardinalityType
  <2> HIDE DEF T
  <2>4. Cardinality(T \cup {k}) <= MaxBuckets
    BY <1>1, <2>1, <2>2, <2>3, LimiterAssumption
  <2> QED BY <2>1, <2>4, Zenon DEF TableBounded
<1> QED BY <1>3, <1>4

LEMMA TableStep == LimiterTyped /\ TableBounded /\ [Next]_vars => TableBounded'
<1> SUFFICES ASSUME LimiterTyped, TableBounded, [Next]_vars PROVE TableBounded'
  OBVIOUS
<1>1. ASSUME table' \subseteq table PROVE TableBounded'
  <2>1. Cardinality(table') <= Cardinality(table) /\ Cardinality(table') \in Nat
    BY <1>1, TableFinite, FS_Subset, FS_CardinalityType
  <2> QED BY <2>1, TableFinite, LimiterAssumption DEF TableBounded
<1>2. ASSUME NEW k \in Key, NEW n \in Nat \ {0}, Granted(k, n) PROVE TableBounded'
  BY <1>2, ChargeRoom DEF Granted
<1>3. ASSUME NEW k \in Key, NEW n \in Nat \ {0}, Exempt(k, n) \/ Refused(k, n)
      PROVE TableBounded'
  BY <1>1, <1>3, RefuseEffect DEF Exempt, Refused, limiterVars
<1>4. CASE CollectEnded \/ Tick \/ UNCHANGED <<limiterVars, letIn>>
  BY <1>1, <1>4, CollectEffect, TickEffect DEF limiterVars
<1> QED BY <1>2, <1>3, <1>4, LimiterSteps

\* AllowN: however many accounts come and whenever the goroutine collects, the
\* table of buckets stays within its cap.
THEOREM TableStaysBounded == Spec => []TableBounded
<1>1. Init => TableBounded
  BY FS_EmptySet, LimiterAssumption DEF Init, TableBounded
<1> QED BY <1>1, LimiterTypedInit, LimiterTypedStep, TableStep, PTL DEF Spec

-----------------------------------------------------------------------------
(* Nobody is turned away without a cause.                                  *)

LEMMA RefusalHasCause ==
  ASSUME LimiterTyped, NEW k \in Key, NEW n \in Nat, ~Fits(k, n)
  PROVE  count[k] + n > Limit \/ Cardinality(Live \ {k}) >= MaxBuckets
<1>0. count[k] \in Nat /\ Limit \in Nat /\ MaxBuckets \in Nat
  BY LimiterAssumption DEF LimiterTyped
<1>1. CASE k \in Live \/ n > Limit
  BY <1>0, <1>1 DEF Fits
<1>2. CASE k \notin Live /\ n <= Limit
  <2>1. k \notin table /\ ~(Cardinality(Swept(k)) < MaxBuckets)
    BY <1>2 DEF Fits, HasRoom
  <2>2. Cardinality(table) >= MaxBuckets => Swept(k) = Live
    BY <2>1 DEF Swept
  <2>3. ~(Cardinality(table) >= MaxBuckets) => Swept(k) = table
    BY <2>1 DEF Swept
  <2>4. Cardinality(Live) >= MaxBuckets
    BY <1>0, <2>1, <2>2, <2>3, TableFinite
  <2>5. Live \ {k} = Live
    BY <1>2
  <2>6. Cardinality(Live \ {k}) >= MaxBuckets
    BY <2>4, <2>5, Zenon
  <2> QED BY <2>6
<1> QED BY <1>0, <1>1, <1>2

\* AllowN refuses for one of three reasons only; an ended window is none of them.
THEOREM RefusalsHaveCause == Spec => RefusedForCause
<1>1. LimiterTyped /\ [Next]_vars =>
        [\A k \in Key, n \in 1 .. MaxBatch :
           TurnedAway(k, n) => \/ count[k] + n > Limit
                               \/ Cardinality(Live \ {k}) >= MaxBuckets]_vars
  BY RefusalHasCause DEF TurnedAway, Refuse
<1> QED BY <1>1, LimiterTypedInit, LimiterTypedStep, PTL DEF Spec, RefusedForCause

-----------------------------------------------------------------------------
(* The answer to a bulk request.                                           *)

Batches ==
  /\ pc \in [Req -> {"idle", "body", "adding", "answer"}]
  /\ size \in [Req -> Nat] /\ added \in [Req -> Nat] /\ skipped \in [Req -> Nat]
  /\ \A r \in Req :
       /\ pc[r] \in {"idle", "body"} => added[r] = 0 /\ skipped[r] = 0
       /\ pc[r] = "adding" => added[r] + skipped[r] <= size[r]
       /\ pc[r] = "answer" => added[r] + skipped[r] = size[r]

LEMMA BatchesStep == Batches /\ [Next]_vars => Batches'
<1> SUFFICES ASSUME Batches, [Next]_vars PROVE Batches'
  OBVIOUS
<1> USE DEF Batches
<1>1. ASSUME NEW r \in Req, handleCrawlBulk(r) \/ BadBody(r) PROVE Batches'
  BY <1>1 DEF handleCrawlBulk, BadBody
<1>2. ASSUME NEW r \in Req, NEW n \in 1 .. MaxBatch, ChargeBatch(r, n) PROVE Batches'
  BY <1>2, LimiterAssumption DEF ChargeBatch
<1>3. ASSUME NEW r \in Req, AddURL(r) PROVE Batches'
  BY <1>3 DEF AddURL, Adding
<1>4. ASSUME NEW r \in Req, SkipURL(r) PROVE Batches'
  BY <1>4 DEF SkipURL, Adding
<1>5. ASSUME NEW r \in Req, QueueFull(r) PROVE Batches'
  <2>1. skipped[r] + size[r] - added[r] - skipped[r] = size[r] - added[r]
        /\ size[r] - added[r] \in Nat
    BY <1>5 DEF QueueFull, Adding
  <2> QED BY <1>5, <2>1 DEF QueueFull, Adding
<1>6. ASSUME NEW r \in Req, BatchDone(r) PROVE Batches'
  BY <1>6 DEF BatchDone, Adding
<1>7. ASSUME NEW r \in Req, Answer(r) PROVE Batches'
  BY <1>7 DEF Answer
<1>8. ASSUME UNCHANGED batchVars PROVE Batches'
  BY <1>8 DEF batchVars
<1>9. (\E k \in Key : handleCrawl(k)) \/ CollectEnded \/ Tick \/ UNCHANGED vars
      => UNCHANGED batchVars
  BY DEF handleCrawl, CollectEnded, Tick, vars, batchVars
<1> QED BY <1>1, <1>2, <1>3, <1>4, <1>5, <1>6, <1>7, <1>8, <1>9 DEF Next

\* handleCrawlBulk: what it answers accounts for every URL, also when the quota
\* stops it part of the way.
THEOREM AnswersAddUp == Spec => []AnswerAddsUp
<1>1. Init => Batches
  BY DEF Init, Batches
<1>2. Batches => AnswerAddsUp
  BY DEF Batches, AnswerAddsUp
<1> QED BY <1>1, <1>2, BatchesStep, PTL DEF Spec

-----------------------------------------------------------------------------
(* Bursts.  What Followed got in during its open window was paid for from  *)
(* the count of that window, and what remains from the window before is    *)
(* short of Limit by the unit that opened that one, a whole Window ago or  *)
(* longer: the two together stay below twice Limit.                        *)

Opened == Window - left[Followed]

OpenWindow ==
  /\ count[Followed] <= Limit
  /\ Younger(letIn, Opened) < count[Followed]
  /\ Younger(letIn, Opened + 1) <= count[Followed]
  /\ Younger(letIn, Window) < Younger(letIn, Opened + 1) + Limit

NoWindow == letIn[0] = 0 /\ Younger(letIn, Window) < Limit

PaidFor ==
  /\ letIn \in [Ages -> Nat]
  /\ Followed \in Live => OpenWindow
  /\ Followed \notin Live => NoWindow

LEMMA LetInTyped ==
  ASSUME letIn \in [Ages -> Nat], NEW n \in 0 .. Window
  PROVE  NatOn(letIn, 0 .. n - 1) /\ Younger(letIn, n) \in Nat
<1>1. NatOn(letIn, 0 .. n - 1)
  BY LimiterAssumption DEF Ages, NatOn
<1> QED BY <1>1, YoungerType

LEMMA OpenedAge ==
  ASSUME LimiterTyped, Followed \in Live
  PROVE  /\ Followed \in Key /\ Opened \in 0 .. Window - 1
         /\ count[Followed] \in Nat /\ left[Followed] \in 1 .. Window
  BY LimiterAssumption DEF LimiterTyped, Live, Opened

\* Steps that concern neither the window of Followed nor its URLs.
LEMMA PaidForKept ==
  ASSUME PaidFor, UNCHANGED letIn, Followed \in Live' <=> Followed \in Live,
         Followed \in Live => count'[Followed] = count[Followed] /\ left'[Followed] = left[Followed]
  PROVE  PaidFor'
  BY DEF PaidFor, OpenWindow, NoWindow, Opened

\* m URLs of Followed get in.
GotIn(m) == letIn' = [letIn EXCEPT ![0] = @ + m]

LEMMA SubmittedTotal ==
  ASSUME letIn \in [Ages -> Nat], NEW m \in Nat, GotIn(m)
  PROVE  /\ letIn' \in [Ages -> Nat]
         /\ \A n \in 1 .. Window : Younger(letIn', n) = Younger(letIn, n) + m
<1>1. 0 \in Ages /\ letIn' \in [Ages -> Nat] /\ letIn'[0] = letIn[0] + m
  BY LimiterAssumption DEF Ages, GotIn
<1>2. ASSUME NEW n \in 1 .. Window PROVE Younger(letIn', n) = Younger(letIn, n) + m
  <2>1. n \in Nat \ {0} /\ NatOn(letIn, 0 .. n - 1)
    BY LetInTyped, LimiterAssumption
  <2>2. Raised(letIn, letIn', n, m)
    BY <1>1, <2>1, LimiterAssumption DEF Ages, Raised, GotIn
  <2> QED BY <2>1, <2>2, YoungerRaised
<1> QED BY <1>1, <1>2

LEMMA PaidForCharged ==
  ASSUME LimiterTyped, PaidFor, NEW n \in Nat \ {0}, Charge(Followed, n), Followed \in Key,
         NEW m \in 0 .. n, GotIn(m)
  PROVE  PaidFor'
<1>1. m \in Nat /\ m <= n /\ Window \in Nat \ {0} /\ Limit \in Nat
  BY LimiterAssumption
<1>2. letIn \in [Ages -> Nat] /\ letIn' \in [Ages -> Nat]
  BY <1>1, SubmittedTotal DEF PaidFor
<1>3. \A i \in 1 .. Window : Younger(letIn', i) = Younger(letIn, i) + m
  BY <1>1, <1>2, SubmittedTotal
<1>4. Younger(letIn, 0) = 0 /\ Younger(letIn', 0) = 0
  BY YoungerZero
<1>5. /\ Younger(letIn', Window) = Younger(letIn, Window) + m
      /\ Younger(letIn, Window) \in Nat
  BY <1>1, <1>2, <1>3, LetInTyped
<1>6. Followed \in Live' /\ count'[Followed] <= Limit
  BY ChargeEffect
<1>7. CASE Followed \in Live
  <2>1. count'[Followed] = count[Followed] + n /\ left'[Followed] = left[Followed]
    BY <1>7, ChargeEffect
  <2>2. Opened' = Opened /\ Opened \in 0 .. Window - 1 /\ count[Followed] \in Nat
    BY <1>7, <2>1, OpenedAge DEF Opened
  <2> DEFINE t == Opened
             c == count[Followed]
  <2>3. OpenWindow
    BY <1>7 DEF PaidFor
  <2>4. t + 1 \in 1 .. Window /\ (t = 0 \/ t \in 1 .. Window) /\ t \in 0 .. Window
    BY <1>1, <2>2
  <2>5. /\ Younger(letIn', t + 1) = Younger(letIn, t + 1) + m /\ Younger(letIn, t + 1) \in Nat
        /\ Younger(letIn', t) = 0 \/ Younger(letIn', t) = Younger(letIn, t) + m
        /\ Younger(letIn, t) \in Nat
    BY <1>1, <1>2, <1>3, <1>4, <2>4, LetInTyped
  <2>6. /\ Younger(letIn, t) < c /\ Younger(letIn, t + 1) <= c
        /\ Younger(letIn, Window) < Younger(letIn, t + 1) + Limit
    BY <2>3 DEF OpenWindow
  <2> HIDE DEF t, c
  <2>7. /\ Younger(letIn', t) < c + n /\ Younger(letIn', t + 1) <= c + n
        /\ Younger(letIn', Window) < Younger(letIn', t + 1) + Limit
    BY <1>1, <1>5, <2>2, <2>5, <2>6 DEF c
  <2>8. OpenWindow'
    BY <1>6, <2>1, <2>2, <2>7 DEF OpenWindow, t, c
  <2> QED BY <1>2, <1>6, <2>8 DEF PaidFor
<1>8. CASE Followed \notin Live
  <2>1. count'[Followed] = n /\ left'[Followed] = Window
    BY <1>8, ChargeEffect
  <2>2. Opened' = 0
    BY <1>1, <2>1 DEF Opened
  <2>3. letIn[0] = 0 /\ Younger(letIn, Window) < Limit
    BY <1>8 DEF PaidFor, NoWindow
  <2>4. Younger(letIn, 1) = 0
    <3>1. NatOn(letIn, 0 .. 0)
      BY <1>1, <1>2 DEF NatOn, Ages
    <3>2. Younger(letIn, 0 + 1) = Younger(letIn, 0) + letIn[0]
      BY <3>1, YoungerNext
    <3> QED BY <1>4, <2>3, <3>2
  <2>5. Younger(letIn', 1) = Younger(letIn, 1) + m
    BY <1>1, <1>3
  <2>6. Younger(letIn', 1) = m /\ Younger(letIn', Window) < m + Limit
    BY <1>1, <1>5, <2>3, <2>4, <2>5
  <2>7. OpenWindow'
    BY <1>1, <1>4, <1>6, <2>1, <2>2, <2>6 DEF OpenWindow
  <2> QED BY <1>2, <1>6, <2>7 DEF PaidFor
<1> QED BY <1>7, <1>8

LEMMA PaidForTick ==
  ASSUME LimiterTyped, PaidFor, Tick
  PROVE  PaidFor'
<1> USE LimiterAssumption
<1>0. /\ letIn \in [Ages -> Nat] /\ letIn' = [a \in Ages |-> IF a = 0 THEN 0 ELSE letIn[a - 1]]
  BY DEF PaidFor, Tick
<1>1. /\ letIn' \in [Ages -> Nat] /\ letIn'[0] = 0
      /\ \A a \in 1 .. Window - 1 : letIn'[a] = letIn[a - 1]
  BY <1>0 DEF Ages
<1>2. Window - 1 \in Nat /\ NatOn(letIn, 0 .. (Window - 1) - 1)
  BY <1>0, LetInTyped
<1>3. \A n \in 0 .. Window - 1 : Younger(letIn', n + 1) = Younger(letIn, n)
  <2>1. Aged(letIn, letIn', Window - 1)
    BY <1>1, <1>2 DEF Aged
  <2> QED BY <1>2, <2>1, YoungerAged
<1>4. \A n \in 0 .. Window : Younger(letIn, n) \in Nat /\ Younger(letIn, n) <= Younger(letIn, Window)
  <2>1. NatOn(letIn, 0 .. Window - 1)
    BY <1>0, LetInTyped
  <2> QED BY <1>0, <2>1, LetInTyped, YoungerGrows
<1>5. Younger(letIn', Window) = Younger(letIn, Window - 1)
  BY <1>3
<1>6. CASE Followed \notin Live
  <2>1. Followed \notin Live'
    BY <1>6, TickEffect DEF Live, LimiterTyped
  <2>2. Younger(letIn, Window) < Limit
    BY <1>6 DEF PaidFor, NoWindow
  <2> QED BY <1>1, <1>4, <1>5, <2>1, <2>2 DEF PaidFor, NoWindow
<1>7. CASE Followed \in Live /\ left[Followed] = 1
  <2>1. Followed \notin Live'
    BY <1>7, TickEffect DEF Live
  <2>2. Opened = Window - 1 /\ count[Followed] \in Nat
    BY <1>7, OpenedAge DEF Opened
  <2>3. Younger(letIn, Window - 1) < count[Followed] /\ count[Followed] <= Limit
    BY <1>7, <2>2 DEF PaidFor, OpenWindow
  <2>4. Younger(letIn', Window) < Limit
    BY <1>4, <1>5, <2>2, <2>3
  <2> QED BY <1>1, <2>1, <2>4 DEF PaidFor, NoWindow
<1>8. CASE Followed \in Live /\ left[Followed] # 1
  <2>1. /\ Opened \in 0 .. Window - 2 /\ left'[Followed] = left[Followed] - 1
        /\ count'[Followed] = count[Followed] /\ Opened' = Opened + 1
    BY <1>8, OpenedAge, TickEffect DEF Opened
  <2>2. Followed \in Live'
    BY <1>8, OpenedAge, TickEffect DEF Live
  <2>3. OpenWindow
    BY <1>8 DEF PaidFor
  <2>4. /\ Younger(letIn', Opened') = Younger(letIn, Opened)
        /\ Younger(letIn', Opened' + 1) = Younger(letIn, Opened + 1)
    BY <1>3, <2>1
  <2>5. Younger(letIn', Window) <= Younger(letIn, Window)
        /\ Younger(letIn', Window) \in Nat /\ Younger(letIn, Window) \in Nat
        /\ Younger(letIn, Opened + 1) \in Nat
    BY <1>4, <1>5, <2>1
  <2>6. OpenWindow'
    BY <2>1, <2>3, <2>4, <2>5 DEF OpenWindow
  <2> QED BY <1>1, <2>2, <2>6 DEF PaidFor
<1> QED BY <1>6, <1>7, <1>8

LEMMA PaidForStep ==
  ASSUME Followed \notin Admin, LimiterTyped, PaidFor, [Next]_vars
  PROVE  PaidFor'
<1>1. ASSUME NEW k \in Key, NEW n \in Nat \ {0}, Granted(k, n) PROVE PaidFor'
  <2>1. CASE k # Followed
    <3>1. UNCHANGED letIn
      BY <1>1, <2>1 DEF Granted, Submitted
    <3>2. Charge(k, n)
      BY <1>1 DEF Granted
    <3>3. Followed \in Live' <=> Followed \in Live
      BY <2>1, <3>2, ChargeEffect
    <3>4. Followed \in Live => count'[Followed] = count[Followed] /\ left'[Followed] = left[Followed]
      BY <2>1, <3>2, ChargeEffect
    <3> QED BY <3>1, <3>3, <3>4, PaidForKept
  <2>2. CASE k = Followed
    <3>1. PICK m \in 0 .. n : GotIn(m)
      <4>1. 0 \in Ages /\ letIn \in [Ages -> Nat]
        BY LimiterAssumption DEF PaidFor, Ages
      <4>2. [letIn EXCEPT ![0] = @ + 0] = letIn
        BY <4>1
      <4> QED BY <1>1, <2>2, <4>2 DEF Granted, Submitted, GotIn
    <3> QED BY <1>1, <2>2, <3>1, PaidForCharged DEF Granted
  <2> QED BY <2>1, <2>2
<1>2. ASSUME NEW k \in Key, NEW n \in Nat \ {0}, Exempt(k, n) PROVE PaidFor'
  <2>1. UNCHANGED <<limiterVars, letIn>>
    BY <1>2 DEF Exempt, Submitted
  <2> QED BY <2>1, PaidForKept DEF limiterVars, Live
<1>3. ASSUME NEW k \in Key, NEW n \in Nat \ {0}, Refused(k, n) PROVE PaidFor'
  BY <1>3, RefuseEffect, PaidForKept DEF Refused
<1>4. CASE CollectEnded /\ UNCHANGED letIn
  BY <1>4, CollectEffect, PaidForKept
<1>5. CASE UNCHANGED <<limiterVars, letIn>>
  BY <1>5, PaidForKept DEF limiterVars, Live
<1> QED BY <1>1, <1>2, <1>3, <1>4, <1>5, PaidForTick, LimiterSteps

LEMMA PaidForInit == Init => PaidFor
<1> SUFFICES ASSUME Init PROVE PaidFor
  OBVIOUS
<1>1. letIn \in [Ages -> Nat] /\ letIn[0] = 0 /\ Followed \notin Live
  BY LimiterAssumption DEF Init, Ages, Live
<1>2. \A a \in 0 .. Window - 1 : letIn[a] = 0
  BY LimiterAssumption DEF Init, Ages
<1>3. Younger(letIn, Window) = 0
  BY <1>2, YoungerNothing, LimiterAssumption
<1> QED BY <1>1, <1>3, LimiterAssumption DEF PaidFor, NoWindow

LEMMA PaidForBounds == LimiterTyped /\ PaidFor => SumFunction(letIn) < 2 * Limit
<1> SUFFICES ASSUME LimiterTyped, PaidFor PROVE SumFunction(letIn) < 2 * Limit
  OBVIOUS
<1>1. DOMAIN letIn = 0 .. Window - 1
  BY DEF PaidFor, Ages
<1>2. SumFunction(letIn) = Younger(letIn, Window)
  BY <1>1, Zenon DEF SumFunction, Younger, Total
<1>3. Window \in Nat /\ Limit \in Nat \ {0} /\ Younger(letIn, Window) \in Nat
  BY LetInTyped, LimiterAssumption DEF PaidFor
<1>4. CASE Followed \in Live
  <2>1. Opened \in 0 .. Window - 1 /\ count[Followed] \in Nat
    BY <1>4, OpenedAge
  <2>2. Younger(letIn, Opened + 1) \in Nat
    BY <1>3, <2>1, LetInTyped DEF PaidFor
  <2>3. Younger(letIn, Window) < 2 * Limit
    BY <1>3, <1>4, <2>1, <2>2 DEF PaidFor, OpenWindow
  <2> QED BY <1>2, <2>3
<1>5. CASE Followed \notin Live
  BY <1>2, <1>3, <1>5 DEF PaidFor, NoWindow
<1> QED BY <1>4, <1>5

\* AllowN in handleCrawl, handleRecrawl and handleCrawlBulk: no account gets twice
\* Limit URLs into the queue in any Window ticks, whatever it mixes, and whatever
\* eviction and the collecting goroutine do to its bucket.
THEOREM BurstsStayBounded == Spec => []BurstBounded
<1> DEFINE I == Followed \notin Admin => PaidFor
<1>1. Init => I
  BY PaidForInit
<1>2. LimiterTyped /\ I /\ [Next]_vars => I'
  BY PaidForStep
<1>3. LimiterTyped /\ I => BurstBounded
  BY PaidForBounds DEF BurstBounded
<1> QED BY <1>1, <1>2, <1>3, LimiterTypedInit, LimiterTypedStep, PTL DEF Spec

-----------------------------------------------------------------------------
(* Registration, for any number of addresses, instances and requests, and  *)
(* any configuration of administrators' addresses.  It is another part of  *)
(* the system than RateLimiter, with requests, an address it follows and a *)
(* window of its own.                                                      *)

AccountsTyped ==
  /\ role \in [Email -> Role] /\ lock \in Client \cup {"free"}
  /\ at \in [Client -> PC] /\ email \in [Client -> Email] /\ grade \in [Client -> {"user", "admin"}]

\* Who has decided on a role holds the lock until the account is committed, and
\* the role of administrator is decided on only while there is none.
DecidedUnderLock ==
  \A r \in Client : at[r] = "insert" =>
    /\ lock = r
    /\ grade[r] = "admin" => \A e \in Email : role[e] # "admin"

AdminInv == AccountsTyped /\ DecidedUnderLock /\ AtMostOneAdmin

LEMMA AdminInit == RegisterInit => AdminInv
  BY RegistrationAssumption DEF RegisterInit, AdminInv, AccountsTyped, DecidedUnderLock,
         AtMostOneAdmin, Role, PC

\* A request that neither decides nor inserts keeps the invariant.
LEMMA OtherStepAdmin ==
  ASSUME AdminInv, NEW r \in Client, NEW to \in PC \ {"insert"},
         at' = [at EXCEPT ![r] = to], UNCHANGED <<role, lock, grade>>,
         email' \in [Client -> Email]
  PROVE  AdminInv'
  BY DEF AdminInv, AccountsTyped, DecidedUnderLock, AtMostOneAdmin

LEMMA RegisterAdmin ==
  ASSUME AdminInv, NEW r \in Client, NEW e \in Email, handleRegister(r, e)
  PROVE  AdminInv'
<1>1. email' \in [Client -> Email]
  BY DEF handleRegister, AdminInv, AccountsTyped
<1> QED BY <1>1, OtherStepAdmin DEF handleRegister, Goto, PC

LEMMA DecideRoleAdmin ==
  ASSUME AdminInv, NEW r \in Client, DecideRole(r)
  PROVE  AdminInv'
<1>1. /\ at' = [at EXCEPT ![r] = "insert"] /\ lock = "free" /\ lock' = r
      /\ grade' = [grade EXCEPT ![r] = Grade(r)]
      /\ UNCHANGED <<role, email>>
  BY DEF DecideRole, Goto
<1>2. Grade(r) \in {"user", "admin"} /\ (Grade(r) = "admin" => ~HasAdmin)
  BY DEF Grade
<1>3. AccountsTyped'
  BY <1>1, <1>2 DEF AdminInv, AccountsTyped, PC
<1>4. \A q \in Client : q # r => at'[q] # "insert"
  BY <1>1, RegistrationAssumption DEF AdminInv, AccountsTyped, DecidedUnderLock
<1>5. grade'[r] = "admin" => \A e \in Email : role'[e] # "admin"
  BY <1>1, <1>2 DEF AdminInv, AccountsTyped, HasAdmin
<1>6. DecidedUnderLock'
  BY <1>1, <1>4, <1>5 DEF DecidedUnderLock
<1>7. AtMostOneAdmin'
  BY <1>1 DEF AdminInv, AtMostOneAdmin
<1> QED BY <1>3, <1>6, <1>7 DEF AdminInv

\* When a registration gives up the lock, no other one has decided on a role.
LEMMA LockReleased ==
  ASSUME AdminInv, NEW r \in Client, NEW to \in PC \ {"insert"}, at[r] = "insert",
         at' = [at EXCEPT ![r] = to]
  PROVE  \A q \in Client : at'[q] # "insert"
  BY DEF AdminInv, AccountsTyped, DecidedUnderLock

LEMMA InsertUserAdmin ==
  ASSUME AdminInv, NEW r \in Client, InsertUser(r)
  PROVE  AdminInv'
<1>1. /\ at[r] = "insert" /\ lock' = "free"
      /\ role' = [role EXCEPT ![email[r]] = grade[r]]
      /\ email' = [email EXCEPT ![r] = Address] /\ grade' = [grade EXCEPT ![r] = "user"]
  BY DEF InsertUser, Forget
<1>2. PICK to \in {"log", "idle"} : at' = [at EXCEPT ![r] = to]
  BY DEF InsertUser
<1>3. AccountsTyped'
  BY <1>1, <1>2, RegistrationAssumption DEF AdminInv, AccountsTyped, PC, Role
<1>4. \A q \in Client : at'[q] # "insert"
  BY <1>1, <1>2, LockReleased DEF PC
<1>5. DecidedUnderLock'
  BY <1>4 DEF DecidedUnderLock
<1>6. grade[r] = "admin" => \A e \in Email : role[e] # "admin"
  BY <1>1 DEF AdminInv, DecidedUnderLock
<1>7. AtMostOneAdmin'
  BY <1>1, <1>6 DEF AdminInv, AccountsTyped, AtMostOneAdmin
<1> QED BY <1>3, <1>5, <1>7 DEF AdminInv

LEMMA RegisterFailsAdmin ==
  ASSUME AdminInv, NEW r \in Client, RegisterFails(r)
  PROVE  AdminInv'
<1>1. /\ at' = [at EXCEPT ![r] = "idle"]
      /\ lock' = IF lock = r THEN "free" ELSE lock
      /\ email' = [email EXCEPT ![r] = Address] /\ grade' = [grade EXCEPT ![r] = "user"]
      /\ UNCHANGED role
  BY DEF RegisterFails, Forget
<1>2. AccountsTyped'
  BY <1>1, RegistrationAssumption DEF AdminInv, AccountsTyped, PC
<1>3. DecidedUnderLock'
  BY <1>1 DEF AdminInv, AccountsTyped, DecidedUnderLock
<1>4. AtMostOneAdmin'
  BY <1>1 DEF AdminInv, AtMostOneAdmin
<1> QED BY <1>2, <1>3, <1>4 DEF AdminInv

LEMMA DeleteAccountAdmin ==
  ASSUME AdminInv, NEW e \in Email, DeleteAccount(e)
  PROVE  AdminInv'
<1>1. role' = [role EXCEPT ![e] = "none"] /\ UNCHANGED <<lock, at, email, grade>>
  BY DEF DeleteAccount, requestVars
<1> QED
  BY <1>1 DEF AdminInv, AccountsTyped, DecidedUnderLock, AtMostOneAdmin, Role

LEMMA AdminStep ==
  ASSUME AdminInv, [RegisterNext]_registerVars
  PROVE  AdminInv'
<1>1. ASSUME NEW r \in Client, NEW e \in Email, handleRegister(r, e) PROVE AdminInv'
  BY <1>1, RegisterAdmin
<1>2. ASSUME NEW r \in Client, DecideRole(r) PROVE AdminInv'
  BY <1>2, DecideRoleAdmin
<1>3. ASSUME NEW r \in Client, InsertUser(r) PROVE AdminInv'
  BY <1>3, InsertUserAdmin
<1>4. ASSUME NEW r \in Client, RegisterFails(r) PROVE AdminInv'
  BY <1>4, RegisterFailsAdmin
<1>5. ASSUME NEW r \in Client, Begin(r) PROVE AdminInv'
  BY <1>5, OtherStepAdmin DEF Begin, Goto, PC, AdminInv, AccountsTyped
<1>6. ASSUME NEW r \in Client, DoFollowed(r) PROVE AdminInv'
  BY <1>6, OtherStepAdmin DEF DoFollowed, Goto, PC, AdminInv, AccountsTyped
<1>7. ASSUME NEW r \in Client, DoOther(r) PROVE AdminInv'
  BY <1>7, OtherStepAdmin DEF DoOther, Goto, PC, AdminInv, AccountsTyped
<1>8. ASSUME NEW r \in Client, LogAuthEvent(r) \/ LogLost(r) PROVE AdminInv'
  BY <1>8, OtherStepAdmin DEF LogAuthEvent, LogLost, Goto, PC, AdminInv, AccountsTyped
<1>9. ASSUME NEW e \in Email, DeleteAccount(e) PROVE AdminInv'
  BY <1>9, DeleteAccountAdmin
<1>10. ASSUME UNCHANGED <<role, lock, at, email, grade>> PROVE AdminInv'
  BY <1>10 DEF AdminInv, AccountsTyped, DecidedUnderLock, AtMostOneAdmin
<1>11. ASSUME RegisterTick \/ PurgeAuthAudit \/ \E r \in Client : TurnAway(r) PROVE AdminInv'
  BY <1>10, <1>11 DEF RegisterTick, PurgeAuthAudit, TurnAway, requestVars, registerVars
<1>12. CASE UNCHANGED registerVars
  BY <1>10, <1>12 DEF registerVars
<1> QED
  BY <1>1, <1>2, <1>3, <1>4, <1>5, <1>6, <1>7, <1>8, <1>9, <1>11, <1>12 DEF RegisterNext

\* CreateRegisteredUser: the advisory lock leaves room for one administrator,
\* whatever addresses the instances have been configured with.
THEOREM OneAdministrator == RegisterSpec => []AtMostOneAdmin
<1>1. AdminInv => AtMostOneAdmin
  BY DEF AdminInv
<1> QED BY <1>1, AdminInit, AdminStep, PTL DEF RegisterSpec

-----------------------------------------------------------------------------
(* Attempts.  The count is read before the deed and the row written after  *)
(* it, so the invariant also counts the requests in between.               *)

LEMMA RecentIsYounger == \A f : Recent(f) = Younger(f, Span)
  BY DEF Recent, Younger, Total

\* Requests that have passed the count and may still do what is counted, and
\* requests that have done it and not yet written the row.
Acting ==
  {r \in Client : \/ at[r] = "act"
                  \/ at[r] \in {"decide", "insert"} /\ Capped(email[r])}
Pending == {r \in Client : at[r] = "log"}

CountsTyped ==
  log \in [0 .. Holdback -> Nat] /\ done \in [0 .. Span - 1 -> Nat] /\ faults \in Nat

\* At every age: what was done and is not in the log is under way or was lost.
Accounted ==
  \A n \in 0 .. Span : Younger(done, n) <= Younger(log, n) + Cardinality(Pending) + faults

\* The bound also has room for the requests that have passed the count.
Budgeted ==
  Younger(done, Span) + Cardinality(Acting) <= Cap + (Cardinality(Client) - 1) + faults

AuditInv == CountsTyped /\ Accounted /\ Budgeted

LEMMA SpanFacts ==
  /\ Span \in Nat \ {0} /\ Cap \in Nat \ {0} /\ Holdback \in Nat /\ Span <= Holdback
  /\ IsFiniteSet(Client) /\ Cardinality(Client) \in Nat
<1>1. Cardinality(Client) \in Nat
  BY RegistrationAssumption, FS_CardinalityType
<1> QED BY <1>1, RegistrationAssumption

LEMMA TotalsTyped ==
  ASSUME CountsTyped, NEW n \in 0 .. Span
  PROVE  /\ NatOn(done, 0 .. n - 1) /\ Younger(done, n) \in Nat
         /\ NatOn(log, 0 .. n - 1) /\ Younger(log, n) \in Nat
<1>1. Span \in Nat /\ Holdback \in Nat /\ Span <= Holdback
  BY SpanFacts
<1>2. n \in Nat /\ NatOn(done, 0 .. n - 1) /\ NatOn(log, 0 .. n - 1)
  BY <1>1 DEF CountsTyped, NatOn
<1> QED BY <1>2, YoungerType

\* Requests under way are fewer than the requests there are.
LEMMA UnderWay ==
  /\ IsFiniteSet(Acting) /\ Cardinality(Acting) \in Nat
  /\ IsFiniteSet(Pending) /\ Cardinality(Pending) \in Nat
  /\ Cardinality(Acting) <= Cardinality(Client)
  /\ \A r \in Client \ (Acting \cup Pending) :
       Cardinality(Acting) + Cardinality(Pending) + 1 <= Cardinality(Client)
<1>1. IsFiniteSet(Client)
  BY SpanFacts
<1>2. Acting \subseteq Client /\ Pending \subseteq Client /\ Acting \cap Pending = {}
  BY DEF Acting, Pending
<1>3. /\ IsFiniteSet(Acting) /\ IsFiniteSet(Pending)
      /\ Cardinality(Acting) \in Nat /\ Cardinality(Pending) \in Nat
      /\ Cardinality(Acting) <= Cardinality(Client)
  BY <1>1, <1>2, FS_Subset, FS_CardinalityType
<1>4. ASSUME NEW r \in Client \ (Acting \cup Pending)
      PROVE  Cardinality(Acting) + Cardinality(Pending) + 1 <= Cardinality(Client)
  <2> DEFINE U == Acting \cup Pending
  <2>1. /\ IsFiniteSet(U)
        /\ Cardinality(U) = Cardinality(Acting) + Cardinality(Pending)
    <3>1. /\ IsFiniteSet(U)
          /\ Cardinality(U) = Cardinality(Acting) + Cardinality(Pending) - Cardinality(Acting \cap Pending)
      BY <1>3, FS_Union
    <3>2. Cardinality(Acting \cap Pending) = 0
      BY <1>2, FS_EmptySet, Zenon
    <3> QED BY <1>3, <3>1, <3>2
  <2>2. U \cup {r} \subseteq Client /\ r \notin U
    BY <1>2, <1>4
  <2>3. Cardinality(U \cup {r}) = Cardinality(U) + 1
    BY <2>1, <2>2, FS_AddElement
  <2>4. Cardinality(U \cup {r}) <= Cardinality(Client)
    BY <1>1, <2>2, FS_Subset
  <2> HIDE DEF U
  <2> QED BY <1>3, <2>1, <2>3, <2>4
<1> QED BY <1>3, <1>4

-----------------------------------------------------------------------------
(* What the steps do to the requests under way and to the counts.          *)

\* Request r passes the count.
Passes(r) ==
  /\ r \in Client \ (Acting \cup Pending) /\ Acting' = Acting \cup {r}
  /\ Pending' = Pending /\ UNCHANGED <<log, done>> /\ BelowCap

\* Request r does what will be counted.
Does(r) ==
  /\ r \in Acting /\ Acting' = Acting \ {r} /\ r \notin Pending /\ Pending' = Pending \cup {r}
  /\ Act /\ UNCHANGED <<log, faults>>

\* The row of request r is written, or is lost.
Writes(r) ==
  /\ r \in Pending /\ Pending' = Pending \ {r} /\ Acting' = Acting /\ UNCHANGED done
  /\ \/ log' = [log EXCEPT ![0] = @ + 1] /\ UNCHANGED faults
     \/ faults' = faults + 1 /\ UNCHANGED log

\* Some requests give up or go on to other things.
Quits == Acting' \subseteq Acting /\ Pending' = Pending /\ UNCHANGED <<log, done, faults>>

\* Time passes, history is cleared, or the account goes.
Standing == Acting' = Acting /\ Pending' = Pending /\ UNCHANGED faults

Elapses ==
  /\ Standing
  /\ \/ log' = Older(log) /\ done' = Older(done)
     \/ log' = [a \in 0 .. Holdback |-> IF a < Holdback THEN log[a] ELSE 0] /\ UNCHANGED done
     \/ log' = [a \in 0 .. Holdback |-> 0] /\ done' = [a \in 0 .. Span - 1 |-> 0]

LEMMA AuditSteps ==
  ASSUME AccountsTyped, [RegisterNext]_registerVars
  PROVE  (\E r \in Client : Passes(r) \/ Does(r) \/ Writes(r)) \/ Quits \/ Elapses
<1> USE DEF AccountsTyped, Acting, Pending, Capped, PC
<1>1. ASSUME NEW r \in Client, NEW e \in Email, handleRegister(r, e)
      PROVE  Passes(r) \/ Quits
  <2>1. /\ at[r] = "idle" /\ at' = [at EXCEPT ![r] = "decide"]
        /\ email' = [email EXCEPT ![r] = e] /\ UNCHANGED <<kind, log, done>>
    BY <1>1 DEF handleRegister, Goto
  <2>2. CASE Capped(e)
    <3>1. BelowCap
      BY <1>1, <2>2 DEF handleRegister
    <3>2. Acting' = Acting \cup {r} /\ Pending' = Pending /\ r \in Client \ (Acting \cup Pending)
      BY <2>1, <2>2
    <3> QED BY <2>1, <3>1, <3>2 DEF Passes
  <2>3. CASE ~Capped(e)
    <3>1. UNCHANGED faults
      BY <1>1, <2>3 DEF handleRegister
    <3>2. Acting' \subseteq Acting /\ Pending' = Pending
      BY <2>1, <2>3
    <3> QED BY <2>1, <3>1, <3>2 DEF Quits
  <2> QED BY <2>2, <2>3
<1>2. ASSUME NEW r \in Client, DecideRole(r) PROVE Quits
  <2>1. /\ at[r] = "decide" /\ at' = [at EXCEPT ![r] = "insert"]
        /\ UNCHANGED <<email, kind, log, done, faults>>
    BY <1>2 DEF DecideRole, Goto, auditVars
  <2>2. Acting' \subseteq Acting /\ Pending' = Pending
    BY <2>1
  <2> QED BY <2>1, <2>2 DEF Quits
<1>3. ASSUME NEW r \in Client, InsertUser(r) PROVE Does(r) \/ Quits
  <2>1. /\ at[r] = "insert" /\ email' = [email EXCEPT ![r] = Address]
        /\ UNCHANGED <<kind, log, faults>>
    BY <1>3 DEF InsertUser, Forget
  <2>2. CASE Capped(email[r])
    <3>1. at' = [at EXCEPT ![r] = "log"] /\ Act
      BY <1>3, <2>2 DEF InsertUser
    <3>2. /\ Acting' = Acting \ {r} /\ Pending' = Pending \cup {r}
          /\ r \in Acting /\ r \notin Pending
      BY <2>1, <2>2, <3>1
    <3> QED BY <2>1, <3>1, <3>2 DEF Does
  <2>3. CASE ~Capped(email[r])
    <3>1. at' = [at EXCEPT ![r] = "idle"] /\ UNCHANGED done
      BY <1>3, <2>3 DEF InsertUser
    <3>2. Acting' \subseteq Acting /\ Pending' = Pending
      BY <2>1, <2>3, <3>1
    <3> QED BY <2>1, <3>1, <3>2 DEF Quits
  <2> QED BY <2>2, <2>3
<1>4. ASSUME NEW r \in Client, RegisterFails(r) PROVE Quits
  <2>1. /\ at[r] \in {"decide", "insert"} /\ at' = [at EXCEPT ![r] = "idle"]
        /\ email' = [email EXCEPT ![r] = Address] /\ UNCHANGED <<kind, log, done, faults>>
    BY <1>4 DEF RegisterFails, Forget, auditVars
  <2>2. Acting' \subseteq Acting /\ Pending' = Pending
    BY <2>1
  <2> QED BY <2>1, <2>2 DEF Quits
<1>5. ASSUME NEW r \in Client, Begin(r) PROVE Passes(r)
  <2>1. /\ at[r] = "idle" /\ at' = [at EXCEPT ![r] = "act"]
        /\ UNCHANGED <<email, kind, log, done>> /\ BelowCap
    BY <1>5 DEF Begin, Goto
  <2>2. Acting' = Acting \cup {r} /\ Pending' = Pending /\ r \in Client \ (Acting \cup Pending)
    BY <2>1
  <2> QED BY <2>1, <2>2 DEF Passes
<1>6. ASSUME NEW r \in Client, DoFollowed(r) PROVE Does(r)
  <2>1. /\ at[r] = "act" /\ at' = [at EXCEPT ![r] = "log"]
        /\ UNCHANGED <<email, kind, log, faults>> /\ Act
    BY <1>6 DEF DoFollowed, Goto
  <2>2. /\ Acting' = Acting \ {r} /\ Pending' = Pending \cup {r}
        /\ r \in Acting /\ r \notin Pending
    BY <2>1
  <2> QED BY <2>1, <2>2 DEF Does
<1>7. ASSUME NEW r \in Client, DoOther(r) PROVE Quits
  <2>1. /\ at[r] = "act" /\ at' = [at EXCEPT ![r] = "idle"]
        /\ UNCHANGED <<email, kind, log, done, faults>>
    BY <1>7 DEF DoOther, Goto, auditVars
  <2>2. Acting' \subseteq Acting /\ Pending' = Pending
    BY <2>1
  <2> QED BY <2>1, <2>2 DEF Quits
<1>8. ASSUME NEW r \in Client, LogAuthEvent(r) \/ LogLost(r) PROVE Writes(r)
  <2>1. /\ at[r] = "log" /\ at' = [at EXCEPT ![r] = "idle"] /\ UNCHANGED <<email, kind, done>>
        /\ \/ log' = [log EXCEPT ![0] = @ + 1] /\ UNCHANGED faults
           \/ faults' = faults + 1 /\ UNCHANGED log
    BY <1>8 DEF LogAuthEvent, LogLost, Goto, Fault
  <2>2. Acting' = Acting /\ Pending' = Pending \ {r} /\ r \in Pending
    BY <2>1
  <2> QED BY <2>1, <2>2 DEF Writes
<1>9. ASSUME UNCHANGED <<at, email, kind>> PROVE Acting' = Acting /\ Pending' = Pending
  BY <1>9
<1>10. ASSUME NEW e \in Email, DeleteAccount(e) PROVE Quits \/ Elapses
  BY <1>9, <1>10 DEF DeleteAccount, requestVars, AuditAges, Nothing, Quits, Elapses, Standing
<1>11. ASSUME RegisterTick \/ PurgeAuthAudit PROVE Elapses
  BY <1>9, <1>11 DEF RegisterTick, PurgeAuthAudit, requestVars, AuditAges, Elapses, Standing
<1>12. ASSUME UNCHANGED registerVars PROVE Quits
  BY <1>9, <1>12 DEF registerVars, Quits
<1>13. ASSUME NEW r \in Client, TurnAway(r) PROVE Quits
  BY <1>12, <1>13 DEF TurnAway
<1> QED
  BY <1>1, <1>2, <1>3, <1>4, <1>5, <1>6, <1>7, <1>8, <1>10, <1>11, <1>12, <1>13 DEF RegisterNext

\* A request that passes the count leaves the log short of Cap rows, or it is a fault
\* that lets it pass; either way the bound has room for it.
LEMMA PassesInv ==
  ASSUME AuditInv, NEW r \in Client, Passes(r)
  PROVE  AuditInv'
<1>0. /\ Span \in Nat \ {0} /\ Cap \in Nat /\ Cardinality(Client) \in Nat
  BY SpanFacts
<1>1. /\ Cardinality(Acting) \in Nat /\ Cardinality(Pending) \in Nat /\ IsFiniteSet(Acting)
      /\ Cardinality(Acting) + Cardinality(Pending) + 1 <= Cardinality(Client)
  BY UnderWay DEF Passes
<1>2. /\ Cardinality(Acting') = Cardinality(Acting) + 1 /\ Cardinality(Pending') = Cardinality(Pending)
  <2>1. Cardinality(Acting \cup {r}) = Cardinality(Acting) + 1
    BY <1>1, FS_AddElement DEF Passes
  <2> QED BY <2>1, Zenon DEF Passes
<1>3. UNCHANGED <<log, done>>
  BY DEF Passes
<1>4. faults \in Nat /\ (faults' = faults \/ faults' = faults + 1)
  BY DEF Passes, BelowCap, Fault, AuditInv, CountsTyped
<1>5. Younger(log, Span) < Cap \/ faults' = faults + 1
  BY RecentIsYounger DEF Passes, BelowCap, Fault, CountRecentAuthEvents
<1>6. \A n \in 0 .. Span : Younger(done, n) \in Nat /\ Younger(log, n) \in Nat
  BY TotalsTyped DEF AuditInv
<1>7. CountsTyped'
  BY <1>3, <1>4 DEF AuditInv, CountsTyped
<1>8. Accounted'
  BY <1>1, <1>2, <1>3, <1>4, <1>6 DEF AuditInv, Accounted
<1>9. Budgeted'
  <2>1. /\ Younger(done, Span) \in Nat /\ Younger(log, Span) \in Nat
        /\ Younger(done, Span) <= Younger(log, Span) + Cardinality(Pending) + faults
    BY <1>0, <1>6 DEF AuditInv, Accounted
  <2>2. Younger(done, Span) + Cardinality(Acting) <= Cap + (Cardinality(Client) - 1) + faults
    BY DEF AuditInv, Budgeted
  <2>3. Younger(done, Span) + (Cardinality(Acting) + 1) <= Cap + (Cardinality(Client) - 1) + faults'
    BY <1>0, <1>1, <1>4, <1>5, <2>1, <2>2
  <2> QED BY <1>2, <1>3, <2>3 DEF Budgeted
<1> QED BY <1>7, <1>8, <1>9 DEF AuditInv

\* One more at age 0.
OneMore(f, g) == g = [f EXCEPT ![0] = @ + 1]

LEMMA OneMoreTotal ==
  ASSUME NEW m \in Nat, NEW f \in [0 .. m -> Nat], NEW g, OneMore(f, g)
  PROVE  /\ g \in [0 .. m -> Nat]
         /\ \A n \in 1 .. m + 1 : Younger(g, n) = Younger(f, n) + 1
<1>1. 0 \in 0 .. m /\ g \in [0 .. m -> Nat]
  BY DEF OneMore
<1>2. ASSUME NEW n \in 1 .. m + 1 PROVE Younger(g, n) = Younger(f, n) + 1
  <2>1. n \in Nat \ {0} /\ Raised(f, g, n, 1)
    BY <1>1 DEF Raised, NatOn, OneMore
  <2> QED BY <2>1, YoungerRaised
<1> QED BY <1>1, <1>2

LEMMA DoesInv ==
  ASSUME AuditInv, NEW r \in Client, Does(r)
  PROVE  AuditInv'
<1>0. /\ Span \in Nat \ {0} /\ Cap \in Nat /\ Cardinality(Client) \in Nat
  BY SpanFacts
<1>1. /\ Cardinality(Acting) \in Nat /\ Cardinality(Pending) \in Nat
      /\ IsFiniteSet(Acting) /\ IsFiniteSet(Pending)
  BY UnderWay
<1>2. /\ Cardinality(Acting') = Cardinality(Acting) - 1
      /\ Cardinality(Pending') = Cardinality(Pending) + 1
  <2>1. Cardinality(Acting \ {r}) = Cardinality(Acting) - 1
    BY <1>1, FS_RemoveElement DEF Does
  <2>2. Cardinality(Pending \cup {r}) = Cardinality(Pending) + 1
    BY <1>1, FS_AddElement DEF Does
  <2> QED BY <2>1, <2>2, Zenon DEF Does
<1>3. UNCHANGED <<log, faults>> /\ faults \in Nat
  BY DEF Does, AuditInv, CountsTyped
<1>4. /\ done' \in [0 .. Span - 1 -> Nat]
      /\ \A n \in 1 .. Span : Younger(done', n) = Younger(done, n) + 1
  <2>1. Span - 1 \in Nat /\ (Span - 1) + 1 = Span /\ done \in [0 .. Span - 1 -> Nat]
    BY <1>0 DEF AuditInv, CountsTyped
  <2>2. OneMore(done, done')
    BY DEF Does, Act, OneMore
  <2>3. /\ done' \in [0 .. Span - 1 -> Nat]
        /\ \A n \in 1 .. (Span - 1) + 1 : Younger(done', n) = Younger(done, n) + 1
    BY <2>1, <2>2, OneMoreTotal
  <2> QED BY <2>1, <2>3
<1>5. \A n \in 0 .. Span : Younger(done, n) \in Nat /\ Younger(log, n) \in Nat
  BY TotalsTyped DEF AuditInv
<1>6. CountsTyped'
  BY <1>3, <1>4 DEF AuditInv, CountsTyped
<1>7. Accounted'
  <2> SUFFICES ASSUME NEW n \in 0 .. Span
               PROVE  Younger(done', n) <= Younger(log, n) + (Cardinality(Pending) + 1) + faults
    BY <1>2, <1>3 DEF Accounted
  <2>1. CASE n = 0
    BY <1>1, <1>3, <1>5, <2>1, YoungerZero
  <2>2. CASE n # 0
    <3>1. Younger(done', n) = Younger(done, n) + 1
      BY <1>0, <1>4, <2>2
    <3>2. Younger(done, n) <= Younger(log, n) + Cardinality(Pending) + faults
      BY DEF AuditInv, Accounted
    <3> QED BY <1>1, <1>3, <1>5, <3>1, <3>2
  <2> QED BY <2>1, <2>2
<1>8. Budgeted'
  <2>1. Younger(done', Span) = Younger(done, Span) + 1 /\ Younger(done, Span) \in Nat
    BY <1>0, <1>4, <1>5
  <2>2. Younger(done, Span) + Cardinality(Acting) <= Cap + (Cardinality(Client) - 1) + faults
    BY DEF AuditInv, Budgeted
  <2>3. (Younger(done, Span) + 1) + (Cardinality(Acting) - 1)
          <= Cap + (Cardinality(Client) - 1) + faults
    BY <1>0, <1>1, <1>3, <2>1, <2>2
  <2> QED BY <1>2, <1>3, <2>1, <2>3 DEF Budgeted
<1> QED BY <1>6, <1>7, <1>8 DEF AuditInv

LEMMA WritesInv ==
  ASSUME AuditInv, NEW r \in Client, Writes(r)
  PROVE  AuditInv'
<1>0. /\ Span \in Nat \ {0} /\ Cap \in Nat /\ Cardinality(Client) \in Nat
      /\ Holdback \in Nat /\ Span <= Holdback
  BY SpanFacts
<1>1. Cardinality(Acting) \in Nat /\ Cardinality(Pending) \in Nat /\ IsFiniteSet(Pending)
  BY UnderWay
<1>2. Cardinality(Acting') = Cardinality(Acting) /\ Cardinality(Pending') = Cardinality(Pending) - 1
  <2>1. Cardinality(Pending \ {r}) = Cardinality(Pending) - 1
    BY <1>1, FS_RemoveElement DEF Writes
  <2> QED BY <2>1, Zenon DEF Writes
<1>3. UNCHANGED done /\ faults \in Nat
  BY DEF Writes, AuditInv, CountsTyped
<1>4. Cardinality(Pending) - 1 \in Nat
  <2>1. Cardinality(Pending) # 0
    BY <1>1, FS_EmptySet DEF Writes
  <2> QED BY <1>1, <2>1
<1>5. \A n \in 0 .. Span : Younger(done, n) \in Nat /\ Younger(log, n) \in Nat
  BY TotalsTyped DEF AuditInv
<1>6. /\ CountsTyped' /\ faults' >= faults
      /\ \A n \in 1 .. Span : Younger(log', n) + faults' = Younger(log, n) + faults + 1
  <2>1. CASE OneMore(log, log') /\ UNCHANGED faults
    <3>1. log \in [0 .. Holdback -> Nat]
      BY DEF AuditInv, CountsTyped
    <3>2. /\ log' \in [0 .. Holdback -> Nat]
          /\ \A n \in 1 .. Holdback + 1 : Younger(log', n) = Younger(log, n) + 1
      BY <1>0, <2>1, <3>1, OneMoreTotal
    <3>3. ASSUME NEW n \in 1 .. Span
          PROVE  Younger(log', n) + faults' = Younger(log, n) + faults + 1
      <4>1. Younger(log', n) = Younger(log, n) + 1
        BY <1>0, <3>2
      <4>2. Younger(log, n) \in Nat
        BY <1>0, <1>5
      <4> QED BY <1>3, <2>1, <4>1, <4>2
    <3>4. CountsTyped'
      BY <1>3, <2>1, <3>2 DEF AuditInv, CountsTyped
    <3> QED BY <1>3, <2>1, <3>3, <3>4
  <2>2. CASE faults' = faults + 1 /\ UNCHANGED log
    <3>1. CountsTyped'
      BY <1>3, <2>2 DEF AuditInv, CountsTyped
    <3> QED BY <1>0, <1>3, <1>5, <2>2, <3>1
  <2> QED BY <2>1, <2>2 DEF Writes, OneMore
<1>7. Accounted'
  <2>1. ASSUME NEW n \in 0 .. Span PROVE Younger(log', n) \in Nat
    <3>1. n \in Nat /\ NatOn(log', 0 .. n - 1)
      BY <1>0, <1>6 DEF CountsTyped, NatOn
    <3> QED BY <3>1, YoungerType
  <2> SUFFICES ASSUME NEW n \in 0 .. Span
               PROVE  Younger(done, n) <= Younger(log', n) + (Cardinality(Pending) - 1) + faults'
    BY <1>2, <1>3 DEF Accounted
  <2>2. faults' \in Nat
    BY <1>6 DEF CountsTyped
  <2>3. CASE n = 0
    BY <1>4, <2>1, <2>2, <2>3, YoungerZero
  <2>4. CASE n # 0
    <3>1. Younger(log', n) + faults' = Younger(log, n) + faults + 1
      BY <1>0, <1>6, <2>4
    <3>2. Younger(done, n) <= Younger(log, n) + Cardinality(Pending) + faults
      BY DEF AuditInv, Accounted
    <3>3. Younger(log', n) \in Nat /\ Younger(log, n) \in Nat /\ Younger(done, n) \in Nat
      BY <1>5, <2>1
    <3> QED BY <1>1, <1>3, <2>2, <3>1, <3>2, <3>3
  <2> QED BY <2>3, <2>4
<1>8. Budgeted'
  <2>1. Younger(done, Span) + Cardinality(Acting) <= Cap + (Cardinality(Client) - 1) + faults
    BY DEF AuditInv, Budgeted
  <2>2. Younger(done, Span) \in Nat /\ faults' \in Nat
    BY <1>0, <1>5, <1>6 DEF CountsTyped
  <2>3. Younger(done, Span) + Cardinality(Acting) <= Cap + (Cardinality(Client) - 1) + faults'
    BY <1>0, <1>1, <1>3, <1>6, <2>1, <2>2
  <2> QED BY <1>2, <1>3, <2>3 DEF Budgeted
<1> QED BY <1>6, <1>7, <1>8 DEF AuditInv

LEMMA QuitsInv ==
  ASSUME AuditInv, Quits
  PROVE  AuditInv'
<1>0. Span \in Nat \ {0} /\ Cap \in Nat /\ Cardinality(Client) \in Nat
  BY SpanFacts
<1>1. IsFiniteSet(Acting) /\ Cardinality(Acting) \in Nat
  BY UnderWay
<1>2. /\ Cardinality(Acting') <= Cardinality(Acting) /\ Cardinality(Acting') \in Nat
      /\ Cardinality(Pending') = Cardinality(Pending)
  <2>1. Cardinality(Acting') <= Cardinality(Acting) /\ Cardinality(Acting') \in Nat
    BY <1>1, FS_Subset, FS_CardinalityType DEF Quits
  <2> QED BY <2>1, Zenon DEF Quits
<1>3. UNCHANGED <<log, done, faults>>
  BY DEF Quits
<1>4. CountsTyped' /\ Accounted'
  BY <1>2, <1>3 DEF AuditInv, CountsTyped, Accounted
<1>5. Budgeted'
  <2>1. Younger(done, Span) + Cardinality(Acting) <= Cap + (Cardinality(Client) - 1) + faults
    BY DEF AuditInv, Budgeted
  <2>2. Younger(done, Span) \in Nat /\ faults \in Nat
    BY <1>0, TotalsTyped DEF AuditInv, CountsTyped
  <2>3. Younger(done, Span) + Cardinality(Acting') <= Cap + (Cardinality(Client) - 1) + faults
    BY <1>0, <1>1, <1>2, <2>1, <2>2
  <2> QED BY <1>3, <2>3 DEF Budgeted
<1> QED BY <1>4, <1>5 DEF AuditInv

\* Everything is a tick older.
GrownOlder(f, g) == g = Older(f)

LEMMA OlderTotal ==
  ASSUME NEW m \in Nat, NEW f \in [0 .. m -> Nat], NEW g, GrownOlder(f, g)
  PROVE  /\ g \in [0 .. m -> Nat]
         /\ \A n \in 0 .. m : Younger(g, n + 1) = Younger(f, n)
<1>1. /\ g \in [0 .. m -> Nat] /\ g[0] = 0
      /\ \A a \in 1 .. m : g[a] = f[a - 1]
  BY DEF GrownOlder, Older
<1>2. Aged(f, g, m)
  BY <1>1 DEF Aged, NatOn
<1> QED BY <1>1, <1>2, YoungerAged

\* Growing older loses the eldest on both sides, at the same age.
LEMMA TickInv ==
  ASSUME AuditInv, Standing,
         GrownOlder(log, log'), GrownOlder(done, done')
  PROVE  AuditInv'
<1>0. /\ Span \in Nat \ {0} /\ Cap \in Nat /\ Cardinality(Client) \in Nat
      /\ Holdback \in Nat /\ Span <= Holdback /\ Span - 1 \in Nat
  BY SpanFacts
<1>1. Cardinality(Acting) \in Nat /\ Cardinality(Pending) \in Nat
  BY UnderWay
<1>2. /\ Cardinality(Acting') = Cardinality(Acting) /\ Cardinality(Pending') = Cardinality(Pending)
      /\ faults' = faults
  BY Zenon DEF Standing
<1>3. /\ log \in [0 .. Holdback -> Nat] /\ done \in [0 .. Span - 1 -> Nat] /\ faults \in Nat
  BY DEF AuditInv, CountsTyped
<1>4. /\ log' \in [0 .. Holdback -> Nat]
      /\ \A n \in 0 .. Holdback : Younger(log', n + 1) = Younger(log, n)
  <2>1. Holdback \in Nat /\ log \in [0 .. Holdback -> Nat]
    BY <1>0, <1>3
  <2> QED BY <2>1, OlderTotal
<1>5. /\ done' \in [0 .. Span - 1 -> Nat]
      /\ \A n \in 0 .. Span - 1 : Younger(done', n + 1) = Younger(done, n)
  <2>1. Span - 1 \in Nat /\ done \in [0 .. Span - 1 -> Nat]
    BY <1>0, <1>3
  <2> QED BY <2>1, OlderTotal
<1>6. CountsTyped'
  BY <1>2, <1>3, <1>4, <1>5 DEF CountsTyped
<1>7. \A n \in 0 .. Span : Younger(done, n) \in Nat /\ Younger(log, n) \in Nat
  BY TotalsTyped DEF AuditInv
<1>8. Accounted'
  <2> SUFFICES ASSUME NEW n \in 0 .. Span
               PROVE  Younger(done', n) <= Younger(log', n) + Cardinality(Pending) + faults
    BY <1>2 DEF Accounted
  <2>1. CASE n = 0
    BY <1>1, <1>3, <2>1, YoungerZero
  <2>2. CASE n # 0
    <3>1. n - 1 \in 0 .. Span - 1 /\ n - 1 \in 0 .. Holdback /\ n - 1 \in 0 .. Span /\ (n - 1) + 1 = n
      BY <1>0, <2>2
    <3>2. Younger(done', n) = Younger(done, n - 1) /\ Younger(log', n) = Younger(log, n - 1)
      BY <1>4, <1>5, <3>1
    <3>3. Younger(done, n - 1) <= Younger(log, n - 1) + Cardinality(Pending) + faults
      BY <3>1 DEF AuditInv, Accounted
    <3> QED BY <3>2, <3>3
  <2> QED BY <2>1, <2>2
<1>9. Budgeted'
  <2>1. Younger(done', Span) = Younger(done, Span - 1)
    BY <1>0, <1>5
  <2>2. Younger(done, Span - 1) <= Younger(done, Span)
    <3>1. NatOn(done, 0 .. Span - 1)
      BY <1>3 DEF NatOn
    <3> QED BY <1>0, <3>1, YoungerGrows
  <2>3. Younger(done, Span - 1) \in Nat /\ Younger(done, Span) \in Nat
    BY <1>0, <1>7
  <2>4. Younger(done, Span) + Cardinality(Acting) <= Cap + (Cardinality(Client) - 1) + faults
    BY DEF AuditInv, Budgeted
  <2> DEFINE y == Younger(done, Span - 1)
             z == Younger(done, Span)
             b == Cap + (Cardinality(Client) - 1) + faults
  <2>5. y <= z /\ y \in Nat /\ z \in Nat /\ z + Cardinality(Acting) <= b /\ b \in Int
    BY <1>0, <1>3, <2>2, <2>3, <2>4
  <2> HIDE DEF y, z, b
  <2>6. y + Cardinality(Acting) <= b
    BY <1>1, <2>5
  <2> QED BY <1>2, <2>1, <2>6 DEF Budgeted, y, b
<1> QED BY <1>6, <1>8, <1>9 DEF AuditInv

\* What PurgeAuthAudit deletes is older than any count looks back.
Cleared(f, g) == g = [a \in 0 .. Holdback |-> IF a < Holdback THEN f[a] ELSE 0]

LEMMA PurgeInv ==
  ASSUME AuditInv, Standing, UNCHANGED done, Cleared(log, log')
  PROVE  AuditInv'
<1>0. Span \in Nat \ {0} /\ Holdback \in Nat /\ Span <= Holdback
  BY SpanFacts
<1>1. /\ Cardinality(Acting') = Cardinality(Acting) /\ Cardinality(Pending') = Cardinality(Pending)
      /\ faults' = faults
  BY Zenon DEF Standing
<1>2. /\ log' \in [0 .. Holdback -> Nat] /\ \A a \in 0 .. Holdback - 1 : log'[a] = log[a]
  BY <1>0 DEF Cleared, AuditInv, CountsTyped
<1>3. ASSUME NEW n \in 0 .. Span PROVE Younger(log', n) = Younger(log, n)
  <2>1. n \in Nat /\ \A a \in 0 .. n - 1 : log'[a] = log[a]
    BY <1>0, <1>2
  <2> QED BY <2>1, YoungerSame
<1>4. CountsTyped'
  BY <1>1, <1>2 DEF AuditInv, CountsTyped
<1>5. Accounted'
  BY <1>1, <1>3 DEF AuditInv, Accounted
<1>6. Budgeted'
  BY <1>1 DEF AuditInv, Budgeted
<1> QED BY <1>4, <1>5, <1>6 DEF AuditInv

LEMMA DeletedInv ==
  ASSUME AuditInv, Standing,
         log' = [a \in 0 .. Holdback |-> 0], done' = [a \in 0 .. Span - 1 |-> 0]
  PROVE  AuditInv'
<1>0. /\ Span \in Nat \ {0} /\ Holdback \in Nat /\ Span <= Holdback
      /\ Cap \in Nat \ {0} /\ Cardinality(Client) \in Nat
  BY SpanFacts
<1>1. /\ Cardinality(Acting') = Cardinality(Acting) /\ Cardinality(Pending') = Cardinality(Pending)
      /\ faults' = faults
  BY Zenon DEF Standing
<1>2. /\ Cardinality(Acting) \in Nat /\ Cardinality(Pending) \in Nat
      /\ Cardinality(Acting) <= Cardinality(Client) /\ faults \in Nat
  BY UnderWay DEF AuditInv, CountsTyped
<1>3. ASSUME NEW n \in 0 .. Span PROVE Younger(log', n) = 0 /\ Younger(done', n) = 0
  <2>1. n \in Nat /\ \A a \in 0 .. n - 1 : log'[a] = 0 /\ done'[a] = 0
    BY <1>0
  <2> QED BY <2>1, YoungerNothing
<1>4. CountsTyped'
  BY <1>1, <1>2 DEF CountsTyped
<1>5. Accounted'
  <2>1. \A n \in 0 .. Span : 0 <= 0 + Cardinality(Pending) + faults
    BY <1>2
  <2> QED BY <1>1, <1>3, <2>1 DEF Accounted
<1>6. Budgeted'
  <2>1. Younger(done', Span) = 0
    BY <1>0, <1>3
  <2> QED BY <1>0, <1>1, <1>2, <2>1 DEF Budgeted
<1> QED BY <1>4, <1>5, <1>6 DEF AuditInv

LEMMA AuditStep ==
  ASSUME AccountsTyped, AuditInv, [RegisterNext]_registerVars
  PROVE  AuditInv'
<1>1. ASSUME Elapses PROVE AuditInv'
  BY <1>1, TickInv, PurgeInv, DeletedInv DEF Elapses, GrownOlder, Cleared
<1> QED BY <1>1, AuditSteps, PassesInv, DoesInv, WritesInv, QuitsInv

LEMMA AuditInit == RegisterInit => AuditInv
<1> SUFFICES ASSUME RegisterInit PROVE AuditInv
  OBVIOUS
<1>0. /\ Span \in Nat \ {0} /\ Holdback \in Nat /\ Span <= Holdback
      /\ Cap \in Nat \ {0} /\ Cardinality(Client) \in Nat
  BY SpanFacts
<1>1. /\ log = [a \in 0 .. Holdback |-> 0] /\ done = [a \in 0 .. Span - 1 |-> 0] /\ faults = 0
  BY DEF RegisterInit, AuditAges, Nothing
<1>2. /\ Cardinality(Acting) \in Nat /\ Cardinality(Pending) \in Nat
      /\ Cardinality(Acting) <= Cardinality(Client)
  BY UnderWay
<1>3. ASSUME NEW n \in 0 .. Span PROVE Younger(log, n) = 0 /\ Younger(done, n) = 0
  <2>1. n \in Nat /\ \A a \in 0 .. n - 1 : log[a] = 0 /\ done[a] = 0
    BY <1>0, <1>1
  <2> QED BY <2>1, YoungerNothing
<1>4. CountsTyped
  BY <1>1 DEF CountsTyped
<1>5. Accounted
  <2>1. 0 <= 0 + Cardinality(Pending) + 0 /\ faults = 0
    BY <1>1, <1>2
  <2> QED BY <1>3, <2>1 DEF Accounted
<1>6. Budgeted
  <2>1. Younger(done, Span) = 0
    BY <1>0, <1>3
  <2> QED BY <1>0, <1>1, <1>2, <2>1 DEF Budgeted
<1> QED BY <1>4, <1>5, <1>6 DEF AuditInv

\* handleLogin, handleForgotPassword and handleRegister: the window that counts rows
\* of auth_audit lets through Cap attempts, one more for every other request that
\* counted at the same time and one for every row lost or count that failed,
\* however the account's history is purged in between.
THEOREM AttemptsStayBounded == RegisterSpec => []AttemptsBounded
<1>1. AuditInv => AttemptsBounded
  <2> SUFFICES ASSUME AuditInv PROVE AttemptsBounded
    OBVIOUS
  <2>1. Span \in Nat \ {0} /\ Cap \in Nat /\ Cardinality(Client) \in Nat
    BY SpanFacts
  <2>2. Younger(done, Span) \in Nat /\ Cardinality(Acting) \in Nat /\ faults \in Nat
    BY <2>1, TotalsTyped, UnderWay DEF AuditInv, CountsTyped
  <2>3. Younger(done, Span) <= Cap + (Cardinality(Client) - 1) + faults
    BY <2>1, <2>2 DEF AuditInv, Budgeted
  <2> QED BY <2>3, RecentIsYounger DEF AttemptsBounded
<1>2. AdminInv => AccountsTyped
  BY DEF AdminInv
<1> QED BY <1>1, <1>2, AdminInit, AdminStep, AuditInit, AuditStep, PTL DEF RegisterSpec
=============================================================================
