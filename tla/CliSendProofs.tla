----------------------------- MODULE CliSendProofs -----------------------------
(***************************************************************************)
(* Theorems about CliSend and Picker, for any sends, files, devices and    *)
(* any tree of directories.                                                *)
(***************************************************************************)
EXTENDS CliSend, FiniteSetTheorems, SequenceTheorems, TLAPS

(* Naturals.                                                               *)

\* A set of naturals has a least element: the initial segments are well-founded.
LEMMA LeastNat ==
    ASSUME NEW T \in SUBSET Nat, T # {}
    PROVE  \E x \in T : \A y \in T : x <= y
<1> DEFINE C == {0..n : n \in T}
           R == StrictSubsetOrdering(Nat)
<1>1. C \subseteq FiniteSubsetsOf(Nat) /\ C # {}
  <2>1. \A n \in T : n \in Int /\ 0..n \in SUBSET Nat
    OBVIOUS
  <2>2. \A n \in T : IsFiniteSet(0..n)
    BY <2>1, FS_Interval
  <2> QED BY <2>1, <2>2 DEF FiniteSubsetsOf
<1>2. \E u \in C : \A w \in C : ~(<<w, u>> \in R)
  <2> HIDE DEF C
  <2> QED BY <1>1, FS_StrictSubsetOrderingWellFounded, WFMin
<1>3. PICK x \in T : \A y \in T : ~(<<0..y, 0..x>> \in R)
  BY <1>2
<1>4. ASSUME NEW y \in T, y < x PROVE FALSE
  <2>1. 0..y \in SUBSET Nat /\ 0..x \in SUBSET Nat /\ 0..y \subseteq 0..x /\ 0..y # 0..x
    <3>1. x \in 0..x /\ x \notin 0..y
      BY <1>4
    <3> QED BY <1>4, <3>1
  <2> QED BY <1>3, <2>1 DEF StrictSubsetOrdering
<1>5. \A y \in T : x <= y
  BY <1>4
<1> QED BY <1>5

\* Min of FiniteSetsExt is one.
LEMMA MinIsElement == ASSUME NEW T \in SUBSET Nat, T # {} PROVE Min(T) \in T
  BY LeastNat DEF Min

\* The elements of a set can be counted off in their order.
LEMMA KthElement ==
    ASSUME NEW n \in Nat, NEW S \in SUBSET (1..n), NEW k \in 1..Cardinality(S)
    PROVE  \E i \in S : Cardinality({j \in S : j <= i}) = k
<1> DEFINE Upto(i) == {j \in S : j <= i}
           T == {i \in Nat : k <= Cardinality(Upto(i))}
<1>0. \A j \in S : j \in Nat /\ 1 <= j /\ j <= n
  OBVIOUS
<1>1. IsFiniteSet(S) /\ \A i \in Nat : IsFiniteSet(Upto(i)) /\ Cardinality(Upto(i)) \in Nat
  <2>1. IsFiniteSet(S)
    <3>1. 1 \in Int /\ n \in Int
      OBVIOUS
    <3> QED BY <3>1, FS_Interval, FS_Subset
  <2>2. \A i \in Nat : Upto(i) \in SUBSET S
    OBVIOUS
  <2> QED BY <2>1, <2>2, FS_Subset, FS_CardinalityType
<1>2. Upto(n) = S /\ Upto(0) = {} /\ k \in Nat /\ 1 <= k
  <2>1. \A j \in S : j <= n /\ ~(j <= 0)
    BY <1>0
  <2>2. Cardinality(S) \in Nat
    BY <1>1, FS_CardinalityType
  <2>3. Upto(n) = S /\ Upto(0) = {}
    BY <2>1
  <2> HIDE DEF Upto
  <2> QED BY <2>2, <2>3
<1>3. n \in T
  <2>1. k <= Cardinality(S)
    BY <1>1, FS_CardinalityType
  <2> QED BY <1>2, <2>1
<1>4. PICK i \in T : \A j \in T : i <= j
  <2> HIDE DEF T
  <2>1. T \in SUBSET Nat
    BY DEF T
  <2> QED BY <1>3, <2>1, LeastNat
<1>5. i # 0
  BY <1>2, <1>4, FS_EmptySet
<1>6. i \in Nat /\ i - 1 \in Nat /\ i - 1 \notin T
  <2>1. i \in Nat
    BY <1>4
  <2>2. i - 1 \in Nat /\ ~(i <= i - 1)
    BY <1>5, <2>1
  <2> HIDE DEF T
  <2> QED BY <1>4, <2>1, <2>2
<1>7. Cardinality(Upto(i - 1)) < k
  <2>1. ~(k <= Cardinality(Upto(i - 1)))
    BY <1>6
  <2>2. Cardinality(Upto(i - 1)) \in Nat
    BY <1>1, <1>6
  <2> HIDE DEF Upto
  <2> QED BY <1>2, <2>1, <2>2
<1>8. i \in S
  <2>1. i \notin S => Upto(i) = Upto(i - 1)
    <3>1. ASSUME i \notin S, NEW j \in S PROVE j <= i <=> j <= i - 1
      BY <1>0, <1>6, <3>1
    <3> QED BY <3>1
  <2>2. k <= Cardinality(Upto(i)) /\ Cardinality(Upto(i - 1)) \in Nat
    BY <1>1, <1>4, <1>6
  <2> HIDE DEF Upto
  <2> QED BY <1>2, <1>7, <2>1, <2>2
<1>9. Upto(i) = Upto(i - 1) \cup {i} /\ i \notin Upto(i - 1)
  <2>1. ASSUME NEW j \in S PROVE j <= i <=> (j <= i - 1 \/ j = i)
    BY <1>0, <1>6
  <2>2. ~(i <= i - 1) /\ i <= i
    BY <1>6
  <2>3. \A j : j \in Upto(i) <=> j \in Upto(i - 1) \cup {i}
    BY <1>8, <2>1, <2>2
  <2>4. i \notin Upto(i - 1)
    BY <2>2
  <2> HIDE DEF Upto
  <2> QED BY <2>3, <2>4
<1>10. Cardinality(Upto(i)) = Cardinality(Upto(i - 1)) + 1
  <2> HIDE DEF Upto
  <2> QED BY <1>1, <1>6, <1>9, FS_AddElement
<1>11. Cardinality(Upto(i)) = k
  <2>1. k <= Cardinality(Upto(i)) /\ Cardinality(Upto(i - 1)) \in Nat
    BY <1>1, <1>4, <1>6
  <2> HIDE DEF Upto
  <2> QED BY <1>2, <1>7, <1>10, <2>1
<1> QED BY <1>8, <1>11
-----------------------------------------------------------------------------
(* The filter of the picker.                                               *)

\* The first k symbols can be found in their order, the last of them at i.
EndsAt(query, name, k, i) ==
    \E f \in [0..k -> 0..Len(name)] :
        /\ f[0] = 0 /\ f[k] = i
        /\ \A m \in 1..k : f[m - 1] < f[m] /\ name[f[m]] = query[m]

LEMMA EndsAtZero ==
    ASSUME NEW query, NEW name, Len(name) \in Nat, NEW i
    PROVE  EndsAt(query, name, 0, i) <=> i = 0
<1>1. EndsAt(query, name, 0, i) => i = 0
  BY DEF EndsAt
<1>2. ASSUME i = 0 PROVE EndsAt(query, name, 0, i)
  <2> DEFINE f == [m \in 0..0 |-> 0]
  <2>1. f \in [0..0 -> 0..Len(name)] /\ f[0] = 0 /\ 1..0 = {}
    OBVIOUS
  <2>2. \A m \in 1..0 : f[m - 1] < f[m] /\ name[f[m]] = query[m]
    BY <2>1
  <2> HIDE DEF f
  <2> QED BY <1>2, <2>1, <2>2 DEF EndsAt
<1> QED BY <1>1, <1>2

LEMMA EndsAtStep ==
    ASSUME NEW query, NEW name, Len(name) \in Nat, NEW k \in Nat, k # 0, NEW i \in 0..Len(name)
    PROVE  EndsAt(query, name, k, i)
           <=> name[i] = query[k] /\ \E j \in 0..Len(name) : j < i /\ EndsAt(query, name, k - 1, j)
<1> DEFINE L == Len(name)
           p == k - 1
<1>0. p \in Nat /\ k - 1 = p /\ k \in 1..k /\ k \notin 0..p /\ 0 # k /\ k \in 0..k /\ 0 \in 0..p /\ p \in 0..p
  OBVIOUS
<1>00. /\ \A m \in 0..p : m \in 0..k /\ m # k
       /\ \A m \in 0..k : m # k => m \in 0..p
       /\ \A m \in 1..p : m \in 1..k /\ m - 1 \in 0..p /\ m \in 0..p
       /\ \A m \in 1..k : m # k => m \in 1..p
  OBVIOUS
<1> HIDE DEF p
<1>1. ASSUME EndsAt(query, name, k, i)
      PROVE  name[i] = query[k] /\ \E j \in 0..L : j < i /\ EndsAt(query, name, p, j)
  <2>1. PICK f \in [0..k -> 0..L] :
           /\ f[0] = 0 /\ f[k] = i
           /\ \A m \in 1..k : f[m - 1] < f[m] /\ name[f[m]] = query[m]
    BY <1>1 DEF EndsAt
  <2>2. name[i] = query[k] /\ f[p] \in 0..L /\ f[p] < i
    BY <1>0, <1>00, <2>1
  <2> DEFINE g == [m \in 0..p |-> f[m]]
  <2>3. g \in [0..p -> 0..L] /\ g[0] = 0 /\ g[p] = f[p]
    BY <1>0, <1>00, <2>1
  <2>4. ASSUME NEW m \in 1..p PROVE g[m - 1] < g[m] /\ name[g[m]] = query[m]
    <3>1. g[m - 1] = f[m - 1] /\ g[m] = f[m] /\ m \in 1..k
      BY <1>00
    <3> HIDE DEF g
    <3> QED BY <2>1, <3>1
  <2> HIDE DEF g
  <2>5. EndsAt(query, name, p, f[p])
    BY <2>3, <2>4 DEF EndsAt
  <2> QED BY <2>2, <2>5
<1>2. ASSUME name[i] = query[k], NEW j \in 0..L, j < i, EndsAt(query, name, p, j)
      PROVE  EndsAt(query, name, k, i)
  <2>1. PICK g \in [0..p -> 0..L] :
           /\ g[0] = 0 /\ g[p] = j
           /\ \A m \in 1..p : g[m - 1] < g[m] /\ name[g[m]] = query[m]
    BY <1>2 DEF EndsAt
  <2> DEFINE f == [m \in 0..k |-> IF m = k THEN i ELSE g[m]]
  <2>2. f \in [0..k -> 0..L] /\ f[0] = 0 /\ f[k] = i
    BY <1>0, <1>00, <2>1
  <2>3. \A m \in 0..p : f[m] = g[m]
    BY <1>00
  <2> HIDE DEF f
  <2>4. ASSUME NEW m \in 1..k PROVE f[m - 1] < f[m] /\ name[f[m]] = query[m]
    <3>1. CASE m = k
      BY <1>0, <1>2, <2>1, <2>2, <2>3, <3>1
    <3>2. CASE m # k
      <4>1. m \in 1..p /\ f[m] = g[m] /\ f[m - 1] = g[m - 1]
        BY <1>00, <2>3, <3>2
      <4> QED BY <2>1, <4>1
    <3> QED BY <3>1, <3>2
  <2> QED BY <2>2, <2>4 DEF EndsAt
<1> QED BY <1>1, <1>2 DEF p

\* What is found one after the other is found in the order of the filter.
LEMMA StepsIncrease ==
    ASSUME NEW k \in Nat, NEW f \in [0..k -> Nat], \A m \in 1..k : f[m - 1] < f[m],
           NEW i \in 0..k, NEW j \in 0..k, i < j
    PROVE  f[i] < f[j]
<1> DEFINE T == {n \in 0..k : i < n /\ ~(f[i] < f[n])}
<1>1. T = {}
  <2> SUFFICES ASSUME T # {} PROVE FALSE
    OBVIOUS
  <2>1. T \in SUBSET Nat
    OBVIOUS
  <2>2. PICK n \in T : \A x \in T : n <= x
    <3> HIDE DEF T
    <3> QED BY <2>1, LeastNat
  <2>3. n \in 1..k /\ n - 1 \in 0..k /\ i < n /\ ~(f[i] < f[n]) /\ f[n - 1] < f[n]
    BY <2>2
  <2>4. n - 1 \notin T
    <3>1. ~(n <= n - 1)
      BY <2>3
    <3> HIDE DEF T
    <3> QED BY <2>2, <3>1
  <2>5. CASE i = n - 1
    BY <2>3, <2>5
  <2>6. CASE i < n - 1
    <3>1. f[i] < f[n - 1]
      BY <2>3, <2>4, <2>6
    <3>2. f[i] \in Nat /\ f[n - 1] \in Nat /\ f[n] \in Nat
      BY <2>3
    <3> QED BY <2>3, <3>1, <3>2
  <2> QED BY <2>3, <2>5, <2>6
<1> QED BY <1>1

LEMMA EndsAtEmbeds ==
    ASSUME NEW query, NEW name, Len(query) \in Nat, Len(name) \in Nat
    PROVE  (\E i \in 0..Len(name) : EndsAt(query, name, Len(query), i)) <=> Embeds(query, name)
<1> DEFINE n == Len(query)
           L == Len(name)
<1>1. ASSUME NEW i \in 0..L, EndsAt(query, name, n, i) PROVE Embeds(query, name)
  <2>1. PICK f \in [0..n -> 0..L] :
           /\ f[0] = 0 /\ \A m \in 1..n : f[m - 1] < f[m] /\ name[f[m]] = query[m]
    BY <1>1 DEF EndsAt
  <2> DEFINE g == [m \in 1..n |-> f[m]]
  <2>2. f \in [0..n -> Nat] /\ \A m \in 1..n : m \in 0..n /\ m - 1 \in 0..n
    OBVIOUS
  <2>3. \A a, b \in 1..n : a < b => f[a] < f[b]
    BY <2>1, <2>2, StepsIncrease
  <2>4. ASSUME NEW m \in 1..n PROVE f[m] \in 1..L
    <3>1. f[m - 1] \in Nat /\ f[m] \in 0..L /\ f[m - 1] < f[m]
      BY <2>1, <2>2
    <3> QED BY <3>1
  <2>5. g \in [1..n -> 1..L]
    BY <2>4
  <2>6. \A m \in 1..n : g[m] = f[m]
    OBVIOUS
  <2> HIDE DEF g
  <2> QED BY <2>1, <2>3, <2>5, <2>6 DEF Embeds
<1>2. ASSUME Embeds(query, name) PROVE \E i \in 0..L : EndsAt(query, name, n, i)
  <2>1. PICK g \in [1..n -> 1..L] :
           \A a, b \in 1..n : query[a] = name[g[a]] /\ (a < b => g[a] < g[b])
    BY <1>2 DEF Embeds
  <2> DEFINE f == [m \in 0..n |-> IF m = 0 THEN 0 ELSE g[m]]
  <2>2. \A m \in 0..n : m # 0 => m \in 1..n
    OBVIOUS
  <2>3. f \in [0..n -> 0..L] /\ f[0] = 0 /\ f[n] \in 0..L
    BY <2>1, <2>2
  <2>4. ASSUME NEW m \in 1..n PROVE f[m - 1] < f[m] /\ name[f[m]] = query[m]
    <3>1. m \in 0..n /\ m - 1 \in 0..n /\ m # 0 /\ f[m] = g[m] /\ g[m] \in 1..L
      BY <2>1
    <3>2. CASE m = 1
      <4>1. f[m - 1] = 0
        BY <3>1, <3>2
      <4> HIDE DEF f
      <4> QED BY <2>1, <3>1, <4>1
    <3>3. CASE m # 1
      <4>1. m - 1 \in 1..n /\ m - 1 < m /\ m - 1 # 0
        BY <3>1, <3>3
      <4>2. f[m - 1] = g[m - 1]
        BY <3>1, <4>1
      <4> HIDE DEF f
      <4> QED BY <2>1, <3>1, <4>1, <4>2
    <3> QED BY <3>2, <3>3
  <2> HIDE DEF f
  <2> QED BY <2>3, <2>4 DEF EndsAt
<1> QED BY <1>1, <1>2

\* Where the greedy search is after k symbols: at the first end of all.
FirstEnd(query, name, k) ==
    Min({i \in 0..Len(name) : EndsAt(query, name, k, i)} \cup {Len(name) + 1})

LEMMA FirstEndIs ==
    ASSUME NEW query, NEW name, Len(name) \in Nat, NEW k
    PROVE  LET e == FirstEnd(query, name, k)
           IN  /\ e \in 0..(Len(name) + 1)
               /\ e <= Len(name) => EndsAt(query, name, k, e)
               /\ \A i \in 0..Len(name) : EndsAt(query, name, k, i) => e <= i
<1> DEFINE T == {i \in 0..Len(name) : EndsAt(query, name, k, i)} \cup {Len(name) + 1}
           e == Min(T)
<1>1. T \in SUBSET Nat /\ T # {} /\ T \subseteq 0..(Len(name) + 1)
  OBVIOUS
<1>2. e \in T /\ \A y \in T : e <= y
  <2> HIDE DEF T
  <2> QED BY <1>1, LeastNat DEF Min
<1>3. FirstEnd(query, name, k) = e
  BY DEF FirstEnd
<1> HIDE DEF e
<1>4. e \in 0..(Len(name) + 1)
  BY <1>1, <1>2
<1>5. e <= Len(name) => EndsAt(query, name, k, e)
  <2>1. ~(Len(name) + 1 <= Len(name))
    OBVIOUS
  <2> QED BY <1>2, <2>1
<1>6. \A i \in 0..Len(name) : EndsAt(query, name, k, i) => e <= i
  BY <1>2
<1> HIDE DEF T
<1> QED BY <1>3, <1>4, <1>5, <1>6

\* One step of the search, as the code takes it.
FoundNext(query, name, f, k) ==
    IF k = 0 THEN 0
    ELSE Min({i \in (f[k - 1] + 1)..Len(name) : name[i] = query[k]} \cup {Len(name) + 1})

LEMMA FoundNextIs ==
    ASSUME NEW query, NEW name, Len(name) \in Nat, NEW k \in Nat, NEW f,
           k # 0 => f[k - 1] = FirstEnd(query, name, k - 1)
    PROVE  FoundNext(query, name, f, k) = FirstEnd(query, name, k)
<1> DEFINE L == Len(name)
<1>1. CASE k = 0
  <2> DEFINE e == FirstEnd(query, name, 0)
  <2>1. EndsAt(query, name, 0, 0)
    BY EndsAtZero
  <2>2. e \in 0..(L + 1) /\ e <= 0
    <3>1. 0 \in 0..L
      OBVIOUS
    <3> QED BY <2>1, <3>1, FirstEndIs
  <2> HIDE DEF e
  <2>3. e = 0
    BY <2>2
  <2> QED BY <1>1, <2>3 DEF FoundNext, e
<1>2. CASE k # 0
  <2> DEFINE e == FirstEnd(query, name, k - 1)
  <2>1. /\ e \in 0..(L + 1) /\ (e <= L => EndsAt(query, name, k - 1, e))
        /\ \A i \in 0..L : EndsAt(query, name, k - 1, i) => e <= i
    BY FirstEndIs
  <2>2. f[k - 1] = e
    BY <1>2
  <2> HIDE DEF e
  <2>3. ASSUME NEW i \in 0..L
        PROVE  (\E j \in 0..L : j < i /\ EndsAt(query, name, k - 1, j)) <=> e + 1 <= i
    <3>1. ASSUME NEW j \in 0..L, j < i, EndsAt(query, name, k - 1, j) PROVE e + 1 <= i
      BY <2>1, <3>1
    <3>2. ASSUME e + 1 <= i PROVE \E j \in 0..L : j < i /\ EndsAt(query, name, k - 1, j)
      <4>1. e \in 0..L /\ e < i /\ e <= L
        BY <2>1, <3>2
      <4> QED BY <2>1, <4>1
    <3> QED BY <3>1, <3>2
  <2>4. \A i \in 0..L : EndsAt(query, name, k, i) <=> name[i] = query[k] /\ e + 1 <= i
    <3> TAKE i \in 0..L
    <3>1. EndsAt(query, name, k, i)
          <=> name[i] = query[k] /\ \E j \in 0..L : j < i /\ EndsAt(query, name, k - 1, j)
      BY <1>2, EndsAtStep
    <3> QED BY <2>3, <3>1
  <2>5. \A i : i \in (e + 1)..L <=> i \in 0..L /\ e + 1 <= i
    BY <2>1
  <2>6. {i \in (e + 1)..L : name[i] = query[k]} = {i \in 0..L : EndsAt(query, name, k, i)}
    BY <2>4, <2>5
  <2> QED BY <1>2, <2>2, <2>6 DEF FoundNext, FirstEnd
<1> QED BY <1>1, <1>2

\* Typing into the filter finds the names in which the symbols occur in their
\* order, for every filter and name: searching each behind the first place of
\* the one before it misses none (picker.rs:315).
THEOREM FilterFindsEmbedded ==
    ASSUME NEW query, NEW name, Len(query) \in Nat, Len(name) \in Nat
    PROVE  MatchesQuery(query, name) <=> Embeds(query, name)
<1> DEFINE n == Len(query)
           Fits(f) == f = [k \in 0..n |-> FoundNext(query, name, f, k)]
           F == [k \in 0..n |-> FirstEnd(query, name, k)]
           M == CHOOSE f : Fits(f)
<1>1. MatchesQuery(query, name) <=> M[n] <= Len(name)
  BY DEF MatchesQuery, FoundNext
<1>2. Fits(F)
  <2>1. ASSUME NEW k \in 0..n PROVE FoundNext(query, name, F, k) = FirstEnd(query, name, k)
    <3>1. k # 0 => k - 1 \in 0..n
      OBVIOUS
    <3>2. k # 0 => F[k - 1] = FirstEnd(query, name, k - 1)
      BY <3>1
    <3> HIDE DEF F
    <3> QED BY <3>2, FoundNextIs
  <2>2. [k \in 0..n |-> FoundNext(query, name, F, k)] = [k \in 0..n |-> FirstEnd(query, name, k)]
    BY <2>1
  <2> QED BY <2>2
<1>3. Fits(M)
  <2> HIDE DEF Fits, F
  <2> QED BY <1>2
<1>4. \A k \in 0..n : M[k] = FoundNext(query, name, M, k)
  <2> HIDE DEF M
  <2> DEFINE g == [k \in 0..n |-> FoundNext(query, name, M, k)]
  <2>1. \A k \in 0..n : g[k] = FoundNext(query, name, M, k)
    OBVIOUS
  <2>2. M = g
    BY <1>3
  <2> HIDE DEF g
  <2> QED BY <2>1, <2>2
<1> HIDE DEF M
<1> DEFINE T == {k \in 0..n : M[k] # FirstEnd(query, name, k)}
<1>5. T = {}
  <2> SUFFICES ASSUME T # {} PROVE FALSE
    OBVIOUS
  <2>1. T \in SUBSET Nat
    OBVIOUS
  <2>2. PICK k \in T : \A x \in T : k <= x
    <3> HIDE DEF T
    <3> QED BY <2>1, LeastNat
  <2>3. k # 0 => M[k - 1] = FirstEnd(query, name, k - 1)
    <3> SUFFICES ASSUME k # 0 PROVE M[k - 1] = FirstEnd(query, name, k - 1)
      OBVIOUS
    <3>1. k - 1 \in 0..n /\ ~(k <= k - 1)
      OBVIOUS
    <3> QED BY <2>2, <3>1
  <2>4. M[k] = FirstEnd(query, name, k)
    BY <1>4, <2>3, FoundNextIs
  <2> QED BY <2>4
<1>6. M[n] = FirstEnd(query, name, n)
  BY <1>5
<1>7. M[n] <= Len(name) <=> \E i \in 0..Len(name) : EndsAt(query, name, n, i)
  <2> DEFINE e == FirstEnd(query, name, n)
  <2>1. /\ e \in 0..(Len(name) + 1) /\ (e <= Len(name) => EndsAt(query, name, n, e))
        /\ \A i \in 0..Len(name) : EndsAt(query, name, n, i) => e <= i
    BY FirstEndIs
  <2> HIDE DEF e
  <2>2. M[n] = e
    BY <1>6 DEF e
  <2>3. ASSUME e <= Len(name) PROVE \E i \in 0..Len(name) : EndsAt(query, name, n, i)
    <3>1. e \in 0..Len(name)
      BY <2>1, <2>3
    <3> QED BY <2>1, <2>3, <3>1
  <2>4. ASSUME NEW i \in 0..Len(name), EndsAt(query, name, n, i) PROVE e <= Len(name)
    BY <2>1, <2>4
  <2> QED BY <2>2, <2>3, <2>4
<1> QED BY <1>1, <1>7, EndsAtEmbeds
-----------------------------------------------------------------------------
(* The inductive invariant.                                                *)

\* What a picker is: its matches are entries of its directory, and the entry
\* the keys act on, when it is not hidden, is the one that is highlighted.
PickerShape ==
    [slot : Slots, device : Device, cwd : Folder, index : Nat, query : Seq(Symbol),
     matches : Seq(Nat), row : Nat, selected : SUBSET File]
InListing(p) == \A k \in DOMAIN p.matches : p.matches[k] \in DOMAIN FilesOf(p)
ShowsCurrent(p) ==
    /\ p.row \in 0..Len(p.matches)
    /\ Visible(p) => p.row # 0 /\ p.matches[p.row] = p.index
PickerOK(p) == p \in PickerShape /\ InListing(p) /\ ShowsCurrent(p)

\* A hotkey belongs to one device, and the picker to the device of its own.
DevicesOK ==
    /\ devices \in Seq([device : Device, slot : Slots \cup {None}])
    /\ \A i, j \in DOMAIN devices : devices[i].slot = devices[j].slot /\ i # j => devices[i].slot = None
PickerInv ==
    picker # None => PickerOK(picker) /\ InSlot(picker.slot) = {picker.device} /\ send = None

FunctionTypes ==
    /\ task \in [Run -> {"idle", "waiting", "upload", "reply", "cancel", "ended"}]
    /\ token \in [Run -> BOOLEAN] /\ byPeer \in [Run -> BOOLEAN]
    /\ target \in [Run -> Device \cup {None}]
    /\ files \in [Run -> SUBSET File]
    /\ sent \in [Run -> Nat] /\ settled \in [Run -> Nat]
    /\ said \in [Run -> Lines]
    /\ session \in [Run -> {"none", "asked", "refused", "active", "over"}]
    /\ up \in [Run -> {"none", "on", "ok", "err"}]
    /\ saved \in [Run -> SUBSET Nat]
AppTypes ==
    /\ known \in BOOLEAN /\ quit \in BOOLEAN
    /\ keys \in 0..MaxKeys
    /\ send \in Run \cup {None} /\ marking \in Run \cup {None}
    /\ cancels \subseteq Run /\ pressed \subseteq Run /\ dropped \subseteq Run

\* What the task of the send has told the application and not been heard on yet.
Unheard(r) ==
    /\ task[r] = "waiting" => mail = <<>>
    /\ task[r] \in {"upload", "reply", "cancel"} => mail \in {<<>>, <<Event("started", r)>>}
    /\ task[r] = "ended" =>
          mail \in {<<Event("ended", r)>>, <<Event("started", r), Event("ended", r)>>}
    /\ task[r] # "idle"
AppInv ==
    /\ \A r \in Run : task[r] \notin {"idle", "ended"} => send = r
    /\ IF send = None THEN mail = <<>> ELSE Unheard(send)
    /\ quit => send = None /\ marking = None
    /\ marking # None => byPeer[marking]

\* Who cancelled: a mark is the receiver's doing, a token without one is ours.
CancelOK(r) ==
    /\ r \in cancels => r \in dropped
    /\ byPeer[r] => r \in dropped
    /\ token[r] => r \in pressed \/ byPeer[r]
    /\ r \in dropped => session[r] = "over"

\* How far the files are, here and at the receiver.
Done(r) == sent[r] + IF up[r] = "ok" THEN 1 ELSE 0
CountsOK(r) ==
    /\ saved[r] = 1..Done(r)
    /\ task[r] = "waiting" => sent[r] = 0
    /\ task[r] \in {"waiting", "upload", "reply"} => sent[r] < Cardinality(files[r])
    /\ task[r] \in {"waiting", "upload"} => up[r] = "none" /\ settled[r] = sent[r]
    /\ up[r] = "on" => settled[r] = sent[r] /\ sent[r] < Cardinality(files[r])
    /\ up[r] = "ok" => settled[r] = sent[r] + 1 /\ sent[r] < Cardinality(files[r])
    /\ sent[r] <= Cardinality(files[r]) /\ settled[r] <= Cardinality(files[r])
    /\ settled[r] = Cardinality(files[r]) /\ files[r] # {} => session[r] = "over"
    /\ task[r] = "idle" => files[r] = {} /\ sent[r] = 0 /\ settled[r] = 0 /\ up[r] = "none"
                           /\ session[r] = "none"

SaidOK(r) ==
    /\ task[r] \in {"idle", "waiting", "upload", "reply"} => said[r] = "nothing"
    /\ task[r] = "cancel" => said[r] \in {"failed", "cancelled"}
    /\ task[r] = "ended" => said[r] # "nothing"
    /\ task[r] = "ended" /\ said[r] \notin {"declined", "gave up"} => session[r] = "over"
    /\ said[r] = "declined" => session[r] = "refused" /\ up[r] = "none"
    /\ said[r] = "cancelled" => r \in pressed
    /\ said[r] = "cancelled by receiver" => r \in dropped
    /\ said[r] = "sent" => saved[r] = 1..Cardinality(files[r])
    /\ quit /\ session[r] = "active" => said[r] = "gave up"

RunInv(r) == CancelOK(r) /\ CountsOK(r) /\ SaidOK(r)
IInv ==
    /\ DevicesOK /\ PickerInv
    /\ FunctionTypes /\ AppTypes /\ AppInv
    /\ \A r \in Run : RunInv(r)
-----------------------------------------------------------------------------
(* The picker.                                                             *)

LEMMA ListingType ==
    ASSUME NEW d \in Folder
    PROVE  Len(Listing[d]) \in Nat /\ DOMAIN Listing[d] = 1..Len(Listing[d])
<1> QED BY TreeAssumption

LEMMA CursorType ==
    ASSUME NEW p \in PickerShape
    PROVE  /\ Cursor(p) \in 0..Len(p.matches) /\ Len(p.matches) \in Nat
           /\ Cursor(p) # 0 => p.matches[Cursor(p)] = p.index
           /\ OrFirst(Cursor(p)) \in Nat /\ 1 <= OrFirst(Cursor(p))
           /\ p.matches # <<>> => OrFirst(Cursor(p)) <= Len(p.matches) /\ 1 <= Len(p.matches)
<1>1. p.matches \in Seq(Nat) /\ Len(p.matches) \in Nat /\ DOMAIN p.matches = 1..Len(p.matches)
  BY DEF PickerShape
<1>2. p.matches # <<>> => 1 <= Len(p.matches)
  BY <1>1
<1>3. Cursor(p) \in 0..Len(p.matches) /\ (Cursor(p) # 0 => p.matches[Cursor(p)] = p.index)
  <2>1. CASE \E i \in DOMAIN p.matches : p.matches[i] = p.index
    <3>1. Cursor(p) = CHOOSE i \in DOMAIN p.matches : p.matches[i] = p.index
      BY <2>1 DEF Cursor
    <3>2. Cursor(p) \in DOMAIN p.matches /\ p.matches[Cursor(p)] = p.index
      BY <2>1, <3>1
    <3> QED BY <1>1, <3>2
  <2>2. CASE ~\E i \in DOMAIN p.matches : p.matches[i] = p.index
    BY <1>1, <2>2 DEF Cursor
  <2> QED BY <2>1, <2>2
<1> QED BY <1>1, <1>2, <1>3 DEF OrFirst

\* Whatever the filter is, what it shows is a sequence of entries of the listing.
LEMMA MatchingType ==
    ASSUME NEW p, p.cwd \in Folder
    PROVE  /\ Matching(p) \in Seq(Nat)
           /\ \A k \in DOMAIN Matching(p) : Matching(p)[k] \in DOMAIN FilesOf(p)
<1> DEFINE shown == {i \in DOMAIN FilesOf(p) : MatchesQuery(p.query, FilesOf(p)[i].name)}
<1>1. Len(FilesOf(p)) \in Nat /\ DOMAIN FilesOf(p) = 1..Len(FilesOf(p))
  BY ListingType DEF FilesOf
<1>2. shown \in SUBSET (1..Len(FilesOf(p)))
  BY <1>1
<1>3. Cardinality(shown) \in Nat
  <2>1. 1 \in Int /\ Len(FilesOf(p)) \in Int
    BY <1>1
  <2> HIDE DEF shown
  <2> QED BY <1>2, <2>1, FS_Interval, FS_Subset, FS_CardinalityType
<1>4. Matching(p) = [k \in 1..Cardinality(shown) |->
                       CHOOSE i \in shown : Cardinality({j \in shown : j <= i}) = k]
  BY DEF Matching
<1> HIDE DEF shown
<1>5. \A k \in 1..Cardinality(shown) : Matching(p)[k] \in shown
  <2> TAKE k \in 1..Cardinality(shown)
  <2>1. \E i \in shown : Cardinality({j \in shown : j <= i}) = k
    BY <1>1, <1>2, KthElement
  <2> QED BY <1>4, <2>1
<1>6. shown \subseteq DOMAIN FilesOf(p) /\ shown \subseteq Nat
  BY <1>1, <1>2
<1>7. DOMAIN Matching(p) = 1..Cardinality(shown)
  BY <1>4
<1>8. Matching(p) \in [1..Cardinality(shown) -> Nat]
  BY <1>4, <1>5, <1>6
<1>9. Matching(p) \in Seq(Nat)
  BY <1>3, <1>8
<1> QED BY <1>5, <1>6, <1>7, <1>9

\* What the keys do not touch, and all that a new directory and a new
\* filter leave alone.
Keeps(p, q) == q.slot = p.slot /\ q.device = p.device /\ q.selected = p.selected

LEMMA SelectMatchOK ==
    ASSUME NEW p \in PickerShape, InListing(p), p.cwd \in Folder, NEW cursor \in Nat,
           p.matches # <<>> => 1 <= cursor /\ cursor <= Len(p.matches)
    PROVE  /\ PickerOK(SelectMatch(p, cursor)) /\ Keeps(p, SelectMatch(p, cursor))
           /\ SelectMatch(p, cursor).cwd = p.cwd /\ SelectMatch(p, cursor).matches = p.matches
<1>1. p.matches \in Seq(Nat) /\ Len(p.matches) \in Nat /\ DOMAIN p.matches = 1..Len(p.matches)
  BY DEF PickerShape
<1>2. CASE cursor \in DOMAIN p.matches
  <2> DEFINE q == [p EXCEPT !.index = p.matches[cursor], !.row = cursor]
  <2>1. SelectMatch(p, cursor) = q
    BY <1>2 DEF SelectMatch
  <2>2. /\ q \in PickerShape /\ q.cwd = p.cwd /\ q.matches = p.matches /\ Keeps(p, q)
        /\ q.row = cursor /\ q.index = p.matches[cursor]
    <3>1. p.matches[cursor] \in Nat
      BY <1>1, <1>2
    <3> QED BY <3>1 DEF PickerShape, Keeps
  <2> HIDE DEF q
  <2>3. InListing(q)
    BY <2>2 DEF InListing, FilesOf
  <2>4. ShowsCurrent(q)
    BY <1>1, <1>2, <2>2 DEF ShowsCurrent
  <2> QED BY <2>1, <2>2, <2>3, <2>4 DEF PickerOK
<1>3. CASE cursor \notin DOMAIN p.matches
  <2> DEFINE q == [p EXCEPT !.row = 0]
  <2>1. SelectMatch(p, cursor) = q
    BY <1>3 DEF SelectMatch
  <2>2. p.matches = <<>>
    BY <1>1, <1>3
  <2>3. q \in PickerShape /\ q.cwd = p.cwd /\ q.matches = p.matches /\ Keeps(p, q) /\ q.row = 0
    BY DEF PickerShape, Keeps
  <2> HIDE DEF q
  <2>4. InListing(q)
    BY <2>3 DEF InListing, FilesOf
  <2>5. ShowsCurrent(q)
    BY <1>1, <2>2, <2>3 DEF ShowsCurrent, Visible, Cursor
  <2> QED BY <2>1, <2>3, <2>4, <2>5 DEF PickerOK
<1> QED BY <1>2, <1>3

LEMMA RefreshMatchesOK ==
    ASSUME NEW p \in PickerShape
    PROVE  /\ PickerOK(RefreshMatches(p)) /\ Keeps(p, RefreshMatches(p))
           /\ RefreshMatches(p).cwd = p.cwd
<1> DEFINE q == [p EXCEPT !.matches = Matching(p)]
<1>1. p.cwd \in Folder
  BY DEF PickerShape
<1>2. /\ q \in PickerShape /\ q.cwd = p.cwd /\ q.matches = Matching(p) /\ Keeps(p, q)
  BY <1>1, MatchingType DEF PickerShape, Keeps
<1>3. RefreshMatches(p) = SelectMatch(q, OrFirst(Cursor(q)))
  BY DEF RefreshMatches
<1> HIDE DEF q
<1>4. InListing(q)
  BY <1>1, <1>2, MatchingType DEF InListing, FilesOf
<1>5. /\ PickerOK(SelectMatch(q, OrFirst(Cursor(q)))) /\ Keeps(q, SelectMatch(q, OrFirst(Cursor(q))))
      /\ SelectMatch(q, OrFirst(Cursor(q))).cwd = q.cwd
  BY <1>1, <1>2, <1>4, CursorType, SelectMatchOK
<1> QED BY <1>2, <1>3, <1>5 DEF Keeps

LEMMA SelectFirstEntryOK ==
    ASSUME NEW p, PickerOK(p)
    PROVE  /\ PickerOK(SelectFirstEntry(p)) /\ Keeps(p, SelectFirstEntry(p))
           /\ SelectFirstEntry(p).cwd = p.cwd
<1> DEFINE cursor == IF Parent[p.cwd] # p.cwd /\ Len(p.matches) > 1 THEN 2 ELSE 1
<1>1. p \in PickerShape /\ InListing(p) /\ p.cwd \in Folder
  BY DEF PickerOK, PickerShape
<1>2. cursor \in Nat /\ (p.matches # <<>> => 1 <= cursor /\ cursor <= Len(p.matches))
  BY <1>1, CursorType
<1>3. SelectFirstEntry(p) = SelectMatch(p, cursor)
  BY DEF SelectFirstEntry
<1> HIDE DEF cursor
<1> QED BY <1>1, <1>2, <1>3, SelectMatchOK

LEMMA OpenPickerOK ==
    ASSUME NEW slot \in Slots, NEW device \in Device
    PROVE  /\ PickerOK(OpenPicker(slot, device))
           /\ OpenPicker(slot, device).slot = slot /\ OpenPicker(slot, device).device = device
<1> DEFINE p == [slot |-> slot, device |-> device, cwd |-> Home, index |-> 1, query |-> <<>>,
                 matches |-> <<>>, row |-> 0, selected |-> {}]
<1>1. p \in PickerShape /\ p.slot = slot /\ p.device = device
  BY TreeAssumption DEF PickerShape
<1>2. OpenPicker(slot, device) = SelectFirstEntry(RefreshMatches(p))
  BY DEF OpenPicker
<1> HIDE DEF p
<1> QED BY <1>1, <1>2, RefreshMatchesOK, SelectFirstEntryOK DEF Keeps

LEMMA NavigateOK ==
    ASSUME NEW p, PickerOK(p), NEW dir \in Folder
    PROVE  PickerOK(Navigate(p, dir)) /\ Keeps(p, Navigate(p, dir)) /\ Navigate(p, dir).cwd = dir
<1>1. CASE dir = p.cwd
  BY <1>1 DEF Navigate, Keeps
<1>2. CASE dir # p.cwd
  <2> DEFINE q == [p EXCEPT !.cwd = dir, !.index = 1, !.query = <<>>]
  <2>1. q \in PickerShape /\ q.cwd = dir /\ Keeps(p, q)
    <3>1. 1 \in Nat /\ <<>> \in Seq(Symbol)
      OBVIOUS
    <3>2. p \in PickerShape
      BY DEF PickerOK
    <3> QED BY <3>1, <3>2 DEF PickerShape, Keeps
  <2>2. Navigate(p, dir) = SelectFirstEntry(RefreshMatches(q))
    BY <1>2 DEF Navigate
  <2> HIDE DEF q
  <2> QED BY <2>1, <2>2, RefreshMatchesOK, SelectFirstEntryOK DEF Keeps
<1> QED BY <1>1, <1>2

\* The current entry, when it is shown, is the highlighted one, and it is one
\* of the listing.
LEMMA CurrentShown ==
    ASSUME NEW p, PickerOK(p), Visible(p)
    PROVE  /\ Current(p) = Highlighted(p)
           /\ IsDir(Current(p)) => Current(p).dir \in Folder
           /\ ~IsDir(Current(p)) => Current(p).file \in File
<1>1. p \in PickerShape /\ p.cwd \in Folder
  BY DEF PickerOK, PickerShape
<1>2. p.row # 0 /\ p.row \in 1..Len(p.matches) /\ p.matches[p.row] = p.index
  BY <1>1, CursorType DEF PickerOK, ShowsCurrent
<1>3. p.row \in DOMAIN p.matches
  BY <1>1, <1>2 DEF PickerShape
<1>4. p.index \in DOMAIN Listing[p.cwd]
  BY <1>2, <1>3 DEF PickerOK, InListing, FilesOf
<1>5. Current(p) = Listing[p.cwd][p.index] /\ Current(p) = Highlighted(p)
  BY <1>2 DEF Current, Highlighted, FilesOf
<1> QED BY <1>1, <1>4, <1>5, TreeAssumption, ConstantsAssumption

LEMMA MovedOK ==
    ASSUME NEW p, PickerOK(p), NEW q \in Moved(p)
    PROVE  PickerOK(q) /\ Keeps(p, q) /\ q.cwd = p.cwd
<1> DEFINE c == Cursor(p)
           n == Len(p.matches)
<1>1. p \in PickerShape /\ InListing(p) /\ p.cwd \in Folder
  BY DEF PickerOK, PickerShape
<1>2. /\ n \in Nat /\ c \in Nat /\ c <= n /\ ScrollCount \in Nat
      /\ p.matches # <<>> => 1 <= n
      /\ OrFirst(c) = IF c = 0 THEN 1 ELSE c
  BY <1>1, CursorType, TreeAssumption DEF OrFirst
<1> HIDE DEF c, n
<1>3. ASSUME NEW k, p.matches # <<>> => k \in Nat /\ 1 <= k /\ k <= n
      PROVE  PickerOK(MoveTo(p, k)) /\ Keeps(p, MoveTo(p, k)) /\ MoveTo(p, k).cwd = p.cwd
  <2>1. CASE p.matches = <<>>
    BY <2>1 DEF MoveTo, Keeps
  <2>2. CASE p.matches # <<>>
    BY <1>1, <1>3, <2>2, SelectMatchOK DEF MoveTo, n
  <2> QED BY <2>1, <2>2
<1>4. PickerOK(Up(p)) /\ Keeps(p, Up(p)) /\ Up(p).cwd = p.cwd
  <2> DEFINE k == IF OrFirst(c) = 1 THEN n ELSE c - 1
  <2>1. p.matches # <<>> => k \in Nat /\ 1 <= k /\ k <= n
    BY <1>2
  <2>2. Up(p) = MoveTo(p, k)
    BY DEF Up, c, n
  <2> HIDE DEF k
  <2> QED BY <1>3, <2>1, <2>2
<1>5. PickerOK(Down(p)) /\ Keeps(p, Down(p)) /\ Down(p).cwd = p.cwd
  <2> DEFINE k == IF OrFirst(c) = n THEN 1 ELSE OrFirst(c) + 1
  <2>1. p.matches # <<>> => k \in Nat /\ 1 <= k /\ k <= n
    BY <1>2
  <2>2. Down(p) = MoveTo(p, k)
    BY DEF Down, c, n
  <2> HIDE DEF k
  <2> QED BY <1>3, <2>1, <2>2
<1>6. PickerOK(PageUp(p)) /\ Keeps(p, PageUp(p)) /\ PageUp(p).cwd = p.cwd
  <2> DEFINE k == IF c > ScrollCount THEN c - ScrollCount ELSE 1
  <2>1. p.matches # <<>> => k \in Nat /\ 1 <= k /\ k <= n
    BY <1>2
  <2>2. PageUp(p) = MoveTo(p, k)
    BY DEF PageUp, c
  <2> HIDE DEF k
  <2> QED BY <1>3, <2>1, <2>2
<1>7. PickerOK(PageDown(p)) /\ Keeps(p, PageDown(p)) /\ PageDown(p).cwd = p.cwd
  <2> DEFINE k == IF OrFirst(c) + ScrollCount > n THEN n ELSE OrFirst(c) + ScrollCount
  <2>1. p.matches # <<>> => k \in Nat /\ 1 <= k /\ k <= n
    BY <1>2
  <2>2. PageDown(p) = MoveTo(p, k)
    BY DEF PageDown, c, n
  <2> HIDE DEF k
  <2> QED BY <1>3, <2>1, <2>2
<1>8. ASSUME NEW k \in {1, n}
      PROVE  /\ PickerOK(SelectMatch(p, k)) /\ Keeps(p, SelectMatch(p, k))
             /\ SelectMatch(p, k).cwd = p.cwd
  <2>1. k \in Nat /\ (p.matches # <<>> => 1 <= k /\ k <= n)
    BY <1>2
  <2> QED BY <1>1, <2>1, SelectMatchOK DEF n
<1>9. q \in {Up(p), Down(p), PageUp(p), PageDown(p), SelectMatch(p, 1), SelectMatch(p, n)}
  BY DEF Moved, n
<1> QED BY <1>4, <1>5, <1>6, <1>7, <1>8, <1>9

LEMMA FilteredOK ==
    ASSUME NEW p, PickerOK(p), NEW q \in Filtered(p)
    PROVE  PickerOK(q) /\ Keeps(p, q) /\ q.cwd = p.cwd
<1>1. PICK query \in Typed(p) \cup Erased(p) \cup Cleared(p) :
         q = RefreshMatches([p EXCEPT !.query = query])
  BY DEF Filtered
<1>2. p \in PickerShape /\ p.query \in Seq(Symbol)
  BY DEF PickerOK, PickerShape
<1>3. query \in Seq(Symbol)
  <2>1. CASE query \in Typed(p)
    <3>1. PICK c \in Symbol : query = Append(p.query, c)
      BY <2>1 DEF Typed
    <3> QED BY <1>2, <3>1
  <2>2. CASE query \in Erased(p)
    <3>1. p.query # <<>> /\ query = SubSeq(p.query, 1, Len(p.query) - 1)
      BY <2>2 DEF Erased
    <3>2. Len(p.query) \in Nat /\ Len(p.query) - 1 \in Nat /\ Len(p.query) - 1 <= Len(p.query)
      BY <1>2, <3>1
    <3>3. \A i \in 1..(Len(p.query) - 1) : p.query[i] \in Symbol
      BY <1>2, <3>2
    <3> QED BY <3>1, <3>2, <3>3
  <2>3. CASE query \in Cleared(p)
    <3>1. query = <<>>
      BY <2>3 DEF Cleared
    <3> QED BY <3>1
  <2> QED BY <2>1, <2>2, <2>3
<1> DEFINE r == [p EXCEPT !.query = query]
<1>4. r \in PickerShape /\ r.cwd = p.cwd /\ Keeps(p, r)
  BY <1>2, <1>3 DEF PickerShape, Keeps
<1>5. q = RefreshMatches(r)
  BY <1>1
<1> HIDE DEF r
<1> QED BY <1>4, <1>5, RefreshMatchesOK DEF Keeps

LEMMA NavigatedOK ==
    ASSUME NEW p, PickerOK(p), NEW q \in Navigated(p)
    PROVE  /\ PickerOK(q) /\ Keeps(p, q)
           /\ q.cwd = Parent[p.cwd] \/ q.cwd = Highlighted(p).dir
<1>1. CASE q = Navigate(p, Parent[p.cwd])
  <2>1. Parent[p.cwd] \in Folder
    BY TreeAssumption DEF PickerOK, PickerShape
  <2> QED BY <1>1, <2>1, NavigateOK
<1>2. CASE Visible(p) /\ IsDir(Current(p)) /\ q = Navigate(p, Current(p).dir)
  <2>1. Current(p).dir \in Folder /\ Current(p) = Highlighted(p)
    BY <1>2, CurrentShown
  <2> QED BY <1>2, <2>1, NavigateOK
<1> QED BY <1>1, <1>2 DEF Navigated

LEMMA ToggledOK ==
    ASSUME NEW p, PickerOK(p), NEW q \in Toggled(p)
    PROVE  /\ PickerOK(q) /\ q.slot = p.slot /\ q.device = p.device /\ q.cwd = p.cwd
           /\ \/ q.selected = p.selected \cup {Highlighted(p).file}
              \/ q.selected = p.selected \ {Highlighted(p).file}
<1> DEFINE f == Current(p).file
           chosen == IF f \in p.selected THEN p.selected \ {f} ELSE p.selected \cup {f}
<1>1. Visible(p) /\ ~IsDir(Current(p)) /\ q = [p EXCEPT !.selected = chosen]
  BY DEF Toggled
<1>2. f \in File /\ f = Highlighted(p).file
  BY <1>1, CurrentShown
<1>3. p \in PickerShape /\ p.selected \in SUBSET File
  BY DEF PickerOK, PickerShape
<1>4. chosen \in SUBSET File /\ (chosen = p.selected \cup {f} \/ chosen = p.selected \ {f})
  BY <1>2, <1>3
<1> HIDE DEF chosen, f
<1>5. /\ q \in PickerShape /\ q.cwd = p.cwd /\ q.slot = p.slot /\ q.device = p.device
      /\ q.selected = chosen /\ q.matches = p.matches /\ q.row = p.row /\ q.index = p.index
  BY <1>1, <1>3, <1>4 DEF PickerShape
<1>6. InListing(q) /\ ShowsCurrent(q)
  BY <1>5 DEF PickerOK, InListing, FilesOf, ShowsCurrent, Visible, Cursor
<1> QED BY <1>2, <1>4, <1>5, <1>6 DEF PickerOK

\* Whatever is confirmed is files of this device.
LEMMA PickedOK ==
    ASSUME NEW p, PickerOK(p), Confirms(p)
    PROVE  /\ Picked(p) \subseteq File
           /\ Picked(p) \subseteq IF p.selected # {} THEN p.selected ELSE {Highlighted(p).file}
<1>1. p.selected \in SUBSET File
  BY DEF PickerOK, PickerShape
<1>2. CASE p.selected # {}
  BY <1>1, <1>2 DEF Picked
<1>3. CASE p.selected = {}
  <2>1. Visible(p) /\ ~IsDir(Current(p))
    BY <1>3 DEF Confirms
  <2> QED BY <1>3, <2>1, CurrentShown DEF Picked
<1> QED BY <1>2, <1>3
-----------------------------------------------------------------------------
(* The steps, one by one.                                                  *)

LEMMA FilesCount ==
    ASSUME NEW S \in SUBSET File
    PROVE  Cardinality(S) \in Nat /\ (Cardinality(S) = 0 <=> S = {})
<1>1. IsFiniteSet(S)
  BY ConstantsAssumption, FS_Subset
<1> QED BY <1>1, FS_CardinalityType, FS_EmptySet

\* The devices and the picker are the application's.
LEMMA PickerFrame ==
    ASSUME DevicesOK, PickerInv, UNCHANGED <<devices, picker>>, picker # None => send' = send
    PROVE  DevicesOK' /\ PickerInv'
  BY DEF DevicesOK, PickerInv, InSlot

\* Nothing of the run has changed.
SameRun(x) ==
    /\ task'[x] = task[x] /\ token'[x] = token[x] /\ byPeer'[x] = byPeer[x]
    /\ files'[x] = files[x] /\ sent'[x] = sent[x] /\ said'[x] = said[x]
    /\ session'[x] = session[x] /\ up'[x] = up[x] /\ settled'[x] = settled[x]
    /\ saved'[x] = saved[x]
    /\ (x \in cancels' <=> x \in cancels) /\ (x \in dropped' <=> x \in dropped)
    /\ (x \in pressed' <=> x \in pressed)

LEMMA RunFrame ==
    ASSUME NEW x \in Run, RunInv(x), SameRun(x), quit' = quit
    PROVE  RunInv(x)'
<1>1. CancelOK(x)'
  BY DEF RunInv, CancelOK, SameRun
<1>2. CountsOK(x)'
  BY DEF RunInv, CountsOK, Done, SameRun
<1>3. SaidOK(x)'
  BY DEF RunInv, SaidOK, SameRun
<1> QED BY <1>1, <1>2, <1>3 DEF RunInv

LEMMA AppendTwo == ASSUME NEW a, NEW b PROVE Append(<<a>>, b) = <<a, b>> /\ Append(<<>>, b) = <<b>>
<1>1. <<a>> \in Seq({a, b}) /\ <<>> \in Seq({a, b}) /\ <<a, b>> \in Seq({a, b}) /\ <<b>> \in Seq({a, b})
  OBVIOUS
<1>2. Append(<<>>, b) = <<b>>
  BY <1>1
<1>3. Append(<<a>>, b) = <<a, b>>
  <2> DEFINE s == <<a>>
             t == <<a, b>>
  <2>1. s \in Seq({a, b}) /\ Len(s) = 1 /\ s[1] = a /\ t \in Seq({a, b}) /\ Len(t) = 2 /\ t[1] = a /\ t[2] = b
    BY <1>1
  <2> HIDE DEF s, t
  <2>2. /\ Append(s, b) \in Seq({a, b}) /\ Len(Append(s, b)) = 2
        /\ Append(s, b)[1] = a /\ Append(s, b)[2] = b
    <3> DEFINE M == {a, b}
    <3>1. s \in Seq(M) /\ b \in M /\ Len(s) = 1 /\ s[1] = a
      BY <2>1
    <3> HIDE DEF M
    <3>2. Append(s, b) \in Seq(M) /\ Len(Append(s, b)) = 2
      BY <3>1
    <3>3. Append(s, b)[1] = a
      BY <3>1
    <3>4. Append(s, b)[2] = b
      <4>1. Append(s, b)[Len(s) + 1] = b
        BY <3>1, AppendProperties
      <4>2. Len(s) + 1 = 2
        BY <3>1
      <4> QED BY <4>1, <4>2
    <3> QED BY <3>2, <3>3, <3>4 DEF M
  <2>3. Append(s, b) = t
    BY <2>1, <2>2
  <2> QED BY <2>3 DEF s, t
<1> QED BY <1>2, <1>3

\* The last word is behind the others.
LEMMA EndsMail ==
    ASSUME NEW r \in Run, NEW line, AppInv, AppTypes, FunctionTypes, task[r] \notin {"idle", "ended"},
           Ends(r, line), UNCHANGED <<send, quit, marking, byPeer>>
    PROVE  AppInv'
<1>1. send = r /\ send # None /\ send' = r
  BY ConstantsAssumption DEF AppInv
<1>2. mail \in {<<>>, <<Event("started", r)>>}
  BY <1>1 DEF AppInv, Unheard, FunctionTypes
<1>3. mail' = Append(mail, Event("ended", r))
  BY DEF Ends
<1>4. mail' \in {<<Event("ended", r)>>, <<Event("started", r), Event("ended", r)>>}
  <2> DEFINE e == Event("ended", r)
             b == Event("started", r)
  <2> HIDE DEF e, b
  <2>1. mail' = Append(mail, e) /\ mail \in {<<>>, <<b>>}
    BY <1>2, <1>3 DEF e, b
  <2>2. mail' \in {<<e>>, <<b, e>>}
    BY <2>1, AppendTwo
  <2> QED BY <2>2 DEF e, b
<1>5. task'[r] = "ended" /\ \A x \in Run : x # r => task'[x] = task[x]
  BY DEF Ends, FunctionTypes
<1>6. Unheard(r)'
  BY <1>4, <1>5 DEF Unheard, Event
<1>7. \A x \in Run : task'[x] \notin {"idle", "ended"} => send' = x
  BY <1>5 DEF AppInv
<1> QED BY <1>1, <1>6, <1>7 DEF AppInv

LEMMA PreparedInv ==
    ASSUME IInv, NEW r \in Run, Prepared(r)
    PROVE  IInv'
<1>1. FunctionTypes /\ AppTypes /\ AppInv /\ RunInv(r)
  BY DEF IInv
<1>2. FunctionTypes'
  BY <1>1 DEF FunctionTypes, Lines, Prepared, taskVars, offerVars, appVars, cancelVars, receiverVars, Ends
<1>3. AppTypes'
  BY <1>1 DEF AppTypes, FunctionTypes, Prepared, taskVars, offerVars, appVars, cancelVars, receiverVars, Ends
<1>4. AppInv'
  <2>1. CASE session[r] = "refused" /\ Ends(r, "declined")
    BY <1>1, <2>1, EndsMail DEF Prepared, appVars, cancelVars
  <2>2. CASE task' = [task EXCEPT ![r] = "upload"] /\ mail' = Append(mail, Event("started", r))
    <3>1. send = r /\ send # None /\ mail = <<>> /\ mail' = <<Event("started", r)>>
      BY <1>1, <2>2, AppendTwo, ConstantsAssumption DEF AppInv, Unheard, Prepared
    <3> QED BY <1>1, <2>2, <3>1 DEF AppInv, Unheard, FunctionTypes, Prepared, appVars, cancelVars
  <2> QED BY <2>1, <2>2 DEF Prepared
<1>5. CancelOK(r)'
  BY <1>1 DEF RunInv, CancelOK, AppInv, AppTypes, FunctionTypes, Prepared, taskVars, offerVars, appVars, cancelVars, receiverVars, Ends
<1>6. CountsOK(r)'
  BY <1>1, FilesCount DEF RunInv, CountsOK, SaidOK, Done, AppInv, FunctionTypes, Prepared, taskVars, offerVars, appVars, cancelVars, receiverVars, Ends
<1>7. SaidOK(r)'
  BY <1>1 DEF RunInv, SaidOK, CancelOK, CountsOK, Done, AppInv, FunctionTypes, Lines, Prepared, taskVars, offerVars, appVars, cancelVars, receiverVars, Ends
<1>8. \A x \in Run : x # r => SameRun(x)
  BY <1>1 DEF SameRun, FunctionTypes, AppTypes, Prepared, taskVars, offerVars, appVars, cancelVars, receiverVars, Ends
<1>9. \A x \in Run : RunInv(x)'
  <2>1. quit' = quit
    BY DEF Prepared, taskVars, offerVars, appVars, cancelVars, receiverVars, Ends
  <2> QED BY <1>5, <1>6, <1>7, <1>8, <2>1, RunFrame DEF IInv, RunInv
<1>10. DevicesOK' /\ PickerInv'
  BY PickerFrame DEF IInv, Prepared, taskVars, offerVars, appVars, cancelVars, receiverVars, Ends
<1> QED BY <1>2, <1>3, <1>4, <1>9, <1>10 DEF IInv

LEMMA CancelPrepareInv ==
    ASSUME IInv, NEW r \in Run, CancelPrepare(r)
    PROVE  IInv'
<1>1. FunctionTypes /\ AppTypes /\ AppInv /\ RunInv(r)
  BY DEF IInv
<1>2. FunctionTypes'
  BY <1>1 DEF FunctionTypes, Lines, CancelPrepare, taskVars, offerVars, appVars, cancelVars, receiverVars, Ends
<1>3. AppTypes'
  BY <1>1 DEF AppTypes, FunctionTypes, CancelPrepare, taskVars, offerVars, appVars, cancelVars, receiverVars, Ends
<1>4. AppInv'
  BY <1>1, EndsMail DEF CancelPrepare, appVars, cancelVars
<1>5. CancelOK(r)'
  BY <1>1 DEF RunInv, CancelOK, AppInv, AppTypes, FunctionTypes, CancelPrepare, taskVars, offerVars, appVars, cancelVars, receiverVars, Ends
<1>6. CountsOK(r)'
  BY <1>1, FilesCount DEF RunInv, CountsOK, SaidOK, Done, AppInv, FunctionTypes, CancelPrepare, taskVars, offerVars, appVars, cancelVars, receiverVars, Ends
<1>7. SaidOK(r)'
  BY <1>1 DEF RunInv, SaidOK, CancelOK, CountsOK, Done, AppInv, FunctionTypes, Lines, CancelPrepare, taskVars, offerVars, appVars, cancelVars, receiverVars, Ends
<1>8. \A x \in Run : x # r => SameRun(x)
  BY <1>1 DEF SameRun, FunctionTypes, AppTypes, CancelPrepare, taskVars, offerVars, appVars, cancelVars, receiverVars, Ends
<1>9. \A x \in Run : RunInv(x)'
  <2>1. quit' = quit
    BY DEF CancelPrepare, taskVars, offerVars, appVars, cancelVars, receiverVars, Ends
  <2> QED BY <1>5, <1>6, <1>7, <1>8, <2>1, RunFrame DEF IInv, RunInv
<1>10. DevicesOK' /\ PickerInv'
  BY PickerFrame DEF IInv, CancelPrepare, taskVars, offerVars, appVars, cancelVars, receiverVars, Ends
<1> QED BY <1>2, <1>3, <1>4, <1>9, <1>10 DEF IInv

LEMMA UploadInv ==
    ASSUME IInv, NEW r \in Run, Upload(r)
    PROVE  IInv'
<1>1. FunctionTypes /\ AppTypes /\ AppInv /\ RunInv(r)
  BY DEF IInv
<1>2. FunctionTypes'
  BY <1>1 DEF FunctionTypes, Lines, Upload, taskVars, offerVars, appVars, cancelVars, receiverVars
<1>3. AppTypes'
  BY <1>1 DEF AppTypes, FunctionTypes, Upload, taskVars, offerVars, appVars, cancelVars, receiverVars
<1>4. AppInv'
  BY <1>1 DEF AppInv, Unheard, AppTypes, FunctionTypes, Event, Upload, taskVars, offerVars, appVars, cancelVars, receiverVars
<1>5. CancelOK(r)'
  BY <1>1 DEF RunInv, CancelOK, AppInv, AppTypes, FunctionTypes, Upload, taskVars, offerVars, appVars, cancelVars, receiverVars
<1>6. CountsOK(r)'
  BY <1>1, FilesCount DEF RunInv, CountsOK, SaidOK, Done, AppInv, FunctionTypes, Upload, taskVars, offerVars, appVars, cancelVars, receiverVars
<1>7. SaidOK(r)'
  BY <1>1 DEF RunInv, SaidOK, CancelOK, CountsOK, Done, AppInv, FunctionTypes, Lines, Upload, taskVars, offerVars, appVars, cancelVars, receiverVars
<1>8. \A x \in Run : x # r => SameRun(x)
  BY <1>1 DEF SameRun, FunctionTypes, AppTypes, Upload, taskVars, offerVars, appVars, cancelVars, receiverVars
<1>9. \A x \in Run : RunInv(x)'
  <2>1. quit' = quit
    BY DEF Upload, taskVars, offerVars, appVars, cancelVars, receiverVars
  <2> QED BY <1>5, <1>6, <1>7, <1>8, <2>1, RunFrame DEF IInv, RunInv
<1>10. DevicesOK' /\ PickerInv'
  BY PickerFrame DEF IInv, Upload, taskVars, offerVars, appVars, cancelVars, receiverVars
<1> QED BY <1>2, <1>3, <1>4, <1>9, <1>10 DEF IInv

LEMMA UploadedInv ==
    ASSUME IInv, NEW r \in Run, Uploaded(r)
    PROVE  IInv'
<1>1. FunctionTypes /\ AppTypes /\ AppInv /\ RunInv(r)
  BY DEF IInv
<1>2. FunctionTypes'
  <2>1. sent' \in [Run -> Nat] /\ up' \in [Run -> {"none", "on", "ok", "err"}]
    BY <1>1 DEF FunctionTypes, Uploaded
  <2>2. CASE Ends(r, "sent")
    BY <1>1, <2>1, <2>2 DEF FunctionTypes, Lines, Uploaded, Ends, offerVars, cancelVars
  <2>3. CASE task' = [task EXCEPT ![r] = "upload"] /\ UNCHANGED said
    BY <1>1, <2>1, <2>3 DEF FunctionTypes, Uploaded, offerVars, cancelVars
  <2> QED BY <2>2, <2>3 DEF Uploaded
<1>3. AppTypes'
  BY <1>1 DEF AppTypes, FunctionTypes, Uploaded, taskVars, offerVars, appVars, cancelVars, receiverVars, Ends, IsOk
<1>4. AppInv'
  <2>1. CASE Ends(r, "sent")
    BY <1>1, <2>1, EndsMail DEF Uploaded, appVars, cancelVars
  <2>2. CASE task' = [task EXCEPT ![r] = "upload"] /\ UNCHANGED mail
    BY <1>1, <2>2 DEF AppInv, Unheard, FunctionTypes, Uploaded, appVars, cancelVars
  <2> QED BY <2>1, <2>2 DEF Uploaded
<1>5. CancelOK(r)'
  BY <1>1 DEF RunInv, CancelOK, AppInv, AppTypes, FunctionTypes, Uploaded, taskVars, offerVars, appVars, cancelVars, receiverVars, Ends, IsOk
<1>6. CountsOK(r)'
  BY <1>1, FilesCount DEF RunInv, CountsOK, SaidOK, Done, AppInv, FunctionTypes, Uploaded, taskVars, offerVars, appVars, cancelVars, receiverVars, Ends, IsOk
<1>7. SaidOK(r)'
  <2>1. /\ sent'[r] = sent[r] + 1 /\ saved'[r] = 1..(sent[r] + 1) /\ task[r] = "reply"
        /\ files'[r] = files[r] /\ session' = session /\ pressed' = pressed /\ dropped' = dropped
        /\ quit' = quit
    BY <1>1 DEF RunInv, CountsOK, Done, FunctionTypes, Uploaded, IsOk, offerVars, appVars
  <2>2. CASE sent'[r] = Cardinality(files[r]) /\ Ends(r, "sent")
    <3>1. task'[r] = "ended" /\ said'[r] = "sent"
      BY <1>1, <2>2 DEF Ends, FunctionTypes
    <3>2. session[r] = "over"
      <4>1. settled[r] = Cardinality(files[r]) /\ sent[r] < Cardinality(files[r])
        BY <2>1, <2>2, <1>1 DEF RunInv, CountsOK, Uploaded, IsOk
      <4>2. files[r] # {}
        BY <1>1, <4>1, FilesCount DEF FunctionTypes
      <4> QED BY <1>1, <4>1, <4>2 DEF RunInv, CountsOK
    <3> QED BY <2>1, <2>2, <3>1, <3>2 DEF SaidOK
  <2>3. CASE task' = [task EXCEPT ![r] = "upload"] /\ UNCHANGED said
    <3>1. task'[r] = "upload" /\ said'[r] = "nothing" /\ said[r] = "nothing"
      BY <1>1, <2>1, <2>3 DEF FunctionTypes, RunInv, SaidOK
    <3> QED BY <1>1, <2>1, <3>1 DEF RunInv, SaidOK
  <2> QED BY <2>2, <2>3 DEF Uploaded
<1>8. \A x \in Run : x # r => SameRun(x)
  BY <1>1 DEF SameRun, FunctionTypes, AppTypes, Uploaded, taskVars, offerVars, appVars, cancelVars, receiverVars, Ends, IsOk
<1>9. \A x \in Run : RunInv(x)'
  <2>1. quit' = quit
    BY DEF Uploaded, taskVars, offerVars, appVars, cancelVars, receiverVars, Ends, IsOk
  <2> QED BY <1>5, <1>6, <1>7, <1>8, <2>1, RunFrame DEF IInv, RunInv
<1>10. DevicesOK' /\ PickerInv'
  BY PickerFrame DEF IInv, Uploaded, taskVars, offerVars, appVars, cancelVars, receiverVars, Ends, IsOk
<1> QED BY <1>2, <1>3, <1>4, <1>9, <1>10 DEF IInv

LEMMA UploadFailedInv ==
    ASSUME IInv, NEW r \in Run, UploadFailed(r)
    PROVE  IInv'
<1>1. FunctionTypes /\ AppTypes /\ AppInv /\ RunInv(r)
  BY DEF IInv
<1>2. FunctionTypes'
  BY <1>1 DEF FunctionTypes, Lines, UploadFailed, taskVars, offerVars, appVars, cancelVars, receiverVars, FailsUpload, TellsFirst
<1>3. AppTypes'
  BY <1>1 DEF AppTypes, FunctionTypes, UploadFailed, taskVars, offerVars, appVars, cancelVars, receiverVars, FailsUpload, TellsFirst
<1>4. AppInv'
  BY <1>1 DEF AppInv, Unheard, AppTypes, FunctionTypes, Event, UploadFailed, taskVars, offerVars, appVars, cancelVars, receiverVars, FailsUpload, TellsFirst
<1>5. CancelOK(r)'
  BY <1>1 DEF RunInv, CancelOK, AppInv, AppTypes, FunctionTypes, UploadFailed, taskVars, offerVars, appVars, cancelVars, receiverVars, FailsUpload, TellsFirst
<1>6. CountsOK(r)'
  BY <1>1, FilesCount DEF RunInv, CountsOK, SaidOK, Done, AppInv, FunctionTypes, UploadFailed, taskVars, offerVars, appVars, cancelVars, receiverVars, FailsUpload, TellsFirst
<1>7. SaidOK(r)'
  BY <1>1 DEF RunInv, SaidOK, CancelOK, CountsOK, Done, AppInv, FunctionTypes, Lines, UploadFailed, taskVars, offerVars, appVars, cancelVars, receiverVars, FailsUpload, TellsFirst
<1>8. \A x \in Run : x # r => SameRun(x)
  BY <1>1 DEF SameRun, FunctionTypes, AppTypes, UploadFailed, taskVars, offerVars, appVars, cancelVars, receiverVars, FailsUpload, TellsFirst
<1>9. \A x \in Run : RunInv(x)'
  <2>1. quit' = quit
    BY DEF UploadFailed, taskVars, offerVars, appVars, cancelVars, receiverVars, FailsUpload, TellsFirst
  <2> QED BY <1>5, <1>6, <1>7, <1>8, <2>1, RunFrame DEF IInv, RunInv
<1>10. DevicesOK' /\ PickerInv'
  BY PickerFrame DEF IInv, UploadFailed, taskVars, offerVars, appVars, cancelVars, receiverVars, FailsUpload, TellsFirst
<1> QED BY <1>2, <1>3, <1>4, <1>9, <1>10 DEF IInv

LEMMA CancelUploadInv ==
    ASSUME IInv, NEW r \in Run, CancelUpload(r)
    PROVE  IInv'
<1>1. FunctionTypes /\ AppTypes /\ AppInv /\ RunInv(r)
  BY DEF IInv
<1>2. FunctionTypes'
  BY <1>1 DEF FunctionTypes, Lines, CancelUpload, taskVars, offerVars, appVars, cancelVars, receiverVars, Ends, TellsFirst
<1>3. AppTypes'
  BY <1>1 DEF AppTypes, FunctionTypes, CancelUpload, taskVars, offerVars, appVars, cancelVars, receiverVars, Ends, TellsFirst
<1>4. AppInv'
  <2>1. CASE byPeer[r]
    BY <1>1, <2>1, EndsMail DEF CancelUpload, appVars, cancelVars
  <2>2. CASE ~byPeer[r]
    BY <1>1, <2>2 DEF AppInv, Unheard, FunctionTypes, CancelUpload, TellsFirst, appVars, cancelVars
  <2> QED BY <2>1, <2>2
<1>5. /\ task[r] \in {"upload", "reply"} /\ token[r]
      /\ IF byPeer[r] THEN task'[r] = "ended" /\ said'[r] = "cancelled by receiver"
                      ELSE task'[r] = "cancel" /\ said'[r] = "cancelled"
      /\ files'[r] = files[r] /\ sent'[r] = sent[r] /\ session'[r] = session[r] /\ up'[r] = up[r]
      /\ settled'[r] = settled[r] /\ saved'[r] = saved[r]
      /\ token'[r] = token[r] /\ byPeer'[r] = byPeer[r]
      /\ cancels' = cancels /\ dropped' = dropped /\ pressed' = pressed /\ quit' = quit
  BY <1>1 DEF FunctionTypes, CancelUpload, taskVars, offerVars, appVars, cancelVars, receiverVars, Ends, TellsFirst
<1>6. CancelOK(r)'
  BY <1>1, <1>5 DEF RunInv, CancelOK
<1>7. CountsOK(r)' /\ SaidOK(r)'
  <2>1. CountsOK(r)'
    BY <1>1, <1>5 DEF RunInv, CountsOK, Done
  <2>2. SaidOK(r)'
    BY <1>1, <1>5 DEF RunInv, SaidOK, CancelOK
  <2> QED BY <2>1, <2>2
<1>8. \A x \in Run : x # r => SameRun(x)
  BY <1>1 DEF SameRun, FunctionTypes, AppTypes, CancelUpload, taskVars, offerVars, appVars, cancelVars, receiverVars, Ends, TellsFirst
<1>9. \A x \in Run : RunInv(x)'
  <2>1. quit' = quit
    BY DEF CancelUpload, taskVars, offerVars, appVars, cancelVars, receiverVars, Ends, TellsFirst
  <2> QED BY <1>5, <1>6, <1>7, <1>8, <2>1, RunFrame DEF IInv, RunInv
<1>10. DevicesOK' /\ PickerInv'
  BY PickerFrame DEF IInv, CancelUpload, taskVars, offerVars, appVars, cancelVars, receiverVars, Ends, TellsFirst
<1> QED BY <1>2, <1>3, <1>4, <1>9, <1>10 DEF IInv

LEMMA TellReceiverInv ==
    ASSUME IInv, NEW r \in Run, TellReceiver(r)
    PROVE  IInv'
<1>1. FunctionTypes /\ AppTypes /\ AppInv /\ RunInv(r)
  BY DEF IInv
<1>2. FunctionTypes'
  BY <1>1 DEF FunctionTypes, Lines, TellReceiver, taskVars, offerVars, appVars, cancelVars, receiverVars, Ends
<1>3. AppTypes'
  BY <1>1 DEF AppTypes, FunctionTypes, TellReceiver, taskVars, offerVars, appVars, cancelVars, receiverVars, Ends
<1>4. AppInv'
  BY <1>1, EndsMail DEF TellReceiver, appVars, cancelVars
<1>5. CancelOK(r)'
  BY <1>1 DEF RunInv, CancelOK, AppInv, AppTypes, FunctionTypes, TellReceiver, taskVars, offerVars, appVars, cancelVars, receiverVars, Ends
<1>6. CountsOK(r)'
  BY <1>1, FilesCount DEF RunInv, CountsOK, SaidOK, Done, AppInv, FunctionTypes, TellReceiver, taskVars, offerVars, appVars, cancelVars, receiverVars, Ends
<1>7. SaidOK(r)'
  BY <1>1 DEF RunInv, SaidOK, CancelOK, CountsOK, Done, AppInv, FunctionTypes, Lines, TellReceiver, taskVars, offerVars, appVars, cancelVars, receiverVars, Ends
<1>8. \A x \in Run : x # r => SameRun(x)
  BY <1>1 DEF SameRun, FunctionTypes, AppTypes, TellReceiver, taskVars, offerVars, appVars, cancelVars, receiverVars, Ends
<1>9. \A x \in Run : RunInv(x)'
  <2>1. quit' = quit
    BY DEF TellReceiver, taskVars, offerVars, appVars, cancelVars, receiverVars, Ends
  <2> QED BY <1>5, <1>6, <1>7, <1>8, <2>1, RunFrame DEF IInv, RunInv
<1>10. DevicesOK' /\ PickerInv'
  BY PickerFrame DEF IInv, TellReceiver, taskVars, offerVars, appVars, cancelVars, receiverVars, Ends
<1> QED BY <1>2, <1>3, <1>4, <1>9, <1>10 DEF IInv

LEMMA AnswersInv ==
    ASSUME IInv, NEW r \in Run, Answers(r)
    PROVE  IInv'
<1>1. FunctionTypes /\ AppTypes /\ AppInv /\ RunInv(r)
  BY DEF IInv
<1>0. \E yes \in SUBSET File :
          /\ files' = [files EXCEPT ![r] = yes]
          /\ \/ yes = files[r] /\ session'[r] = "refused"
             \/ yes # {} /\ session'[r] = "active" /\ task[r] = "waiting" /\ ~quit
  <2>1. CASE files' = files /\ session'[r] = "refused"
    <3>1. files[r] \in SUBSET File /\ files' = [files EXCEPT ![r] = files[r]]
      BY <1>1, <2>1 DEF FunctionTypes
    <3> QED BY <2>1, <3>1
  <2>2. ASSUME NEW yes \in SUBSET files[r], yes # {}, files' = [files EXCEPT ![r] = yes],
               session'[r] = "active", Waits(r)
        PROVE  yes \in SUBSET File
    BY <1>1, <2>2 DEF FunctionTypes
  <2> QED BY <1>1, <2>1, <2>2 DEF Answers, FunctionTypes, Waits
<1>2. FunctionTypes'
  <2>1. files' \in [Run -> SUBSET File]
    BY <1>0, <1>1 DEF FunctionTypes
  <2> QED BY <1>1, <2>1 DEF FunctionTypes, Lines, Answers, taskVars, offerVars, appVars, cancelVars, receiverVars, Waits
<1>3. AppTypes'
  BY <1>1 DEF AppTypes, FunctionTypes, Answers, taskVars, offerVars, appVars, cancelVars, receiverVars, Waits
<1>4. AppInv'
  BY <1>1 DEF AppInv, Unheard, AppTypes, FunctionTypes, Event, Answers, taskVars, offerVars, appVars, cancelVars, receiverVars, Waits
<1>5. CancelOK(r)'
  BY <1>1 DEF RunInv, CancelOK, AppInv, AppTypes, FunctionTypes, Answers, taskVars, offerVars, appVars, cancelVars, receiverVars, Waits
<1>6. CountsOK(r)'
  <2>1. /\ task' = task /\ sent' = sent /\ settled' = settled /\ up' = up /\ saved' = saved
        /\ session[r] = "asked"
    BY DEF Answers
  <2>2. PICK yes \in SUBSET File :
            /\ files' = [files EXCEPT ![r] = yes]
            /\ \/ yes = files[r] /\ session'[r] = "refused"
               \/ yes # {} /\ session'[r] = "active" /\ task[r] = "waiting" /\ ~quit
    BY <1>0
  <2>3. files'[r] = yes
    BY <1>1, <2>2 DEF FunctionTypes
  <2>4. CASE yes = files[r] /\ session'[r] = "refused"
    BY <1>1, <2>1, <2>3, <2>4 DEF RunInv, CountsOK, Done
  <2>5. CASE yes # {} /\ session'[r] = "active" /\ task[r] = "waiting"
    <3>1. Cardinality(yes) \in Nat /\ Cardinality(yes) # 0
      BY <2>5, FilesCount
    <3> QED BY <1>1, <2>1, <2>3, <2>5, <3>1 DEF RunInv, CountsOK, Done
  <2> QED BY <2>2, <2>4, <2>5
<1>7. SaidOK(r)'
  BY <1>1 DEF RunInv, SaidOK, CancelOK, CountsOK, Done, AppInv, FunctionTypes, Lines, Answers, taskVars, offerVars, appVars, cancelVars, receiverVars, Waits
<1>8. \A x \in Run : x # r => SameRun(x)
  BY <1>1 DEF SameRun, FunctionTypes, AppTypes, Answers, taskVars, offerVars, appVars, cancelVars, receiverVars, Waits
<1>9. \A x \in Run : RunInv(x)'
  <2>1. quit' = quit
    BY DEF Answers, taskVars, offerVars, appVars, cancelVars, receiverVars, Waits
  <2> QED BY <1>5, <1>6, <1>7, <1>8, <2>1, RunFrame DEF IInv, RunInv
<1>10. DevicesOK' /\ PickerInv'
  BY PickerFrame DEF IInv, Answers, taskVars, offerVars, appVars, cancelVars, receiverVars, Waits
<1> QED BY <1>2, <1>3, <1>4, <1>9, <1>10 DEF IInv

LEMMA EndsUploadInv ==
    ASSUME IInv, NEW r \in Run, EndsUpload(r)
    PROVE  IInv'
<1>1. FunctionTypes /\ AppTypes /\ AppInv /\ RunInv(r)
  BY DEF IInv
<1>2. FunctionTypes'
  <2>1. /\ up' \in [Run -> {"none", "on", "ok", "err"}] /\ settled' \in [Run -> Nat]
        /\ session' \in [Run -> {"none", "asked", "refused", "active", "over"}]
    BY <1>1 DEF FunctionTypes, EndsUpload
  <2>2. saved' \in [Run -> SUBSET Nat]
    <3>1. sent[r] + 1 \in Nat
      BY <1>1 DEF FunctionTypes
    <3> QED BY <1>1, <3>1 DEF FunctionTypes, EndsUpload
  <2> QED BY <1>1, <2>1, <2>2 DEF FunctionTypes, EndsUpload, taskVars, offerVars, cancelVars
<1>3. AppTypes'
  BY <1>1 DEF AppTypes, FunctionTypes, EndsUpload, taskVars, offerVars, appVars, cancelVars, receiverVars
<1>4. AppInv'
  BY <1>1 DEF AppInv, Unheard, AppTypes, FunctionTypes, Event, EndsUpload, taskVars, offerVars, appVars, cancelVars, receiverVars
<1>5. CancelOK(r)'
  BY <1>1 DEF RunInv, CancelOK, AppInv, AppTypes, FunctionTypes, EndsUpload, taskVars, offerVars, appVars, cancelVars, receiverVars
<1>6. CountsOK(r)'
  <2>1. PICK result \in {"ok", "err"} :
           /\ up' = [up EXCEPT ![r] = result]
           /\ saved' = IF result = "ok" THEN [saved EXCEPT ![r] = @ \cup {sent[r] + 1}] ELSE saved
           /\ task[r] # "reply" => result = "err"
    BY DEF EndsUpload
  <2>2. /\ sent[r] \in Nat /\ Cardinality(files[r]) \in Nat /\ sent'[r] = sent[r]
        /\ task'[r] = task[r] /\ files'[r] = files[r] /\ up'[r] = result
        /\ settled'[r] = settled[r] + 1 /\ settled[r] = sent[r] /\ sent[r] < Cardinality(files[r])
        /\ saved[r] = 1..sent[r] /\ task[r] \notin {"idle", "waiting", "upload"}
    BY <1>1, <2>1, FilesCount DEF RunInv, CountsOK, Done, FunctionTypes, EndsUpload, taskVars, offerVars
  <2>3. saved'[r] = 1..(sent[r] + IF result = "ok" THEN 1 ELSE 0)
    <3>1. CASE result = "ok"
      <4>1. saved'[r] = (1..sent[r]) \cup {sent[r] + 1}
        BY <1>1, <2>1, <2>2, <3>1 DEF FunctionTypes
      <4> QED BY <2>2, <3>1, <4>1
    <3>2. CASE result # "ok"
      BY <2>1, <2>2, <3>2
    <3> QED BY <3>1, <3>2
  <2>4. settled'[r] = Cardinality(files[r]) => session'[r] = "over"
    BY <1>1, <2>2 DEF EndsUpload, FunctionTypes
  <2> QED BY <2>1, <2>2, <2>3, <2>4 DEF CountsOK, Done
<1>7. SaidOK(r)'
  <2>1. /\ task' = task /\ said' = said /\ files' = files /\ pressed' = pressed
        /\ dropped' = dropped /\ quit' = quit
    BY DEF EndsUpload, taskVars, offerVars, appVars
  <2>2. session'[r] \in {session[r], "over"}
    BY <1>1 DEF EndsUpload, FunctionTypes
  <2>3. said[r] = "sent" => saved'[r] = saved[r]
    <3>1. said[r] = "sent" => task[r] # "reply"
      BY <1>1 DEF RunInv, SaidOK
    <3> QED BY <1>1, <3>1 DEF EndsUpload
  <2>4. said[r] # "declined"
    BY <1>1 DEF RunInv, SaidOK, EndsUpload
  <2> QED BY <1>1, <2>1, <2>2, <2>3, <2>4 DEF RunInv, SaidOK
<1>8. \A x \in Run : x # r => SameRun(x)
  BY <1>1 DEF SameRun, FunctionTypes, AppTypes, EndsUpload, taskVars, offerVars, appVars, cancelVars, receiverVars
<1>9. \A x \in Run : RunInv(x)'
  <2>1. quit' = quit
    BY DEF EndsUpload, taskVars, offerVars, appVars, cancelVars, receiverVars
  <2> QED BY <1>5, <1>6, <1>7, <1>8, <2>1, RunFrame DEF IInv, RunInv
<1>10. DevicesOK' /\ PickerInv'
  BY PickerFrame DEF IInv, EndsUpload, taskVars, offerVars, appVars, cancelVars, receiverVars
<1> QED BY <1>2, <1>3, <1>4, <1>9, <1>10 DEF IInv

LEMMA ReceiverCancelsInv ==
    ASSUME IInv, NEW r \in Run, ReceiverCancels(r)
    PROVE  IInv'
<1>1. FunctionTypes /\ AppTypes /\ AppInv /\ RunInv(r)
  BY DEF IInv
<1>2. FunctionTypes'
  BY <1>1 DEF FunctionTypes, Lines, ReceiverCancels, taskVars, offerVars, appVars, cancelVars, receiverVars
<1>3. AppTypes'
  BY <1>1 DEF AppTypes, FunctionTypes, ReceiverCancels, taskVars, offerVars, appVars, cancelVars, receiverVars
<1>4. AppInv'
  BY <1>1 DEF AppInv, Unheard, AppTypes, FunctionTypes, Event, ReceiverCancels, taskVars, offerVars, appVars, cancelVars, receiverVars
<1>5. CancelOK(r)'
  BY <1>1 DEF RunInv, CancelOK, AppInv, AppTypes, FunctionTypes, ReceiverCancels, taskVars, offerVars, appVars, cancelVars, receiverVars
<1>6. CountsOK(r)'
  BY <1>1, FilesCount DEF RunInv, CountsOK, SaidOK, Done, AppInv, FunctionTypes, ReceiverCancels, taskVars, offerVars, appVars, cancelVars, receiverVars
<1>7. SaidOK(r)'
  BY <1>1 DEF RunInv, SaidOK, CancelOK, CountsOK, Done, AppInv, FunctionTypes, Lines, ReceiverCancels, taskVars, offerVars, appVars, cancelVars, receiverVars
<1>8. \A x \in Run : x # r => SameRun(x)
  BY <1>1 DEF SameRun, FunctionTypes, AppTypes, ReceiverCancels, taskVars, offerVars, appVars, cancelVars, receiverVars
<1>9. \A x \in Run : RunInv(x)'
  <2>1. quit' = quit
    BY DEF ReceiverCancels, taskVars, offerVars, appVars, cancelVars, receiverVars
  <2> QED BY <1>5, <1>6, <1>7, <1>8, <2>1, RunFrame DEF IInv, RunInv
<1>10. DevicesOK' /\ PickerInv'
  BY PickerFrame DEF IInv, ReceiverCancels, taskVars, offerVars, appVars, cancelVars, receiverVars
<1> QED BY <1>2, <1>3, <1>4, <1>9, <1>10 DEF IInv

LEMMA CancelReceivedInv ==
    ASSUME IInv, NEW r \in Run, CancelReceived(r)
    PROVE  IInv'
<1>1. FunctionTypes /\ AppTypes /\ AppInv /\ RunInv(r)
  BY DEF IInv
<1>2. FunctionTypes'
  BY <1>1 DEF FunctionTypes, Lines, CancelReceived, taskVars, offerVars, appVars, cancelVars, receiverVars, Concerns, MarksByPeer, Idle
<1>3. AppTypes'
  BY <1>1 DEF AppTypes, FunctionTypes, CancelReceived, taskVars, offerVars, appVars, cancelVars, receiverVars, Concerns, MarksByPeer, Idle
<1>4. AppInv'
  BY <1>1 DEF AppInv, Unheard, AppTypes, FunctionTypes, Event, CancelReceived, taskVars, offerVars, appVars, cancelVars, receiverVars, Concerns, MarksByPeer, Idle
<1>5. CancelOK(r)'
  BY <1>1 DEF RunInv, CancelOK, AppInv, AppTypes, FunctionTypes, CancelReceived, taskVars, offerVars, appVars, cancelVars, receiverVars, Concerns, MarksByPeer, Idle
<1>6. CountsOK(r)'
  BY <1>1, FilesCount DEF RunInv, CountsOK, SaidOK, Done, AppInv, FunctionTypes, CancelReceived, taskVars, offerVars, appVars, cancelVars, receiverVars, Concerns, MarksByPeer, Idle
<1>7. SaidOK(r)'
  BY <1>1 DEF RunInv, SaidOK, CancelOK, CountsOK, Done, AppInv, FunctionTypes, Lines, CancelReceived, taskVars, offerVars, appVars, cancelVars, receiverVars, Concerns, MarksByPeer, Idle
<1>8. \A x \in Run : x # r => SameRun(x)
  BY <1>1 DEF SameRun, FunctionTypes, AppTypes, CancelReceived, taskVars, offerVars, appVars, cancelVars, receiverVars, Concerns, MarksByPeer, Idle
<1>9. \A x \in Run : RunInv(x)'
  <2>1. quit' = quit
    BY DEF CancelReceived, taskVars, offerVars, appVars, cancelVars, receiverVars, Concerns, MarksByPeer, Idle
  <2> QED BY <1>5, <1>6, <1>7, <1>8, <2>1, RunFrame DEF IInv, RunInv
<1>10. DevicesOK' /\ PickerInv'
  BY PickerFrame DEF IInv, CancelReceived, taskVars, offerVars, appVars, cancelVars, receiverVars, Concerns, MarksByPeer, Idle
<1> QED BY <1>2, <1>3, <1>4, <1>9, <1>10 DEF IInv

LEMMA HeadTailTwo ==
    ASSUME NEW a, NEW b
    PROVE  /\ Head(<<a>>) = a /\ Tail(<<a>>) = <<>> /\ Head(<<a, b>>) = a /\ Tail(<<a, b>>) = <<b>>
<1> DEFINE M == {a, b}
           s == <<a>>
           t == <<a, b>>
<1>1. s \in Seq(M) /\ Len(s) = 1 /\ s[1] = a /\ t \in Seq(M) /\ Len(t) = 2 /\ t[1] = a /\ t[2] = b
      /\ <<b>> \in Seq(M) /\ Len(<<b>>) = 1 /\ <<b>>[1] = b /\ <<>> \in Seq(M) /\ Len(<<>>) = 0
  OBVIOUS
<1> HIDE DEF s, t, M
<1>2. Head(s) = a /\ Head(t) = a
  BY <1>1
<1>3. Tail(s) \in Seq(M) /\ Len(Tail(s)) = 0 /\ Tail(t) \in Seq(M) /\ Len(Tail(t)) = 1
      /\ Tail(t)[1] = b
  <2>1. s # <<>> /\ t # <<>>
    BY <1>1, EmptySeq
  <2> QED BY <1>1, <2>1, HeadTailProperties
<1>4. Tail(s) = <<>> /\ Tail(t) = <<b>>
  <2>1. Tail(s) = <<>>
    BY <1>1, <1>3
  <2> DEFINE u == <<b>>
  <2>2. u \in Seq(M) /\ Len(u) = 1 /\ u[1] = b
    BY <1>1
  <2> HIDE DEF u
  <2>3. \A i \in 1..Len(u) : Tail(t)[i] = u[i]
    <3>1. \A i \in 1..Len(u) : i = 1
      BY <2>2
    <3> QED BY <1>3, <2>2, <3>1, Zenon
  <2>4. Tail(t) = u
    BY <1>3, <2>2, <2>3, SeqEqual
  <2> QED BY <2>1, <2>4 DEF u
<1> QED BY <1>2, <1>4 DEF s, t

\* A step of the application that is about no run in particular.
LEMMA AppFrame ==
    ASSUME IInv, DevicesOK', PickerInv', FunctionTypes', AppTypes', AppInv', quit' = quit,
           UNCHANGED <<taskVars, cancelVars, receiverVars, pressed>>
    PROVE  IInv'
<1>1. \A x \in Run : SameRun(x)
  BY DEF SameRun, taskVars, offerVars, cancelVars, receiverVars
<1>2. \A x \in Run : RunInv(x)'
  BY <1>1, RunFrame DEF IInv
<1> QED BY <1>2 DEF IInv

\* The types of the steps that leave the runs alone.
LEMMA FunctionTypesFrame ==
    ASSUME FunctionTypes, UNCHANGED <<taskVars, cancelVars, receiverVars>>
    PROVE  FunctionTypes'
  BY DEF FunctionTypes, taskVars, offerVars, cancelVars, receiverVars

LEMMA TakeMailInv ==
    ASSUME IInv, TakeMail
    PROVE  IInv'
<1>1. FunctionTypes /\ AppTypes /\ AppInv /\ DevicesOK /\ PickerInv
  BY DEF IInv
<1>2. send # None /\ send \in Run /\ Unheard(send) /\ picker = None
  BY <1>1 DEF AppInv, AppTypes, PickerInv, TakeMail
<1>3. FunctionTypes'
  BY <1>1, FunctionTypesFrame DEF TakeMail
<1>4. /\ UNCHANGED <<devices, picker, marking, quit, keys, pressed, taskVars, cancelVars, receiverVars>>
      /\ task' = task /\ byPeer' = byPeer
      /\ cancels' = cancels /\ dropped' = dropped
  BY DEF TakeMail, taskVars, offerVars, cancelVars, receiverVars
<1> DEFINE b == Event("started", send)
           e == Event("ended", send)
<1>5. b.kind = "started" /\ e.kind = "ended"
  BY DEF Event
<1>6. \/ mail = <<b>> /\ task[send] \in {"upload", "reply", "cancel"}
      \/ mail = <<e>> /\ task[send] = "ended"
      \/ mail = <<b, e>> /\ task[send] = "ended"
  BY <1>1, <1>2 DEF Unheard, FunctionTypes, TakeMail
<1> HIDE DEF b, e
<1>7. \/ Head(mail) = b /\ mail' = <<>> /\ task[send] \in {"upload", "reply", "cancel"}
      \/ Head(mail) = e /\ mail' = <<>> /\ task[send] = "ended"
      \/ Head(mail) = b /\ mail' = <<e>> /\ task[send] = "ended"
  <2>1. mail' = Tail(mail)
    BY DEF TakeMail
  <2>2. CASE mail = <<b>> /\ task[send] \in {"upload", "reply", "cancel"}
    BY <2>1, <2>2, HeadTailTwo
  <2>3. CASE mail = <<e>> /\ task[send] = "ended"
    BY <2>1, <2>3, HeadTailTwo
  <2>4. CASE mail = <<b, e>> /\ task[send] = "ended"
    BY <2>1, <2>4, HeadTailTwo
  <2> QED BY <1>6, <2>2, <2>3, <2>4
<1>8. CASE Head(mail) = b /\ mail' = <<>> /\ task[send] \in {"upload", "reply", "cancel"}
  <2>1. send' = send /\ known' \in BOOLEAN
    BY <1>5, <1>8 DEF TakeMail
  <2>2. AppTypes'
    BY <1>1, <1>4, <2>1 DEF AppTypes
  <2>3. AppInv'
    BY <1>1, <1>2, <1>4, <1>8, <2>1 DEF AppInv, Unheard
  <2>4. DevicesOK' /\ PickerInv'
    BY <1>1, <1>2, <1>4, PickerFrame
  <2> QED BY <1>3, <1>4, <2>2, <2>3, <2>4, AppFrame
<1>9. CASE Head(mail) = b /\ mail' = <<e>> /\ task[send] = "ended"
  <2>1. send' = send /\ known' \in BOOLEAN
    BY <1>5, <1>9 DEF TakeMail
  <2>2. AppTypes'
    BY <1>1, <1>4, <2>1 DEF AppTypes
  <2>3. AppInv'
    BY <1>1, <1>2, <1>4, <1>9, <2>1 DEF AppInv, Unheard, e
  <2>4. DevicesOK' /\ PickerInv'
    BY <1>1, <1>2, <1>4, PickerFrame
  <2> QED BY <1>3, <1>4, <2>2, <2>3, <2>4, AppFrame
<1>10. CASE Head(mail) = e /\ mail' = <<>> /\ task[send] = "ended"
  <2>1. send' = None /\ known' = FALSE
    BY <1>5, <1>10 DEF TakeMail
  <2>2. AppTypes'
    BY <1>1, <1>4, <2>1 DEF AppTypes
  <2>3. \A x \in Run : task[x] \in {"idle", "ended"}
    BY <1>1, <1>10 DEF AppInv
  <2>4. AppInv'
    BY <1>1, <1>4, <1>10, <2>1, <2>3 DEF AppInv
  <2>5. DevicesOK' /\ PickerInv'
    BY <1>1, <1>2, <1>4, PickerFrame
  <2> QED BY <1>3, <1>4, <2>2, <2>4, <2>5, AppFrame
<1> QED BY <1>7, <1>8, <1>9, <1>10

LEMMA TriggersTokenInv ==
    ASSUME IInv, TriggersToken
    PROVE  IInv'
<1>1. FunctionTypes /\ AppTypes /\ AppInv /\ marking \in Run /\ byPeer[marking]
  BY DEF IInv, AppTypes, AppInv, TriggersToken
<1>2. FunctionTypes' /\ AppTypes'
  BY <1>1 DEF FunctionTypes, AppTypes, TriggersToken, taskVars, offerVars, receiverVars
<1>3. AppInv'
  BY <1>1 DEF AppInv, Unheard, TriggersToken, taskVars
<1>4. \A x \in Run : x # marking => SameRun(x)
  BY <1>1 DEF SameRun, FunctionTypes, TriggersToken, taskVars, offerVars, receiverVars
<1>5. ASSUME NEW r \in Run, r = marking PROVE RunInv(r)'
  <2>1. /\ task'[r] = task[r] /\ byPeer'[r] = byPeer[r] /\ files'[r] = files[r] /\ sent'[r] = sent[r]
        /\ said'[r] = said[r] /\ session'[r] = session[r] /\ up'[r] = up[r]
        /\ settled'[r] = settled[r] /\ saved'[r] = saved[r]
        /\ cancels' = cancels /\ dropped' = dropped /\ pressed' = pressed /\ quit' = quit
    BY DEF TriggersToken, taskVars, offerVars, receiverVars
  <2>2. RunInv(r) /\ byPeer[r]
    BY <1>1, <1>5 DEF IInv
  <2> QED BY <2>1, <2>2 DEF RunInv, CancelOK, CountsOK, Done, SaidOK
<1>6. \A x \in Run : RunInv(x)'
  <2>1. quit' = quit
    BY DEF TriggersToken
  <2> QED BY <1>4, <1>5, <2>1, RunFrame DEF IInv
<1>7. DevicesOK' /\ PickerInv'
  BY PickerFrame DEF IInv, TriggersToken
<1> QED BY <1>2, <1>3, <1>6, <1>7 DEF IInv

\* The keys that open the picker, work it and close it change nothing else.
LEMMA PickerStep ==
    ASSUME IInv, PickerInv', keys' \in 0..MaxKeys, quit = FALSE,
           UNCHANGED <<devices, send, known, mail, taskVars, session, otherVars>>
    PROVE  IInv'
<1>1. FunctionTypes' /\ AppTypes'
  BY DEF IInv, FunctionTypes, AppTypes, taskVars, offerVars, otherVars, cancelVars
<1>2. AppInv'
  BY DEF IInv, AppInv, Unheard, taskVars, otherVars, cancelVars
<1>3. DevicesOK'
  BY DEF IInv, DevicesOK
<1>4. UNCHANGED <<taskVars, cancelVars, receiverVars, pressed>> /\ quit' = quit
  BY DEF otherVars, receiverVars
<1> QED BY <1>1, <1>2, <1>3, <1>4, AppFrame

LEMMA KeyCount == ASSUME AppTypes, Key PROVE keys' \in 0..MaxKeys /\ quit = FALSE
  BY ConstantsAssumption DEF AppTypes, Key, Idle

\* A hotkey that is taken is one device's.
LEMMA OneDevice ==
    ASSUME DevicesOK, NEW s \in Slots, NEW d \in InSlot(s)
    PROVE  d \in Device /\ InSlot(s) = {d}
<1>1. PICK i \in DOMAIN devices : devices[i].slot = s /\ d = devices[i].device
  BY DEF InSlot
<1>2. d \in Device
  <2> DEFINE Entry == [device : Device, slot : Slots \cup {None}]
  <2>1. devices \in Seq(Entry)
    BY DEF DevicesOK
  <2>2. \A e \in Entry : e.device \in Device
    OBVIOUS
  <2> HIDE DEF Entry
  <2>3. devices[i] \in Entry
    BY <1>1, <2>1
  <2> QED BY <1>1, <2>2, <2>3
<1>3. \A e \in InSlot(s) : e = d
  <2> TAKE e \in InSlot(s)
  <2>1. PICK j \in DOMAIN devices : devices[j].slot = s /\ e = devices[j].device
    BY DEF InSlot
  <2> QED BY <1>1, <2>1, ConstantsAssumption DEF DevicesOK
<1> QED BY <1>2, <1>3

LEMMA StartPickingInv ==
    ASSUME IInv, StartPicking
    PROVE  IInv'
<1>1. PICK s \in Slots : \E d \in InSlot(s) : picker' = OpenPicker(s, d)
  BY DEF StartPicking
<1>2. PICK d \in InSlot(s) : picker' = OpenPicker(s, d)
  BY <1>1
<1>3. d \in Device /\ InSlot(s) = {d}
  BY OneDevice DEF IInv
<1>4. PickerOK(picker') /\ picker'.slot = s /\ picker'.device = d
  BY <1>2, <1>3, OpenPickerOK
<1>5. devices' = devices /\ send' = None
  BY DEF StartPicking, CanPick
<1>6. PickerInv'
  BY <1>3, <1>4, <1>5 DEF PickerInv, InSlot
<1>7. keys' \in 0..MaxKeys /\ quit = FALSE
  BY KeyCount DEF IInv, StartPicking
<1> QED BY <1>6, <1>7, PickerStep DEF StartPicking

\* Every key of the picker keeps it one, with its device.
LEMMA PickerKeyOK ==
    ASSUME NEW p, PickerOK(p),
           NEW q \in Moved(p) \cup Filtered(p) \cup Navigated(p) \cup Toggled(p)
    PROVE  PickerOK(q) /\ q.slot = p.slot /\ q.device = p.device
<1>1. CASE q \in Moved(p)
  BY <1>1, MovedOK DEF Keeps
<1>2. CASE q \in Filtered(p)
  BY <1>2, FilteredOK DEF Keeps
<1>3. CASE q \in Navigated(p)
  BY <1>3, NavigatedOK DEF Keeps
<1>4. CASE q \in Toggled(p)
  BY <1>4, ToggledOK
<1> QED BY <1>1, <1>2, <1>3, <1>4

LEMMA PickerKeyInv ==
    ASSUME IInv, PickerKey
    PROVE  IInv'
<1>1. picker' \in Moved(picker) \cup Filtered(picker) \cup Navigated(picker) \cup Toggled(picker)
  BY DEF PickerKey
<1>2. PickerOK(picker) /\ InSlot(picker.slot) = {picker.device} /\ send = None
  BY DEF IInv, PickerInv, PickerKey
<1>3. PickerOK(picker') /\ picker'.slot = picker.slot /\ picker'.device = picker.device
  BY <1>1, <1>2, PickerKeyOK
<1>4. devices' = devices /\ send' = send /\ keys' = keys /\ ~quit
  BY DEF PickerKey, Idle
<1>5. PickerInv'
  BY <1>2, <1>3, <1>4 DEF PickerInv, InSlot
<1>6. keys' \in 0..MaxKeys /\ quit = FALSE
  BY <1>4 DEF IInv, AppTypes
<1> QED BY <1>5, <1>6, PickerStep DEF PickerKey

LEMMA ClosePickerInv ==
    ASSUME IInv, ClosePicker
    PROVE  IInv'
<1>1. PickerInv'
  BY DEF PickerInv, ClosePicker
<1>2. keys' \in 0..MaxKeys /\ quit = FALSE
  BY KeyCount DEF IInv, ClosePicker
<1> QED BY <1>1, <1>2, PickerStep DEF ClosePicker

\* Where there is no send every task is over.
LEMMA NoSendNoTask ==
    ASSUME IInv, send = None, NEW x \in Run
    PROVE  task[x] \in {"idle", "ended"}
  BY ConstantsAssumption DEF IInv, AppInv

LEMMA CtrlCInv ==
    ASSUME IInv, CtrlC
    PROVE  IInv'
<1>1. FunctionTypes /\ AppTypes /\ AppInv /\ DevicesOK /\ PickerInv
  BY DEF IInv
<1>2. keys' \in 0..MaxKeys /\ quit = FALSE /\ marking = None
  BY <1>1, KeyCount DEF CtrlC, Key, Idle
<1>3. /\ UNCHANGED <<devices, send, known, marking, mail, taskVars, byPeer, receiverVars>>
      /\ task' = task /\ cancels' = cancels /\ dropped' = dropped
  BY DEF CtrlC, taskVars, receiverVars
<1>4. CASE picker # None
  <2>1. picker' = None /\ UNCHANGED <<token, pressed, quit>>
    BY <1>4 DEF CtrlC
  <2>2. PickerInv'
    BY <2>1 DEF PickerInv
  <2> QED BY <1>2, <1>3, <2>1, <2>2, PickerStep DEF otherVars, cancelVars, receiverVars
<1>5. CASE picker = None /\ send # None
  <2>1. /\ token' = [token EXCEPT ![send] = TRUE] /\ pressed' = pressed \cup {send}
        /\ picker' = picker /\ quit' = quit
    BY <1>5 DEF CtrlC
  <2>2. send \in Run
    BY <1>1, <1>5 DEF AppTypes
  <2>3. FunctionTypes' /\ AppTypes'
    BY <1>1, <1>2, <1>3, <2>1, <2>2 DEF FunctionTypes, AppTypes, taskVars, offerVars, receiverVars
  <2>4. AppInv'
    BY <1>1, <1>2, <1>3, <2>1 DEF AppInv, Unheard
  <2>5. \A x \in Run : x # send => SameRun(x)
    BY <1>1, <1>3, <2>1, <2>2 DEF SameRun, FunctionTypes, taskVars, offerVars, receiverVars
  <2>6. ASSUME NEW r \in Run, r = send PROVE RunInv(r)'
    <3>1. RunInv(r)
      BY DEF IInv
    <3>2. /\ task'[r] = task[r] /\ byPeer'[r] = byPeer[r] /\ files'[r] = files[r] /\ sent'[r] = sent[r]
          /\ said'[r] = said[r] /\ session'[r] = session[r] /\ up'[r] = up[r]
          /\ settled'[r] = settled[r] /\ saved'[r] = saved[r] /\ r \in pressed'
      BY <1>3, <2>1, <2>6 DEF taskVars, offerVars, receiverVars
    <3>3. /\ (r \in cancels' <=> r \in cancels) /\ (r \in dropped' <=> r \in dropped)
          /\ quit' = quit
      BY <1>3, <2>1
    <3>4. CancelOK(r)'
      BY <3>1, <3>2, <3>3 DEF RunInv, CancelOK
    <3>5. CountsOK(r)'
      BY <3>1, <3>2 DEF RunInv, CountsOK, Done
    <3>6. SaidOK(r)'
      BY <3>1, <3>2, <3>3 DEF RunInv, SaidOK
    <3> QED BY <3>4, <3>5, <3>6 DEF RunInv
  <2>7. \A x \in Run : RunInv(x)'
    BY <2>1, <2>5, <2>6, RunFrame DEF IInv
  <2>8. DevicesOK' /\ PickerInv'
    BY <1>1, <1>3, <2>1, PickerFrame
  <2> QED BY <2>3, <2>4, <2>7, <2>8 DEF IInv
<1>6. CASE picker = None /\ send = None
  <2>1. quit' = TRUE /\ UNCHANGED <<picker, token, pressed>>
    BY <1>6 DEF CtrlC
  <2>2. FunctionTypes' /\ AppTypes'
    BY <1>1, <1>2, <1>3, <2>1 DEF FunctionTypes, AppTypes, taskVars, offerVars, receiverVars
  <2>3. AppInv'
    BY <1>1, <1>2, <1>3, <1>6, <2>1 DEF AppInv
  <2>4. ASSUME NEW r \in Run PROVE RunInv(r)'
    <3>1. RunInv(r) /\ task[r] \in {"idle", "ended"}
      BY <1>6, NoSendNoTask DEF IInv
    <3>2. session[r] = "active" => said[r] = "gave up"
      BY <3>1 DEF RunInv, SaidOK, CountsOK
    <3> QED BY <1>3, <2>1, <3>1, <3>2
            DEF RunInv, CancelOK, CountsOK, Done, SaidOK, taskVars, offerVars, receiverVars
  <2>5. DevicesOK' /\ PickerInv'
    BY <1>1, <1>3, <2>1, PickerFrame
  <2> QED BY <2>2, <2>3, <2>4, <2>5 DEF IInv
<1> QED BY <1>4, <1>5, <1>6

LEMMA StartSendInv ==
    ASSUME IInv, NEW r \in Run, StartSend(r)
    PROVE  IInv'
<1>1. FunctionTypes /\ AppTypes /\ AppInv /\ RunInv(r) /\ DevicesOK
  BY DEF IInv
<1>2. PickerOK(picker) /\ InSlot(picker.slot) = {picker.device} /\ send = None /\ task[r] = "idle"
  BY DEF IInv, PickerInv, StartSend, Fresh
<1>3. PICK readable \in SUBSET Picked(picker) :
         readable # {} /\ files' = [files EXCEPT ![r] = readable]
  BY DEF StartSend
<1>4. readable \in SUBSET File
  BY <1>2, PickedOK DEF StartSend
<1>5. PICK d \in Device : target' = [target EXCEPT ![r] = d]
  BY <1>2 DEF StartSend, PickerOK, PickerShape
<1>6. keys' \in 0..MaxKeys /\ quit = FALSE
  BY <1>1, KeyCount DEF StartSend
<1>7. /\ picker' = None /\ send' = r /\ known' = FALSE
      /\ task' = [task EXCEPT ![r] = "waiting"] /\ session' = [session EXCEPT ![r] = "asked"]
      /\ UNCHANGED <<devices, mail, sent, said, marking, quit, pressed, token, byPeer, up, settled,
                     cancels, saved, dropped>>
  BY DEF StartSend, otherVars, cancelVars
<1>8. FunctionTypes'
  BY <1>1, <1>3, <1>4, <1>5, <1>7 DEF FunctionTypes
<1>9. AppTypes'
  BY <1>1, <1>6, <1>7 DEF AppTypes
<1>10. AppInv'
  <2>1. mail = <<>> /\ send' # None
    BY <1>1, <1>2, <1>7, ConstantsAssumption DEF AppInv
  <2>2. \A x \in Run : x # r => task'[x] \in {"idle", "ended"}
    BY <1>1, <1>2, <1>7, NoSendNoTask DEF FunctionTypes
  <2> QED BY <1>1, <1>6, <1>7, <2>1, <2>2 DEF AppInv, Unheard, FunctionTypes
<1>11. RunInv(r)'
  <2>1. /\ task'[r] = "waiting" /\ session'[r] = "asked" /\ files'[r] = readable
        /\ sent[r] = 0 /\ settled[r] = 0 /\ up[r] = "none" /\ session[r] = "none" /\ said[r] = "nothing"
    BY <1>1, <1>2, <1>3, <1>7 DEF FunctionTypes, RunInv, CountsOK, SaidOK
  <2>2. Cardinality(readable) \in Nat /\ Cardinality(readable) # 0
    BY <1>3, <1>4, FilesCount
  <2>3. CancelOK(r)'
    BY <1>1, <1>7, <2>1 DEF RunInv, CancelOK
  <2>4. CountsOK(r)'
    BY <1>1, <1>7, <2>1, <2>2 DEF RunInv, CountsOK, Done
  <2>5. SaidOK(r)'
    BY <1>7, <2>1 DEF SaidOK
  <2> QED BY <2>3, <2>4, <2>5 DEF RunInv
<1>12. \A x \in Run : x # r => SameRun(x)
  BY <1>1, <1>3, <1>7 DEF SameRun, FunctionTypes
<1>13. \A x \in Run : RunInv(x)'
  BY <1>7, <1>11, <1>12, RunFrame DEF IInv
<1>14. DevicesOK' /\ PickerInv'
  BY <1>1, <1>7 DEF DevicesOK, PickerInv
<1> QED BY <1>8, <1>9, <1>10, <1>13, <1>14 DEF IInv

LEMMA DeviceUpInv ==
    ASSUME IInv, NEW d \in Device, DeviceUp(d)
    PROVE  IInv'
<1> DEFINE free == {s \in Slots : InSlot(s) = {}}
           slot == IF free = {} THEN None ELSE Min(free)
           new == [device |-> d, slot |-> slot]
<1>1. DevicesOK /\ PickerInv /\ devices' = Append(devices, new)
  BY DEF IInv, DeviceUp
<1>2. slot \in Slots \cup {None} /\ (slot # None => InSlot(slot) = {})
  <2>1. free \in SUBSET Nat
    BY ConstantsAssumption
  <2>2. free # {} => slot \in free
    BY <2>1, MinIsElement
  <2> QED BY <2>2
<1> HIDE DEF free, slot
<1>3. \A i \in DOMAIN devices : slot # None => devices[i].slot # slot
  BY <1>2 DEF InSlot
<1> DEFINE Entry == [device : Device, slot : Slots \cup {None}]
<1>4. devices \in Seq(Entry) /\ new \in Entry /\ new.slot = slot /\ new.device = d
  BY <1>1, <1>2 DEF DevicesOK
<1> HIDE DEF Entry, new
<1>5. /\ devices' \in Seq(Entry) /\ Len(devices) \in Nat
      /\ DOMAIN devices = 1..Len(devices) /\ DOMAIN devices' = 1..(Len(devices) + 1)
      /\ \A i \in 1..Len(devices) : devices'[i] = devices[i]
      /\ devices'[Len(devices) + 1] = new
  BY <1>1, <1>4, AppendProperties, LenProperties
<1>6. DevicesOK'
  <2>1. ASSUME NEW i \in DOMAIN devices', NEW j \in DOMAIN devices', i # j,
               devices'[i].slot = devices'[j].slot, devices'[i].slot # None
        PROVE  FALSE
    <3>1. CASE i \in 1..Len(devices) /\ j \in 1..Len(devices)
      BY <1>1, <1>5, <2>1, <3>1 DEF DevicesOK
    <3>2. CASE i = Len(devices) + 1
      BY <1>3, <1>4, <1>5, <2>1, <3>2
    <3>3. CASE j = Len(devices) + 1
      BY <1>3, <1>4, <1>5, <2>1, <3>3
    <3> QED BY <1>5, <3>1, <3>2, <3>3
  <2> QED BY <1>5, <2>1 DEF DevicesOK, Entry
<1>7. PickerInv'
  <2>1. picker' = picker /\ send' = send
    BY DEF DeviceUp
  <2>2. ASSUME picker # None PROVE InSlot(picker.slot)' = {picker.device}
    <3>1. PickerOK(picker) /\ InSlot(picker.slot) = {picker.device} /\ picker.slot \in Slots
      BY <1>1, <2>2 DEF PickerInv, PickerOK, PickerShape
    <3>2. slot # picker.slot
      BY <1>2, <3>1, ConstantsAssumption
    <3>3. \A i \in DOMAIN devices' : devices'[i].slot = picker.slot =>
             i \in DOMAIN devices /\ devices'[i] = devices[i]
      BY <1>4, <1>5, <3>2
    <3>4. \A i \in DOMAIN devices : i \in DOMAIN devices' /\ devices'[i] = devices[i]
      BY <1>5
    <3> QED BY <2>1, <3>1, <3>3, <3>4 DEF InSlot
  <2> QED BY <1>1, <2>1, <2>2 DEF PickerInv
<1>8. AppTypes' /\ AppInv' /\ FunctionTypes'
  BY DEF IInv, AppTypes, AppInv, Unheard, FunctionTypes, DeviceUp, taskVars, offerVars, otherVars, cancelVars
<1>9. UNCHANGED <<taskVars, cancelVars, receiverVars, pressed>> /\ quit' = quit
  BY DEF DeviceUp, otherVars, receiverVars
<1> QED BY <1>6, <1>7, <1>8, <1>9, AppFrame
-----------------------------------------------------------------------------
LEMMA InitInv == Init => IInv
<1> SUFFICES ASSUME Init PROVE IInv
  OBVIOUS
<1>1. DevicesOK /\ PickerInv
  BY DEF Init, DevicesOK, PickerInv
<1>2. FunctionTypes
  BY DEF Init, FunctionTypes, Lines
<1>3. AppTypes
  <2>1. keys \in 0..MaxKeys
    BY ConstantsAssumption DEF Init
  <2>2. known \in BOOLEAN /\ quit \in BOOLEAN
    BY DEF Init
  <2> QED BY <2>1, <2>2 DEF Init, AppTypes
<1>4. AppInv
  <2>1. \A r \in Run : task[r] = "idle"
    BY DEF Init
  <2> QED BY <2>1 DEF Init, AppInv
<1>5. ASSUME NEW r \in Run PROVE RunInv(r)
  <2>1. Cardinality({}) = 0
    BY FS_EmptySet
  <2>2. /\ task[r] = "idle" /\ ~token[r] /\ ~byPeer[r] /\ files[r] = {} /\ sent[r] = 0
        /\ said[r] = "nothing" /\ session[r] = "none" /\ up[r] = "none" /\ settled[r] = 0
        /\ saved[r] = {} /\ cancels = {} /\ dropped = {} /\ ~quit
    BY DEF Init
  <2>3. 1..0 = {}
    OBVIOUS
  <2> QED BY <2>1, <2>2, <2>3 DEF RunInv, CancelOK, CountsOK, Done, SaidOK
<1> QED BY <1>1, <1>2, <1>3, <1>4, <1>5 DEF IInv

LEMMA NextInv == IInv /\ [Next]_vars => IInv'
<1> SUFFICES ASSUME IInv, [Next]_vars PROVE IInv'
  OBVIOUS
<1>1. CASE App
  BY <1>1, TakeMailInv, TriggersTokenInv, CancelReceivedInv DEF App
<1>2. CASE Keys
  BY <1>2, StartPickingInv, PickerKeyInv, ClosePickerInv, CtrlCInv, StartSendInv DEF Keys
<1>3. CASE \E d \in Device : DeviceUp(d)
  BY <1>3, DeviceUpInv
<1>4. ASSUME NEW r \in Run, Task(r) PROVE IInv'
  BY <1>4, PreparedInv, CancelPrepareInv, UploadInv, UploadedInv, UploadFailedInv, CancelUploadInv,
     TellReceiverInv DEF Task
<1>5. ASSUME NEW r \in Run, Receiver(r) PROVE IInv'
  BY <1>5, AnswersInv, EndsUploadInv, ReceiverCancelsInv DEF Receiver, Responds
<1>6. CASE UNCHANGED vars
  <2>1. /\ UNCHANGED <<devices, picker, send, known, marking, quit, keys, pressed, mail>>
        /\ UNCHANGED <<taskVars, cancelVars, receiverVars>>
    BY <1>6 DEF vars, appVars
  <2>2. FunctionTypes' /\ DevicesOK' /\ PickerInv'
    BY <2>1, PickerFrame, FunctionTypesFrame DEF IInv
  <2>3. AppTypes' /\ AppInv'
    BY <2>1 DEF IInv, AppTypes, AppInv, Unheard, taskVars, cancelVars, receiverVars
  <2> QED BY <2>1, <2>2, <2>3, AppFrame
<1> QED BY <1>1, <1>2, <1>3, <1>4, <1>5, <1>6 DEF Next

LEMMA IInvHolds == Spec => []IInv
<1> QED BY InitInv, NextInv, PTL DEF Spec
-----------------------------------------------------------------------------
(* What it implies.                                                        *)

LEMMA IInvTypeOK == IInv => TypeOK
<1> SUFFICES ASSUME IInv PROVE TypeOK
  OBVIOUS
<1>1. FunctionTypes /\ AppTypes /\ AppInv
  BY DEF IInv
<1>2. ASSUME NEW r \in Run
      PROVE  /\ sent[r] \in 0..Cardinality(files[r]) /\ settled[r] \in 0..Cardinality(files[r])
             /\ saved[r] \subseteq 1..Cardinality(files[r])
  <2>1. CountsOK(r) /\ sent[r] \in Nat /\ settled[r] \in Nat /\ Cardinality(files[r]) \in Nat
    BY <1>1, FilesCount DEF IInv, RunInv, FunctionTypes
  <2> QED BY <2>1 DEF CountsOK, Done
<1> QED BY <1>1, <1>2 DEF FunctionTypes, AppTypes, AppInv, TypeOK

\* The last line is true: what was sent is on the other device, and a cancel
\* is told of the side that cancelled (send_task.rs:251, send_task.rs:28).
THEOREM LineIsHonest == Spec => []HonestLine
<1>1. IInv => HonestLine
  BY IInvTypeOK DEF IInv, RunInv, SaidOK, HonestLine
<1> QED BY <1>1, IInvHolds, PTL

\* A task that got its session leaves none behind at the receiver, and neither
\* does a client that quits (send_task.rs:47).
THEOREM SessionIsEnded == Spec => []NoSessionLeft
<1>1. IInv => NoSessionLeft
  BY DEF IInv, RunInv, SaidOK, NoSessionLeft
<1> QED BY <1>1, IInvHolds, PTL

PicksTheShownStep ==
    /\ picker # None /\ picker' # None =>
            /\ picker'.selected # picker.selected =>
                    \/ picker'.selected = picker.selected \cup {Highlighted(picker).file}
                    \/ picker'.selected = picker.selected \ {Highlighted(picker).file}
            /\ picker'.cwd \in {picker.cwd, Parent[picker.cwd], Highlighted(picker).dir}
    /\ \A r \in Run : target'[r] # target[r] =>
            /\ target'[r] = picker.device
            /\ files'[r] \subseteq
                    IF picker.selected # {} THEN picker.selected ELSE {Highlighted(picker).file}

LEMMA PickerKeyShown ==
    ASSUME NEW p, PickerOK(p),
           NEW q \in Moved(p) \cup Filtered(p) \cup Navigated(p) \cup Toggled(p)
    PROVE  /\ q.selected # p.selected =>
                 \/ q.selected = p.selected \cup {Highlighted(p).file}
                 \/ q.selected = p.selected \ {Highlighted(p).file}
           /\ q.cwd \in {p.cwd, Parent[p.cwd], Highlighted(p).dir}
<1>1. CASE q \in Moved(p)
  BY <1>1, MovedOK DEF Keeps
<1>2. CASE q \in Filtered(p)
  BY <1>2, FilteredOK DEF Keeps
<1>3. CASE q \in Navigated(p)
  BY <1>3, NavigatedOK DEF Keeps
<1>4. CASE q \in Toggled(p)
  BY <1>4, ToggledOK
<1> QED BY <1>1, <1>2, <1>3, <1>4

\* Only a key of the picker changes it while it is open, and only StartSend
\* gives a run its device.
LEMMA PicksTheShownNext == IInv /\ [Next]_vars => PicksTheShownStep
<1> SUFFICES ASSUME IInv, [Next]_vars PROVE PicksTheShownStep
  OBVIOUS
<1>1. CASE PickerKey
  <2>1. picker' \in Moved(picker) \cup Filtered(picker) \cup Navigated(picker) \cup Toggled(picker)
    BY <1>1 DEF PickerKey
  <2>2. PickerOK(picker) /\ target' = target
    BY <1>1 DEF IInv, PickerInv, PickerKey, taskVars, offerVars
  <2> QED BY <2>1, <2>2, PickerKeyShown DEF PicksTheShownStep
<1>2. ASSUME NEW r \in Run, StartSend(r) PROVE PicksTheShownStep
  <2>1. PickerOK(picker) /\ InSlot(picker.slot) = {picker.device} /\ Confirms(picker)
    BY <1>2 DEF IInv, PickerInv, StartSend
  <2>2. PICK d \in InSlot(picker.slot) : target' = [target EXCEPT ![r] = d]
    BY <1>2 DEF StartSend
  <2>3. files'[r] \subseteq Picked(picker)
    BY <1>2 DEF StartSend, IInv, FunctionTypes
  <2>4. picker' = None
    BY <1>2 DEF StartSend
  <2>5. ASSUME NEW x \in Run, target'[x] # target[x] PROVE x = r /\ target'[x] = picker.device
    BY <2>1, <2>2, <2>5 DEF IInv, FunctionTypes
  <2> QED BY <2>1, <2>3, <2>4, <2>5, PickedOK DEF PicksTheShownStep
<1>3. CASE target' = target /\ (picker = None \/ picker' \in {picker, None})
  BY <1>3 DEF PicksTheShownStep
<1>4. (App \/ StartPicking \/ ClosePicker \/ CtrlC \/ (\E d \in Device : DeviceUp(d)))
      => target' = target /\ (picker = None \/ picker' \in {picker, None})
  BY DEF App, TakeMail, TriggersToken, CancelReceived, StartPicking, ClosePicker, CtrlC, DeviceUp,
         taskVars, offerVars
<1>5. ASSUME NEW r \in Run, Task(r) \/ Receiver(r) PROVE target' = target /\ picker' = picker
  BY <1>5 DEF Task, Receiver, Responds, Prepared, CancelPrepare, Upload, Uploaded, UploadFailed, CancelUpload,
         TellReceiver, Answers, EndsUpload, ReceiverCancels, appVars, taskVars, offerVars
<1>6. UNCHANGED vars => target' = target /\ picker' = picker
  BY DEF vars, appVars, taskVars, offerVars
<1> QED BY <1>1, <1>2, <1>3, <1>4, <1>5, <1>6 DEF Next, Keys

\* Keys act on what the screen highlights, and what is picked goes to the
\* device whose key opened the picker (picker.rs:114).
THEOREM ShownIsPicked == Spec => PicksTheShown
<1>1. IInv /\ [Next]_vars => PicksTheShownStep
  BY PicksTheShownNext
<1> QED BY <1>1, IInvHolds, PTL DEF Spec, PicksTheShown, PicksTheShownStep

-----------------------------------------------------------------------------
(* The send that is on the screen is not waiting for nothing.              *)

\* A request has been made before its answer is awaited.
AskedInv ==
    \A r \in Run : /\ task[r] = "waiting" => session[r] # "none"
                   /\ task[r] = "reply" => up[r] # "none"

\* The receiver has been asked, or the task has something to do, or its end is
\* in the queue of the application.
SendGoesOn ==
    \A r \in Run : send = r =>
        \/ task[r] = "waiting" /\ session[r] # "none"
        \/ task[r] \in {"upload", "cancel"}
        \/ task[r] = "reply" /\ up[r] # "none"
        \/ task[r] = "ended" /\ \E k \in DOMAIN mail : mail[k] = Event("ended", r)

LEMMA AskedStep == ASSUME IInv, AskedInv, [Next]_vars PROVE AskedInv'
<1>0. FunctionTypes
  BY DEF IInv
<1> USE <1>0 DEF AskedInv, FunctionTypes, taskVars, offerVars, receiverVars
<1>1. ASSUME NEW x \in Run, Prepared(x) \/ CancelPrepare(x) \/ UploadFailed(x) \/ CancelUpload(x)
      PROVE  AskedInv'
  <2>1. session' = session /\ up' = up
    BY <1>1, Zenon DEF Prepared, CancelPrepare, UploadFailed, CancelUpload
  <2>2. \/ task' = [task EXCEPT ![x] = "upload"]
        \/ task' = [task EXCEPT ![x] = "cancel"]
        \/ task' = [task EXCEPT ![x] = "ended"]
    BY <1>1, Zenon DEF Prepared, CancelPrepare, UploadFailed, FailsUpload, CancelUpload, Ends, TellsFirst
  <2> QED BY <2>1, <2>2
<1>2. ASSUME NEW x \in Run, Upload(x) PROVE AskedInv'
  BY <1>2 DEF Upload
<1>3. ASSUME NEW x \in Run, Uploaded(x) PROVE AskedInv'
  <2>1. /\ session' = session /\ up' = [up EXCEPT ![x] = "none"]
        /\ \E position \in {"upload", "ended"} : task' = [task EXCEPT ![x] = position]
    BY <1>3 DEF Uploaded, Ends
  <2> QED BY <2>1
<1>4. ASSUME NEW x \in Run, TellReceiver(x) PROVE AskedInv'
  BY <1>4 DEF TellReceiver, Ends
<1>5. ASSUME NEW x \in Run, Receiver(x) PROVE AskedInv'
  <2>1. CASE Answers(x)
    BY <2>1 DEF Answers
  <2>2. CASE EndsUpload(x)
    <3>1. /\ task' = task
          /\ session' = session \/ session' = [session EXCEPT ![x] = "over"]
          /\ \E result \in {"ok", "err"} : up' = [up EXCEPT ![x] = result]
      BY <2>2 DEF EndsUpload
    <3> QED BY <3>1
  <2>3. CASE ReceiverCancels(x)
    BY <2>3 DEF ReceiverCancels
  <2> QED BY <1>5, <2>1, <2>2, <2>3 DEF Receiver, Responds
<1>6. ASSUME NEW x \in Run, StartSend(x) PROVE AskedInv'
  <2>1. /\ task' = [task EXCEPT ![x] = "waiting"] /\ session' = [session EXCEPT ![x] = "asked"]
        /\ up' = up
    BY <1>6 DEF StartSend, otherVars
  <2> QED BY <2>1
<1>7. CASE App \/ StartPicking \/ PickerKey \/ ClosePicker \/ CtrlC \/ (\E d \in Device : DeviceUp(d))
           \/ UNCHANGED vars
  <2>1. task' = task /\ session' = session /\ up' = up
    BY <1>7 DEF App, TakeMail, TriggersToken, CancelReceived, StartPicking, PickerKey, ClosePicker, CtrlC,
                DeviceUp, vars, appVars, cancelVars, otherVars
  <2> QED BY <2>1
<1> QED BY <1>1, <1>2, <1>3, <1>4, <1>5, <1>6, <1>7 DEF Next, Keys, Task

\* As long as a send is on the screen, its task has something to do, or waits
\* for an answer it has asked for, or the application will hear that it ended:
\* what SendEnds needs beyond fairness (send_task.rs:47).
THEOREM SendsGoOn == Spec => []SendGoesOn
<1>1. Init => AskedInv
  BY DEF Init, AskedInv
<1>2. IInv /\ AskedInv /\ [Next]_vars => AskedInv'
  BY AskedStep
<1>3. IInv /\ AskedInv => SendGoesOn
  <2> SUFFICES ASSUME IInv, AskedInv, NEW r \in Run, send = r
               PROVE  \/ task[r] = "waiting" /\ session[r] # "none"
                      \/ task[r] \in {"upload", "cancel"}
                      \/ task[r] = "reply" /\ up[r] # "none"
                      \/ task[r] = "ended" /\ \E k \in DOMAIN mail : mail[k] = Event("ended", r)
    BY DEF SendGoesOn
  <2>1. Unheard(r) /\ task[r] \in {"waiting", "upload", "reply", "cancel", "ended"}
    BY ConstantsAssumption DEF IInv, AppInv, Unheard, FunctionTypes
  <2>2. CASE task[r] = "ended"
    <3> DEFINE e == Event("ended", r)
               b == Event("started", r)
    <3>1. mail = <<e>> \/ mail = <<b, e>>
      BY <2>1, <2>2 DEF Unheard
    <3>2. \E k \in DOMAIN mail : mail[k] = e
      <4> HIDE DEF e, b
      <4>1. CASE mail = <<e>>
        <5>1. 1 \in DOMAIN mail /\ mail[1] = e
          BY <4>1
        <5> QED BY <5>1
      <4>2. CASE mail = <<b, e>>
        <5>1. 2 \in DOMAIN mail /\ mail[2] = e
          BY <4>2
        <5> QED BY <5>1
      <4> QED BY <3>1, <4>1, <4>2
    <3> QED BY <2>2, <3>2
  <2>3. (task[r] = "waiting" => session[r] # "none") /\ (task[r] = "reply" => up[r] # "none")
    BY DEF AskedInv
  <2> QED BY <2>1, <2>2, <2>3
<1> QED BY <1>1, <1>2, <1>3, IInvHolds, PTL DEF Spec
=============================================================================
