------------------------ MODULE MulticastDiscoveryProofs ------------------------
(***************************************************************************)
(* Theorems about InterfaceFilter and MulticastDiscovery, for any network  *)
(* interfaces, filters, devices and bounds.                                *)
(***************************************************************************)
EXTENDS MulticastDiscovery, FiniteSetTheorems, SequenceTheorems, TLAPS

(* Naturals.                                                               *)

\* A set of naturals has a least element: the initial segments are well-founded.
LEMMA LeastNat ==
    ASSUME NEW T \in SUBSET Nat, T # {}
    PROVE  \E x \in T : \A y \in T : x <= y
<1> DEFINE C == {0..n : n \in T}
           R == StrictSubsetOrdering(Nat)
<1>1. C \subseteq FiniteSubsetsOf(Nat) /\ C # {}
  <2>1. \A n \in T : n \in Int /\ 0..n \in SUBSET Nat
    OBVIOUS
  <2>2. \A n \in T : IsFiniteSet(0..n)
    BY <2>1, FS_Interval
  <2> QED BY <2>1, <2>2 DEF FiniteSubsetsOf
<1>2. \E u \in C : \A w \in C : ~(<<w, u>> \in R)
  <2> HIDE DEF C
  <2> QED BY <1>1, FS_StrictSubsetOrderingWellFounded, WFMin
<1>3. PICK x \in T : \A y \in T : ~(<<0..y, 0..x>> \in R)
  BY <1>2
<1>4. ASSUME NEW y \in T, y < x PROVE FALSE
  <2>1. 0..y \in SUBSET Nat /\ 0..x \in SUBSET Nat /\ 0..y \subseteq 0..x /\ 0..y # 0..x
    <3>1. x \in 0..x /\ x \notin 0..y
      BY <1>4
    <3> QED BY <1>4, <3>1
  <2> QED BY <1>3, <2>1 DEF StrictSubsetOrdering
<1>5. \A y \in T : x <= y
  BY <1>4
<1> QED BY <1>5

\* Min of FiniteSetsExt is one.
LEMMA MinIsElement == ASSUME NEW T \in SUBSET Nat, T # {} PROVE Min(T) \in T
  BY LeastNat DEF Min

-----------------------------------------------------------------------------
(* The filter of the interfaces.                                           *)

LEMMA LabelEndIs ==
    ASSUME NEW A, Len(A) \in Nat, NEW a \in Nat, NEW b \in Nat, b <= Len(A)
    PROVE  b <= LabelEnd(A, a) <=> \A k \in a..b : A[k] # "."
<1> DEFINE dots == {k \in a..Len(A) : A[k] = "."}
           T == dots \cup {Len(A) + 1}
<1>1. T \in SUBSET Nat /\ T # {} /\ \A k \in dots : k \in Nat /\ a <= k /\ k <= Len(A)
  OBVIOUS
<1>2. LabelEnd(A, a) = Min(T) - 1
  BY DEF LabelEnd
<1>3. Min(T) \in T /\ \A y \in T : Min(T) <= y
  <2> HIDE DEF T
  <2> QED BY <1>1, LeastNat DEF Min
<1>4. Min(T) \in Nat
  <2> HIDE DEF T
  <2> QED BY <1>1, <1>3
<1> DEFINE m == Min(T)
<1>5. m \in Nat /\ LabelEnd(A, a) = m - 1 /\ (m \in dots \/ m = Len(A) + 1)
      /\ \A k \in dots : m <= k
  BY <1>2, <1>3, <1>4
<1> HIDE DEF m, T
<1>6. ASSUME b <= LabelEnd(A, a), NEW k \in a..b PROVE A[k] # "."
  <2>1. k \notin dots
    BY <1>5, <1>6
  <2> QED BY <2>1
<1>7. ASSUME \A k \in a..b : A[k] # "." PROVE b <= LabelEnd(A, a)
  <2>1. CASE m \in dots
    <3>1. m \notin a..b /\ a <= m
      BY <1>7, <2>1
    <3> QED BY <1>5, <3>1
  <2>2. CASE m = Len(A) + 1
    BY <1>5, <2>2
  <2> QED BY <1>5, <2>1, <2>2
<1> QED BY <1>6, <1>7

LEMMA LabelEndType ==
    ASSUME NEW A, Len(A) \in Nat, NEW a \in Nat
    PROVE  LabelEnd(A, a) \in Int /\ LabelEnd(A, a) <= Len(A)
<1> DEFINE T == {k \in a..Len(A) : A[k] = "."} \cup {Len(A) + 1}
<1>1. T \in SUBSET Nat /\ T # {} /\ \A k \in T : k <= Len(A) + 1
  OBVIOUS
<1>2. Min(T) \in T
  <2> HIDE DEF T
  <2> QED BY <1>1, MinIsElement
<1>3. LabelEnd(A, a) = Min(T) - 1
  BY DEF LabelEnd
<1> DEFINE m == Min(T)
<1>4. m \in Nat /\ m <= Len(A) + 1 /\ LabelEnd(A, a) = m - 1
  <2> HIDE DEF T
  <2> QED BY <1>1, <1>2, <1>3
<1> HIDE DEF m
<1> QED BY <1>4

\* What is behind the first c characters of the address can be cut for what is
\* behind the first d symbols of the pattern.
Suffix(P, A, d, c) ==
    \E cut \in [d..Len(P) -> 0..Len(A)] :
        /\ cut[d] = c /\ cut[Len(P)] = Len(A)
        /\ \A k \in (d + 1)..Len(P) : Covers(P[k], A, cut[k - 1], cut[k])

LEMMA SuffixEnd ==
    ASSUME NEW P, NEW A, Len(P) \in Nat, Len(A) \in Nat, NEW c \in 0..Len(A)
    PROVE  Suffix(P, A, Len(P), c) <=> c = Len(A)
<1> DEFINE n == Len(P)
<1>1. ASSUME Suffix(P, A, n, c) PROVE c = Len(A)
  BY <1>1 DEF Suffix
<1>2. ASSUME c = Len(A) PROVE Suffix(P, A, n, c)
  <2> DEFINE cut == [k \in n..n |-> Len(A)]
  <2>1. cut \in [n..n -> 0..Len(A)] /\ cut[n] = Len(A)
    OBVIOUS
  <2>2. (n + 1)..n = {}
    OBVIOUS
  <2>3. \A k \in (n + 1)..n : Covers(P[k], A, cut[k - 1], cut[k])
    BY <2>2
  <2> HIDE DEF cut
  <2> QED BY <1>2, <2>1, <2>3 DEF Suffix
<1> QED BY <1>1, <1>2

LEMMA SuffixStep ==
    ASSUME NEW P, NEW A, Len(P) \in Nat, Len(A) \in Nat,
           NEW d \in Nat, d < Len(P), NEW c \in 0..Len(A)
    PROVE  Suffix(P, A, d, c)
           <=> \E b \in 0..Len(A) : Covers(P[d + 1], A, c, b) /\ Suffix(P, A, d + 1, b)
<1> DEFINE n == Len(P)
           L == Len(A)
           p == d + 1
<1>0. n \in Nat /\ L \in Nat /\ p \in Nat /\ d + 1 = p /\ p - 1 = d /\ p <= n /\ d # p /\ d # n
  OBVIOUS
<1> HIDE DEF p
<1>1. ASSUME Suffix(P, A, d, c)
      PROVE  \E b \in 0..L : Covers(P[p], A, c, b) /\ Suffix(P, A, p, b)
  <2>1. PICK cut \in [d..n -> 0..L] :
           /\ cut[d] = c /\ cut[n] = L
           /\ \A k \in p..n : Covers(P[k], A, cut[k - 1], cut[k])
    BY <1>0, <1>1 DEF Suffix
  <2>2. p \in p..n /\ p \in d..n /\ n \in p..n
    BY <1>0
  <2>3. cut[p] \in 0..L /\ Covers(P[p], A, c, cut[p])
    BY <1>0, <2>1, <2>2
  <2> DEFINE tail == [k \in p..n |-> cut[k]]
  <2>4. \A k \in p..n : k \in d..n
    BY <1>0
  <2>5. tail \in [p..n -> 0..L] /\ tail[p] = cut[p] /\ tail[n] = L
    BY <2>1, <2>2, <2>4
  <2>6. ASSUME NEW k \in (p + 1)..n PROVE Covers(P[k], A, tail[k - 1], tail[k])
    <3>1. k \in p..n /\ k - 1 \in p..n
      BY <1>0
    <3>2. tail[k - 1] = cut[k - 1] /\ tail[k] = cut[k]
      BY <3>1
    <3> QED BY <2>1, <3>1, <3>2
  <2> HIDE DEF tail
  <2>7. Suffix(P, A, p, cut[p])
    BY <2>5, <2>6 DEF Suffix
  <2> QED BY <2>3, <2>7
<1>2. ASSUME NEW b \in 0..L, Covers(P[p], A, c, b), Suffix(P, A, p, b)
      PROVE  Suffix(P, A, d, c)
  <2>1. PICK tail \in [p..n -> 0..L] :
           /\ tail[p] = b /\ tail[n] = L
           /\ \A k \in (p + 1)..n : Covers(P[k], A, tail[k - 1], tail[k])
    BY <1>2 DEF Suffix
  <2> DEFINE cut == [k \in d..n |-> IF k = d THEN c ELSE tail[k]]
  <2>2. d \in d..n /\ p \in d..n /\ n \in d..n
    BY <1>0
  <2>3. \A k \in d..n : k # d => k \in p..n
    BY <1>0
  <2>4. cut \in [d..n -> 0..L]
    BY <2>1, <2>3
  <2>5. cut[d] = c /\ cut[p] = b /\ cut[n] = L
    BY <1>0, <2>1, <2>2
  <2>6. ASSUME NEW k \in p..n PROVE Covers(P[k], A, cut[k - 1], cut[k])
    <3>1. CASE k = p
      BY <1>0, <1>2, <2>5, <3>1
    <3>2. CASE k # p
      <4>1. k \in (p + 1)..n /\ k \in d..n /\ k - 1 \in d..n /\ k # d /\ k - 1 # d
        BY <1>0, <3>2
      <4>2. cut[k - 1] = tail[k - 1] /\ cut[k] = tail[k]
        BY <4>1
      <4> QED BY <2>1, <4>1, <4>2
    <3> QED BY <3>1, <3>2
  <2> HIDE DEF cut
  <2> QED BY <1>0, <2>4, <2>5, <2>6 DEF Suffix
<1> QED BY <1>1, <1>2 DEF p

\* One step of the match, as the code takes it.
MatchedFrom(P, A, f, p) ==
    IF p > Len(P) THEN {Len(A) + 1}
    ELSE {a \in 1..Len(A) :
            IF P[p] = "*"
            THEN \E n \in a..LabelEnd(A, a) : n + 1 \in f[p + 1]
            ELSE A[a] = P[p] /\ a + 1 \in f[p + 1]}

\* From p on the address matches exactly where its rest can be cut.
Starts(P, A, p) == {a \in 1..(Len(A) + 1) : Suffix(P, A, p - 1, a - 1)}

LEMMA MatchedFromIs ==
    ASSUME NEW P, NEW A, Len(P) \in Nat, Len(A) \in Nat, NEW p \in 1..(Len(P) + 1), NEW f,
           p <= Len(P) => f[p + 1] = Starts(P, A, p + 1)
    PROVE  MatchedFrom(P, A, f, p) = Starts(P, A, p)
<1> DEFINE n == Len(P)
           L == Len(A)
<1>1. CASE p = n + 1
  <2>1. p > Len(P) /\ p - 1 = n
    BY <1>1
  <2>2. MatchedFrom(P, A, f, p) = {L + 1}
    BY <2>1 DEF MatchedFrom
  <2>3. L + 1 \in 1..(L + 1)
    OBVIOUS
  <2>4. \A a \in 1..(L + 1) : a - 1 \in 0..L /\ (a - 1 = L <=> a = L + 1)
    OBVIOUS
  <2>5. \A a \in 1..(L + 1) : Suffix(P, A, p - 1, a - 1) <=> a = L + 1
    BY <2>1, <2>4, SuffixEnd
  <2> QED BY <2>2, <2>3, <2>5 DEF Starts
<1>2. CASE p \in 1..n
  <2>1. ~(p > Len(P)) /\ p <= Len(P) /\ p - 1 \in Nat /\ p - 1 < Len(P) /\ p - 1 + 1 = p /\ p + 1 - 1 = p
    BY <1>2
  <2>2. ASSUME NEW a \in 1..(L + 1)
        PROVE  a \in MatchedFrom(P, A, f, p) <=> Suffix(P, A, p - 1, a - 1)
    <3>1. a \in Nat /\ 1 <= a /\ a <= L + 1 /\ a - 1 \in 0..L /\ a - 1 + 1 = a
      OBVIOUS
    <3>2. Suffix(P, A, p - 1, a - 1)
          <=> \E b \in 0..L : Covers(P[p], A, a - 1, b) /\ Suffix(P, A, p, b)
      BY <2>1, <3>1, SuffixStep
    <3>3. ASSUME NEW b \in 0..L PROVE b + 1 \in f[p + 1] <=> Suffix(P, A, p, b)
      <4>1. b + 1 - 1 = b /\ b + 1 \in 1..(L + 1)
        OBVIOUS
      <4>2. f[p + 1] = {c \in 1..(L + 1) : Suffix(P, A, p + 1 - 1, c - 1)}
        BY <2>1 DEF Starts
      <4>3. b + 1 \in f[p + 1] <=> Suffix(P, A, p + 1 - 1, b + 1 - 1)
        BY <4>1, <4>2
      <4> QED BY <2>1, <4>1, <4>3
    <3>4. CASE P[p] = "*"
      <4>1. ASSUME NEW b \in 0..L
            PROVE  Covers(P[p], A, a - 1, b) <=> a <= b /\ b <= LabelEnd(A, a)
        <5>1. b \in Nat /\ b <= L /\ (a - 1 < b <=> a <= b)
          BY <3>1
        <5>2. b <= LabelEnd(A, a) <=> \A k \in a..b : A[k] # "."
          BY <3>1, <5>1, LabelEndIs
        <5> QED BY <3>1, <3>4, <5>1, <5>2 DEF Covers
      <4>2. a \in MatchedFrom(P, A, f, p)
            <=> a \in 1..L /\ \E k \in a..LabelEnd(A, a) : k + 1 \in f[p + 1]
        BY <2>1, <3>4 DEF MatchedFrom
      <4> DEFINE e == LabelEnd(A, a)
      <4>3. e \in Int /\ e <= L
        BY <3>1, LabelEndType
      <4> HIDE DEF e
      <4>4. \A b \in 0..L : a <= b /\ b <= e => a \in 1..L /\ b \in a..e
        BY <3>1, <4>3
      <4>5. \A b \in a..e : b \in 0..L /\ a <= b /\ b <= e
        BY <3>1, <4>3
      <4>6. (\E b \in 0..L : Covers(P[p], A, a - 1, b) /\ Suffix(P, A, p, b))
            <=> a \in 1..L /\ \E k \in a..e : k + 1 \in f[p + 1]
        BY <3>3, <4>1, <4>4, <4>5 DEF e
      <4> QED BY <3>2, <4>2, <4>6 DEF e
    <3>5. CASE P[p] # "*"
      <4>1. \A b \in 0..L : Covers(P[p], A, a - 1, b) <=> b = a /\ A[a] = P[p]
        BY <3>1, <3>5 DEF Covers
      <4>2. a \in MatchedFrom(P, A, f, p) <=> a \in 1..L /\ A[a] = P[p] /\ a + 1 \in f[p + 1]
        BY <2>1, <3>5 DEF MatchedFrom
      <4>3. a \in 0..L <=> a \in 1..L
        BY <3>1
      <4> QED BY <3>2, <3>3, <4>1, <4>2, <4>3
    <3> QED BY <3>4, <3>5
  <2>3. MatchedFrom(P, A, f, p) \subseteq 1..(L + 1)
    BY <2>1 DEF MatchedFrom
  <2> QED BY <2>2, <2>3 DEF Starts
<1> QED BY <1>1, <1>2

\* What fits the recursion is unique, and so is what the recursion computes.
LEMMA MatchedIs ==
    ASSUME NEW P, NEW A, Len(P) \in Nat, Len(A) \in Nat, NEW f,
           f = [p \in 1..(Len(P) + 1) |-> MatchedFrom(P, A, f, p)]
    PROVE  \A p \in 1..(Len(P) + 1) : f[p] = Starts(P, A, p)
<1> DEFINE n == Len(P)
           T == {k \in 0..n : f[n + 1 - k] # Starts(P, A, n + 1 - k)}
<1>1. \A k \in 0..n : n + 1 - k \in 1..(n + 1)
  OBVIOUS
<1>2. \A p \in 1..(n + 1) : f[p] = MatchedFrom(P, A, f, p)
  <2> DEFINE g == [p \in 1..(n + 1) |-> MatchedFrom(P, A, f, p)]
  <2>1. \A p \in 1..(n + 1) : g[p] = MatchedFrom(P, A, f, p)
    OBVIOUS
  <2>2. f = g
    OBVIOUS
  <2> HIDE DEF g
  <2> QED BY <2>1, <2>2
<1>3. T = {}
  <2> SUFFICES ASSUME T # {} PROVE FALSE
    OBVIOUS
  <2>1. T \in SUBSET Nat
    OBVIOUS
  <2>2. PICK k \in T : \A j \in T : k <= j
    <3> HIDE DEF T
    <3> QED BY <2>1, LeastNat
  <2> DEFINE p == n + 1 - k
  <2>3. k \in 0..n /\ f[p] # Starts(P, A, p)
    BY <2>2
  <2>4. p \in 1..(n + 1)
    BY <2>3
  <2>5. p <= n => f[p + 1] = Starts(P, A, p + 1)
    <3> SUFFICES ASSUME p <= n PROVE f[p + 1] = Starts(P, A, p + 1)
      OBVIOUS
    <3>1. k - 1 \in 0..n /\ n + 1 - (k - 1) = p + 1 /\ ~(k <= k - 1)
      BY <2>3
    <3>2. k - 1 \notin T
      BY <2>2, <3>1
    <3> QED BY <3>1, <3>2
  <2> HIDE DEF p
  <2>6. MatchedFrom(P, A, f, p) = Starts(P, A, p)
    BY <2>4, <2>5, MatchedFromIs
  <2> QED BY <1>2, <2>3, <2>4, <2>6
<1>4. ASSUME NEW p \in 1..(n + 1) PROVE f[p] = Starts(P, A, p)
  <2>1. n + 1 - p \in 0..n /\ n + 1 - (n + 1 - p) = p
    OBVIOUS
  <2>2. n + 1 - p \notin T
    BY <1>3
  <2> QED BY <2>1, <2>2
<1> QED BY <1>4

\* The filter of the code is the documented one, for every pattern and address
\* (interface.rs:7, interface.rs:57).
THEOREM FilterIsDocumented ==
    ASSUME NEW P, NEW A, Len(P) \in Nat, Len(A) \in Nat
    PROVE  MatchesIpFilter(P, A) <=> Documented(P, A)
<1> DEFINE n == Len(P)
           Fits(f) == f = [p \in 1..(n + 1) |-> MatchedFrom(P, A, f, p)]
           F == [p \in 1..(n + 1) |-> Starts(P, A, p)]
           M == CHOOSE f : Fits(f)
<1>1. MatchesIpFilter(P, A) <=> 1 \in M[1]
  BY DEF MatchesIpFilter, MatchedFrom
<1>2. Fits(F)
  <2>1. ASSUME NEW p \in 1..(n + 1) PROVE MatchedFrom(P, A, F, p) = Starts(P, A, p)
    <3>1. p <= n => p + 1 \in 1..(n + 1)
      OBVIOUS
    <3>2. p <= n => F[p + 1] = Starts(P, A, p + 1)
      BY <3>1
    <3> HIDE DEF F
    <3> QED BY <3>2, MatchedFromIs
  <2>2. [p \in 1..(n + 1) |-> MatchedFrom(P, A, F, p)] = [p \in 1..(n + 1) |-> Starts(P, A, p)]
    BY <2>1
  <2> QED BY <2>2
<1>3. Fits(M)
  <2> HIDE DEF Fits, F
  <2> QED BY <1>2
<1>4. M[1] = Starts(P, A, 1)
  <2>1. 1 \in 1..(n + 1)
    OBVIOUS
  <2> HIDE DEF M
  <2> QED BY <1>3, <2>1, MatchedIs
<1>5. 1 \in Starts(P, A, 1) <=> Suffix(P, A, 0, 0)
  BY DEF Starts
<1>6. Suffix(P, A, 0, 0) <=> Documented(P, A)
  BY DEF Suffix, Documented
<1> HIDE DEF M
<1> QED BY <1>1, <1>4, <1>5, <1>6

\* An interface that is used is none that the documentation excludes.
LEMMA UsedIsAllowed ==
    ASSUME NEW v \in 0..MaxSettings, NEW i \in LocalInterfaces(Entries, Filter[v]), i \in Interface
    PROVE  i \notin Excluded[v]
<1> DEFINE addresses == Addresses(ByName(Entries, i.name))
           Names(patterns) == \E a \in addresses, p \in patterns : Documented(p, a)
<1>1. PICK e \in Entries : Usable(Entries, Filter[v], e) /\ i.name = e.name
  BY DEF LocalInterfaces
<1>2. ~IsIgnored(Filter[v], addresses)
  BY <1>1 DEF Usable
<1>3. \A a \in addresses : Len(a) \in Nat
  BY ConstantsAssumption DEF Addresses, ByName
<1>4. ASSUME NEW patterns \in {Filter[v].whitelist, Filter[v].blacklist}, patterns # None
      PROVE  AnyAddressMatches(addresses, patterns) <=> Names(patterns)
  <2>1. \A p \in patterns : Len(p) \in Nat
    BY <1>4, ConstantsAssumption
  <2> HIDE DEF addresses
  <2>2. \A a \in addresses, p \in patterns : MatchesIpFilter(p, a) <=> Documented(p, a)
    BY <1>3, <2>1, FilterIsDocumented
  <2> QED BY <2>2 DEF AnyAddressMatches
<1>5. i \in Excluded[v] => \/ Filter[v].whitelist # None /\ ~Names(Filter[v].whitelist)
                           \/ Filter[v].blacklist # None /\ Names(Filter[v].blacklist)
  BY DEF Excluded
<1> HIDE DEF addresses, Names
<1> QED BY <1>2, <1>4, <1>5 DEF IsIgnored
-----------------------------------------------------------------------------
(* The inductive invariant.                                                *)

Types ==
    /\ settings \in 0..MaxSettings /\ used \in 0..MaxSettings
    /\ asked \in 0..MaxSettings /\ heeded \in 0..MaxSettings
    /\ serving \in BOOLEAN /\ retry \in BOOLEAN /\ listed \in BOOLEAN
    /\ listener \in {"starting", "started", "waiting", "listening"}
    /\ task \in {"none", "running", "cancelled", "over"}
    /\ stop \in {"no", "sent", "returned"}
    /\ delayed \in Nat /\ sending \in Nat /\ stale \in Nat
    /\ found \subseteq Device

\* A loop that delivers has a message of a peer in hand, and one at work has
\* not failed too often.
LoopTypes ==
    /\ loop \in [Interface -> {"off", "receive", "deliver", "over"}]
    /\ hand \in [Interface -> Peer \cup {None}]
    /\ errors \in [Interface -> 0..MaxErrors]
    /\ \A i \in Interface : IF loop[i] = "deliver" THEN hand[i] \in Peer ELSE hand[i] = None
    /\ \A i \in Interface : loop[i] \in {"receive", "deliver"} => errors[i] < MaxErrors

QueueTypes ==
    /\ queue \in Seq(Peer) /\ Len(queue) <= QueueSize
    /\ asking \in [Device -> Nat] /\ answered \in [Device -> Nat]
    /\ ignored \in [Device -> Nat] /\ heard \in [Device -> Nat]

\* Between two instances nothing is left of the first.
NothingRuns == Closed /\ ~listed /\ delayed = 0 /\ sending = 0
BetweenInstances ==
    /\ task \in {"none", "over"} => NothingRuns
    /\ listener \in {"starting", "waiting"} => task \in {"none", "over"} /\ queue = <<>>
    /\ stop = "returned" => task = "over"

\* What receives is an interface that the filter of the start allows.
AllowedOnly ==
    \A i \in Interface :
        loop[i] \in {"receive", "deliver"} => i \in LocalInterfaces(Entries, Filter[used])

InQueue(q, d) == Cardinality({k \in DOMAIN q : q[k] = d})
Counted(d) == heard[d] = InQueue(queue, d) + asking[d] + answered[d] + ignored[d]
AllCounted == (\A d \in Device : Counted(d)) /\ heard[Self] = 0

IInv == Types /\ LoopTypes /\ QueueTypes /\ BetweenInstances /\ AllowedOnly /\ AllCounted
-----------------------------------------------------------------------------
(* The events in the channel.                                              *)

LEMMA InQueueType ==
    ASSUME NEW S, NEW q \in Seq(S), NEW d
    PROVE  /\ IsFiniteSet({k \in DOMAIN q : q[k] = d}) /\ InQueue(q, d) \in Nat
           /\ DOMAIN q = 1..Len(q) /\ Len(q) \in Nat
<1>1. DOMAIN q = 1..Len(q) /\ Len(q) \in Nat
  OBVIOUS
<1>2. IsFiniteSet(1..Len(q))
  <2>1. 1 \in Int /\ Len(q) \in Int
    BY <1>1
  <2> QED BY <2>1, FS_Interval
<1> DEFINE K == {k \in DOMAIN q : q[k] = d}
<1>3. K \in SUBSET (1..Len(q)) /\ InQueue(q, d) = Cardinality(K)
  BY <1>1 DEF InQueue
<1> HIDE DEF K
<1>4. IsFiniteSet(K) /\ Cardinality(K) \in Nat
  BY <1>2, <1>3, FS_Subset, FS_CardinalityType
<1> QED BY <1>1, <1>3, <1>4 DEF K

LEMMA InQueueAppend ==
    ASSUME NEW S, NEW q \in Seq(S), NEW e \in S, NEW d
    PROVE  InQueue(Append(q, e), d) = InQueue(q, d) + IF e = d THEN 1 ELSE 0
<1> DEFINE K == {k \in DOMAIN q : q[k] = d}
           J == {k \in DOMAIN Append(q, e) : Append(q, e)[k] = d}
           n == Len(q) + 1
<1>1. /\ IsFiniteSet(K) /\ InQueue(q, d) \in Nat /\ DOMAIN q = 1..Len(q) /\ Len(q) \in Nat
      /\ InQueue(q, d) = Cardinality(K) /\ InQueue(Append(q, e), d) = Cardinality(J)
  BY InQueueType DEF InQueue
<1>2. /\ DOMAIN Append(q, e) = 1..n /\ Append(q, e)[n] = e
      /\ \A k \in 1..Len(q) : Append(q, e)[k] = q[k]
  BY AppendProperties, LenProperties
<1>3. \A k : k \in 1..n <=> k \in 1..Len(q) \/ k = n
  BY <1>1
<1>4. n \notin 1..Len(q)
  BY <1>1
<1> HIDE DEF n
<1>5. n \notin K
  BY <1>1, <1>4
<1>6. CASE e = d
  <2>1. J = K \cup {n}
    BY <1>1, <1>2, <1>3, <1>6
  <2> HIDE DEF J, K
  <2> QED BY <1>1, <1>5, <1>6, <2>1, FS_AddElement
<1>7. CASE e # d
  <2>1. J = K
    BY <1>1, <1>2, <1>3, <1>4, <1>7
  <2> HIDE DEF J, K
  <2> QED BY <1>1, <1>7, <2>1
<1> QED BY <1>6, <1>7

\* Every event but the first moves up by one.
LEMMA InQueueTail ==
    ASSUME NEW S, NEW q \in Seq(S), q # <<>>, NEW d
    PROVE  InQueue(q, d) = InQueue(Tail(q), d) + IF Head(q) = d THEN 1 ELSE 0
<1> DEFINE K == {k \in DOMAIN q : q[k] = d}
           J == {k \in DOMAIN Tail(q) : Tail(q)[k] = d}
           Moved == K \ {1}
           up == [k \in J |-> k + 1]
<1>1. /\ IsFiniteSet(K) /\ DOMAIN q = 1..Len(q) /\ Len(q) \in Nat /\ Len(q) # 0
      /\ InQueue(q, d) = Cardinality(K)
  BY InQueueType, EmptySeq DEF InQueue
<1>2. /\ Tail(q) \in Seq(S) /\ Len(Tail(q)) = Len(q) - 1 /\ Head(q) = q[1]
      /\ \A k \in 1..Len(Tail(q)) : Tail(q)[k] = q[k + 1]
  BY HeadTailProperties
<1>3. IsFiniteSet(J) /\ InQueue(Tail(q), d) \in Nat /\ InQueue(Tail(q), d) = Cardinality(J)
      /\ DOMAIN Tail(q) = 1..(Len(q) - 1)
  BY <1>2, InQueueType DEF InQueue
<1>4. \A k \in J : k \in Nat /\ 1 <= k /\ k <= Len(q) - 1 /\ q[k + 1] = d
  BY <1>1, <1>2, <1>3
<1>5. \A k \in J : k + 1 \in Moved
  BY <1>1, <1>4
<1>6. \A k \in Moved : k - 1 \in J /\ k - 1 + 1 = k
  <2> TAKE k \in Moved
  <2>1. k \in 1..Len(q) /\ k # 1 /\ q[k] = d
    BY <1>1
  <2>2. k - 1 \in 1..(Len(q) - 1) /\ k - 1 + 1 = k
    BY <1>1, <2>1
  <2> QED BY <1>2, <1>3, <2>1, <2>2
<1>7. up \in Bijection(J, Moved)
  <2>1. up \in [J -> Moved]
    BY <1>5
  <2>2. \A a, b \in J : up[a] = up[b] => a = b
    BY <1>4
  <2>3. \A t \in Moved : \E k \in J : up[k] = t
    BY <1>6
  <2> HIDE DEF up, J, Moved
  <2> QED BY <2>1, <2>2, <2>3 DEF Bijection, Injection, Surjection, IsInjective
<1> HIDE DEF up, J
<1>8. IsFiniteSet(Moved) /\ Cardinality(Moved) = Cardinality(J)
  <2>1. ExistsBijection(J, Moved)
    BY <1>7 DEF ExistsBijection
  <2> HIDE DEF Moved
  <2> QED BY <1>3, <2>1, FS_Bijection
<1>9. Head(q) = d <=> 1 \in K
  BY <1>1, <1>2
<1>10. CASE Head(q) = d
  <2>1. K = Moved \cup {1} /\ 1 \notin Moved
    BY <1>9, <1>10
  <2> HIDE DEF K, Moved
  <2> QED BY <1>1, <1>3, <1>8, <1>10, <2>1, FS_AddElement
<1>11. CASE Head(q) # d
  <2>1. K = Moved
    BY <1>9, <1>11
  <2> HIDE DEF K, Moved
  <2> QED BY <1>1, <1>3, <1>8, <1>11, <2>1
<1> QED BY <1>10, <1>11
-----------------------------------------------------------------------------
(* The steps, one conjunct at a time.                                       *)

LEMMA TypesStep == IInv /\ [Next]_vars => Types'
<1> SUFFICES ASSUME IInv, [Next]_vars PROVE Types'
  OBVIOUS
<1>0. Types
  BY DEF IInv
<1>1. CASE ChangeSettings
  BY <1>0, <1>1, ConstantsAssumption DEF Types, ChangeSettings, world, answers, loopVars,
     sendVars, requests, Device
<1>2. CASE ServerTurns
  BY <1>0, <1>2 DEF Types, ServerTurns, world, answers, loopVars, sendVars, requests, Device
<1>3. CASE Restart
  BY <1>0, <1>3 DEF Types, Restart, StopInstance, world, answers, loopVars, sendVars, requests,
     Device
<1>4. CASE Announce
  BY <1>0, <1>4 DEF Types, Announce, world, answers, loopVars, sendVars, requests, Device
<1>5. CASE Cancel
  BY <1>0, <1>5 DEF Types, Cancel, world, answers, loopVars, sendVars, requests, Device
<1>6. CASE Finish
  <2>1. stale + sending \in Nat
    BY <1>0 DEF Types
  <2> QED BY <1>0, <1>6, <2>1 DEF Types, Finish, world, answers, loopVars, requests
<1>7. CASE Send
  BY <1>0, <1>7 DEF Types, Send, world, answers, loopVars, sendVars, requests, Device
<1>8. CASE StaleSent
  BY <1>0, <1>8 DEF Types, StaleSent, world, answers, loopVars, sendVars, requests, Device
<1>9. CASE Started
  BY <1>0, <1>9 DEF Types, Started, world, answers, loopVars, sendVars, requests, Device
<1>10. CASE StartFails
  BY <1>0, <1>10 DEF Types, StartFails, world, answers, loopVars, sendVars, requests, Device
<1>11. CASE Retry
  BY <1>0, <1>11 DEF Types, Retry, StartAgain, NewRound, world, answers, loopVars, sendVars,
     requests, Device
<1>12. CASE Handle
  BY <1>0, <1>12 DEF Types, Handle, world, answers, loopVars, sendVars, requests, Device
<1>13. CASE StreamEnds
  BY <1>0, <1>13 DEF Types, StreamEnds, StartAgain, NewRound, Drained, world, answers, loopVars,
     sendVars, requests, Device
<1>14. ASSUME NEW i \in Interface, NEW d \in Device \cup {None}, Receive(i, d) PROVE Types'
  BY <1>0, <1>14 DEF Types, Receive, world, answers, loopVars, sendVars, requests, Device
<1>15. ASSUME NEW i \in Interface, ReceiveFails(i) PROVE Types'
  BY <1>0, <1>15 DEF Types, ReceiveFails, world, answers, loopVars, sendVars, requests, Device
<1>16. ASSUME NEW i \in Interface, Deliver(i) PROVE Types'
  BY <1>0, <1>16 DEF Types, Deliver, world, answers, loopVars, sendVars, requests, Device
<1>17. ASSUME NEW i \in Interface, Abort(i) PROVE Types'
  BY <1>0, <1>17 DEF Types, Abort, world, answers, loopVars, sendVars, requests, Device
<1>18. ASSUME NEW bound \in BindSockets[used], Bind(bound) PROVE Types'
  BY <1>0, <1>18 DEF Types, Bind, world, answers, loopVars, sendVars, requests, Device
<1>19. ASSUME NEW more \in BOOLEAN, Sent(more) PROVE Types'
  BY <1>0, <1>19 DEF Types, Sent, world, answers, loopVars, sendVars, requests, Device
<1>20. ASSUME NEW d \in Device, NEW ok \in BOOLEAN, Answer(d, ok) PROVE Types'
  BY <1>0, <1>20 DEF Types, Answer, world, answers, loopVars, sendVars, requests, Device
<1>21. CASE UNCHANGED vars
  BY <1>0, <1>21 DEF Types, vars, world, answers, loopVars, sendVars, requests, Device
<1> QED BY <1>1, <1>2, <1>3, <1>4, <1>5, <1>6, <1>7, <1>8, <1>9, <1>10, <1>11, <1>12, <1>13,
   <1>14, <1>15, <1>16, <1>17, <1>18, <1>19, <1>20, <1>21 DEF Next

LEMMA LoopTypesStep == IInv /\ [Next]_vars => LoopTypes'
<1> SUFFICES ASSUME IInv, [Next]_vars PROVE LoopTypes'
  OBVIOUS
<1>0. LoopTypes
  BY DEF IInv
<1>1. CASE ChangeSettings
  BY <1>0, <1>1 DEF LoopTypes, ChangeSettings, world, answers, loopVars, sendVars, requests
<1>2. CASE ServerTurns
  BY <1>0, <1>2 DEF LoopTypes, ServerTurns, world, answers, loopVars, sendVars, requests
<1>3. CASE Restart
  BY <1>0, <1>3 DEF LoopTypes, Restart, StopInstance, world, answers, loopVars, sendVars, requests
<1>4. CASE Announce
  BY <1>0, <1>4 DEF LoopTypes, Announce, world, answers, loopVars, sendVars, requests
<1>5. CASE Cancel
  BY <1>0, <1>5 DEF LoopTypes, Cancel, world, answers, loopVars, sendVars, requests
<1>6. CASE Finish
  BY <1>0, <1>6 DEF LoopTypes, Finish, AllJoined, world, answers, loopVars, sendVars, requests
<1>7. CASE Send
  BY <1>0, <1>7 DEF LoopTypes, Send, world, answers, loopVars, sendVars, requests
<1>8. CASE StaleSent
  BY <1>0, <1>8 DEF LoopTypes, StaleSent, world, answers, loopVars, sendVars, requests
<1>9. CASE Started
  BY <1>0, <1>9 DEF LoopTypes, Started, world, answers, loopVars, sendVars, requests
<1>10. CASE StartFails
  BY <1>0, <1>10 DEF LoopTypes, StartFails, world, answers, loopVars, sendVars, requests
<1>11. CASE Retry
  BY <1>0, <1>11 DEF LoopTypes, Retry, StartAgain, NewRound, world, answers, loopVars, sendVars,
     requests
<1>12. CASE Handle
  BY <1>0, <1>12 DEF LoopTypes, Handle, world, answers, loopVars, sendVars, requests
<1>13. CASE StreamEnds
  BY <1>0, <1>13 DEF LoopTypes, StreamEnds, StartAgain, NewRound, Drained, world, answers,
     loopVars, sendVars, requests
<1>14. ASSUME NEW i \in Interface, NEW d \in Device \cup {None}, Receive(i, d) PROVE LoopTypes'
  <2>1. errors' = [errors EXCEPT ![i] = 0] /\ loop[i] = "receive" /\ 0 \in 0..MaxErrors /\ 0 < MaxErrors
    BY <1>14, ConstantsAssumption DEF Receive
  <2>2. CASE d \in Peer
    <3>1. loop' = [loop EXCEPT ![i] = "deliver"] /\ hand' = [hand EXCEPT ![i] = d]
      BY <1>14, <2>2 DEF Receive
    <3> QED BY <1>0, <2>1, <2>2, <3>1 DEF LoopTypes
  <2>3. CASE d \notin Peer
    <3>1. loop' = loop /\ hand' = hand
      BY <1>14, <2>3 DEF Receive
    <3> QED BY <1>0, <2>1, <3>1 DEF LoopTypes
  <2> QED BY <2>2, <2>3
<1>15. ASSUME NEW i \in Interface, ReceiveFails(i) PROVE LoopTypes'
  BY <1>0, <1>15, ConstantsAssumption DEF LoopTypes, ReceiveFails
<1>16. ASSUME NEW i \in Interface, Deliver(i) PROVE LoopTypes'
  BY <1>0, <1>16, ConstantsAssumption DEF LoopTypes, Deliver
<1>17. ASSUME NEW i \in Interface, Abort(i) PROVE LoopTypes'
  BY <1>0, <1>17, ConstantsAssumption DEF LoopTypes, Abort
<1>18. ASSUME NEW bound \in BindSockets[used], Bind(bound) PROVE LoopTypes'
  BY <1>0, <1>18, ConstantsAssumption DEF LoopTypes, Bind
<1>19. ASSUME NEW more \in BOOLEAN, Sent(more) PROVE LoopTypes'
  BY <1>0, <1>19 DEF LoopTypes, Sent, world, answers, loopVars, sendVars, requests
<1>20. ASSUME NEW d \in Device, NEW ok \in BOOLEAN, Answer(d, ok) PROVE LoopTypes'
  BY <1>0, <1>20 DEF LoopTypes, Answer, world, answers, loopVars, sendVars, requests
<1>21. CASE UNCHANGED vars
  BY <1>0, <1>21 DEF LoopTypes, vars, world, answers, loopVars, sendVars, requests
<1> QED BY <1>1, <1>2, <1>3, <1>4, <1>5, <1>6, <1>7, <1>8, <1>9, <1>10, <1>11, <1>12, <1>13,
   <1>14, <1>15, <1>16, <1>17, <1>18, <1>19, <1>20, <1>21 DEF Next

LEMMA QueueTypesStep == IInv /\ [Next]_vars => QueueTypes'
<1> SUFFICES ASSUME IInv, [Next]_vars PROVE QueueTypes'
  OBVIOUS
<1>0. QueueTypes /\ LoopTypes
  BY DEF IInv
<1>1. CASE ChangeSettings
  BY <1>0, <1>1, ConstantsAssumption DEF QueueTypes, LoopTypes, ChangeSettings, world, answers,
     loopVars, sendVars, requests, Device
<1>2. CASE ServerTurns
  BY <1>0, <1>2, ConstantsAssumption DEF QueueTypes, LoopTypes, ServerTurns, world, answers,
     loopVars, sendVars, requests, Device
<1>3. CASE Restart
  BY <1>0, <1>3, ConstantsAssumption DEF QueueTypes, LoopTypes, Restart, StopInstance, world,
     answers, loopVars, sendVars, requests, Device
<1>4. CASE Announce
  BY <1>0, <1>4, ConstantsAssumption DEF QueueTypes, LoopTypes, Announce, world, answers,
     loopVars, sendVars, requests, Device
<1>5. CASE Cancel
  BY <1>0, <1>5, ConstantsAssumption DEF QueueTypes, LoopTypes, Cancel, world, answers, loopVars,
     sendVars, requests, Device
<1>6. CASE Finish
  BY <1>0, <1>6, ConstantsAssumption DEF QueueTypes, LoopTypes, Finish, AllJoined, world,
     answers, loopVars, sendVars, requests, Device
<1>7. CASE Send
  BY <1>0, <1>7, ConstantsAssumption DEF QueueTypes, LoopTypes, Send, world, answers, loopVars,
     sendVars, requests, Device
<1>8. CASE StaleSent
  BY <1>0, <1>8, ConstantsAssumption DEF QueueTypes, LoopTypes, StaleSent, world, answers,
     loopVars, sendVars, requests, Device
<1>9. CASE Started
  BY <1>0, <1>9, ConstantsAssumption DEF QueueTypes, LoopTypes, Started, world, answers,
     loopVars, sendVars, requests, Device
<1>10. CASE StartFails
  BY <1>0, <1>10, ConstantsAssumption DEF QueueTypes, LoopTypes, StartFails, world, answers,
     loopVars, sendVars, requests, Device
<1>11. CASE Retry
  BY <1>0, <1>11, ConstantsAssumption DEF QueueTypes, LoopTypes, Retry, StartAgain, NewRound,
     world, answers, loopVars, sendVars, requests, Device
<1>12. CASE Handle
  <2>1. queue \in Seq(Peer) /\ queue # <<>> /\ queue' = Tail(queue) /\ heard' = heard /\ answered' = answered
    BY <1>0, <1>12 DEF QueueTypes, Handle
  <2>2. queue' \in Seq(Peer) /\ Len(queue') = Len(queue) - 1 /\ Head(queue) \in Peer /\ Len(queue) \in Nat
    BY <2>1, HeadTailProperties
  <2>3. Head(queue) \in Device
    BY <2>2 DEF Device
  <2>4. Len(queue') <= QueueSize
    BY <1>0, <2>2, ConstantsAssumption DEF QueueTypes
  <2>5. asking' \in [Device -> Nat] /\ ignored' \in [Device -> Nat]
    <3>1. asking[Head(queue)] + 1 \in Nat /\ ignored[Head(queue)] + 1 \in Nat
      BY <1>0, <2>3 DEF QueueTypes
    <3> QED BY <1>0, <1>12, <2>3, <3>1 DEF QueueTypes, Handle
  <2> QED BY <1>0, <2>1, <2>2, <2>4, <2>5 DEF QueueTypes
<1>13. CASE StreamEnds
  BY <1>0, <1>13, ConstantsAssumption DEF QueueTypes, LoopTypes, StreamEnds, StartAgain,
     NewRound, Drained, world, answers, loopVars, sendVars, requests, Device
<1>14. ASSUME NEW i \in Interface, NEW d \in Device \cup {None}, Receive(i, d) PROVE QueueTypes'
  BY <1>0, <1>14, ConstantsAssumption DEF QueueTypes, LoopTypes, Receive, world, answers,
     loopVars, sendVars, requests, Device
<1>15. ASSUME NEW i \in Interface, ReceiveFails(i) PROVE QueueTypes'
  BY <1>0, <1>15, ConstantsAssumption DEF QueueTypes, LoopTypes, ReceiveFails, world, answers,
     loopVars, sendVars, requests, Device
<1>16. ASSUME NEW i \in Interface, Deliver(i) PROVE QueueTypes'
  <2>1. hand[i] \in Peer /\ hand[i] \in Device /\ queue \in Seq(Peer) /\ Len(queue) < QueueSize
    BY <1>0, <1>16 DEF QueueTypes, LoopTypes, Deliver, Device
  <2>2. queue' \in Seq(Peer) /\ Len(queue') = Len(queue) + 1 /\ Len(queue) \in Nat
    BY <1>16, <2>1, AppendProperties, LenProperties DEF Deliver
  <2>3. Len(queue') <= QueueSize
    BY <2>1, <2>2, ConstantsAssumption
  <2>4. heard' \in [Device -> Nat]
    <3>1. heard[hand[i]] + 1 \in Nat
      BY <1>0, <2>1 DEF QueueTypes
    <3> QED BY <1>0, <1>16, <2>1, <3>1 DEF QueueTypes, Deliver
  <2> QED BY <1>0, <1>16, <2>2, <2>3, <2>4 DEF QueueTypes, Deliver, answers
<1>17. ASSUME NEW i \in Interface, Abort(i) PROVE QueueTypes'
  BY <1>0, <1>17, ConstantsAssumption DEF QueueTypes, LoopTypes, Abort, world, answers, loopVars,
     sendVars, requests, Device
<1>18. ASSUME NEW bound \in BindSockets[used], Bind(bound) PROVE QueueTypes'
  BY <1>0, <1>18, ConstantsAssumption DEF QueueTypes, LoopTypes, Bind, world, answers, loopVars,
     sendVars, requests, Device
<1>19. ASSUME NEW more \in BOOLEAN, Sent(more) PROVE QueueTypes'
  BY <1>0, <1>19, ConstantsAssumption DEF QueueTypes, LoopTypes, Sent, world, answers, loopVars,
     sendVars, requests, Device
<1>20. ASSUME NEW d \in Device, NEW ok \in BOOLEAN, Answer(d, ok) PROVE QueueTypes'
  <2>1. asking[d] - 1 \in Nat /\ answered[d] + 1 \in Nat
    BY <1>0, <1>20 DEF QueueTypes, Answer
  <2>2. asking' \in [Device -> Nat] /\ answered' \in [Device -> Nat]
    BY <1>0, <1>20, <2>1 DEF QueueTypes, Answer
  <2> QED BY <1>0, <1>20, <2>2 DEF QueueTypes, Answer, loopVars
<1>21. CASE UNCHANGED vars
  BY <1>0, <1>21, ConstantsAssumption DEF QueueTypes, LoopTypes, vars, world, answers, loopVars,
     sendVars, requests, Device
<1> QED BY <1>1, <1>2, <1>3, <1>4, <1>5, <1>6, <1>7, <1>8, <1>9, <1>10, <1>11, <1>12, <1>13,
   <1>14, <1>15, <1>16, <1>17, <1>18, <1>19, <1>20, <1>21 DEF Next

LEMMA BetweenInstancesStep == IInv /\ [Next]_vars => BetweenInstances'
<1> SUFFICES ASSUME IInv, [Next]_vars PROVE BetweenInstances'
  OBVIOUS
<1>0. BetweenInstances /\ Types /\ LoopTypes
  BY DEF IInv
<1>1. CASE ChangeSettings
  BY <1>0, <1>1 DEF BetweenInstances, NothingRuns, Closed, Types, LoopTypes, ChangeSettings,
     world, answers, loopVars, sendVars, requests
<1>2. CASE ServerTurns
  BY <1>0, <1>2 DEF BetweenInstances, NothingRuns, Closed, Types, LoopTypes, ServerTurns, world,
     answers, loopVars, sendVars, requests
<1>3. CASE Restart
  BY <1>0, <1>3 DEF BetweenInstances, NothingRuns, Closed, Types, LoopTypes, Restart,
     StopInstance, world, answers, loopVars, sendVars, requests
<1>4. CASE Announce
  BY <1>0, <1>4 DEF BetweenInstances, NothingRuns, Closed, Types, LoopTypes, Announce, world,
     answers, loopVars, sendVars, requests
<1>5. CASE Cancel
  BY <1>0, <1>5 DEF BetweenInstances, NothingRuns, Closed, Types, LoopTypes, Cancel, world,
     answers, loopVars, sendVars, requests
<1>6. CASE Finish
  BY <1>0, <1>6 DEF BetweenInstances, NothingRuns, Closed, Types, LoopTypes, Finish, AllJoined,
     world, answers, loopVars, sendVars, requests
<1>7. CASE Send
  BY <1>0, <1>7 DEF BetweenInstances, NothingRuns, Closed, Types, LoopTypes, Send, world,
     answers, loopVars, sendVars, requests
<1>8. CASE StaleSent
  BY <1>0, <1>8 DEF BetweenInstances, NothingRuns, Closed, Types, LoopTypes, StaleSent, world,
     answers, loopVars, sendVars, requests
<1>9. CASE Started
  BY <1>0, <1>9 DEF BetweenInstances, NothingRuns, Closed, Types, LoopTypes, Started, world,
     answers, loopVars, sendVars, requests
<1>10. CASE StartFails
  BY <1>0, <1>10 DEF BetweenInstances, NothingRuns, Closed, Types, LoopTypes, StartFails, world,
     answers, loopVars, sendVars, requests
<1>11. CASE Retry
  BY <1>0, <1>11 DEF BetweenInstances, NothingRuns, Closed, Types, LoopTypes, Retry, StartAgain,
     NewRound, world, answers, loopVars, sendVars, requests
<1>12. CASE Handle
  BY <1>0, <1>12 DEF BetweenInstances, NothingRuns, Closed, Types, LoopTypes, Handle, world,
     answers, loopVars, sendVars, requests
<1>13. CASE StreamEnds
  BY <1>0, <1>13 DEF BetweenInstances, NothingRuns, Closed, Types, LoopTypes, StreamEnds,
     StartAgain, NewRound, Drained, world, answers, loopVars, sendVars, requests
<1>14. ASSUME NEW i \in Interface, NEW d \in Device \cup {None}, Receive(i,
   d) PROVE BetweenInstances'
  BY <1>0, <1>14 DEF BetweenInstances, NothingRuns, Closed, Types, LoopTypes, Receive, world,
     answers, loopVars, sendVars, requests
<1>15. ASSUME NEW i \in Interface, ReceiveFails(i) PROVE BetweenInstances'
  BY <1>0, <1>15 DEF BetweenInstances, NothingRuns, Closed, Types, LoopTypes, ReceiveFails,
     world, answers, loopVars, sendVars, requests
<1>16. ASSUME NEW i \in Interface, Deliver(i) PROVE BetweenInstances'
  BY <1>0, <1>16 DEF BetweenInstances, NothingRuns, Closed, Types, LoopTypes, Deliver, world,
     answers, loopVars, sendVars, requests
<1>17. ASSUME NEW i \in Interface, Abort(i) PROVE BetweenInstances'
  BY <1>0, <1>17 DEF BetweenInstances, NothingRuns, Closed, Types, LoopTypes, Abort, world,
     answers, loopVars, sendVars, requests
<1>18. ASSUME NEW bound \in BindSockets[used], Bind(bound) PROVE BetweenInstances'
  BY <1>0, <1>18 DEF BetweenInstances, NothingRuns, Closed, Types, LoopTypes, Bind, world,
     answers, loopVars, sendVars, requests
<1>19. ASSUME NEW more \in BOOLEAN, Sent(more) PROVE BetweenInstances'
  BY <1>0, <1>19 DEF BetweenInstances, NothingRuns, Closed, Types, LoopTypes, Sent, world,
     answers, loopVars, sendVars, requests
<1>20. ASSUME NEW d \in Device, NEW ok \in BOOLEAN, Answer(d, ok) PROVE BetweenInstances'
  BY <1>0, <1>20 DEF BetweenInstances, NothingRuns, Closed, Types, LoopTypes, Answer, world,
     answers, loopVars, sendVars, requests
<1>21. CASE UNCHANGED vars
  BY <1>0, <1>21 DEF BetweenInstances, NothingRuns, Closed, Types, LoopTypes, vars, world,
     answers, loopVars, sendVars, requests
<1> QED BY <1>1, <1>2, <1>3, <1>4, <1>5, <1>6, <1>7, <1>8, <1>9, <1>10, <1>11, <1>12, <1>13,
   <1>14, <1>15, <1>16, <1>17, <1>18, <1>19, <1>20, <1>21 DEF Next

LEMMA AllowedOnlyStep == IInv /\ [Next]_vars => AllowedOnly'
<1> SUFFICES ASSUME IInv, [Next]_vars PROVE AllowedOnly'
  OBVIOUS
<1>0. AllowedOnly /\ BetweenInstances /\ Types /\ LoopTypes
  BY DEF IInv
<1>1. CASE ChangeSettings
  BY <1>0, <1>1 DEF AllowedOnly, BetweenInstances, NothingRuns, Closed, Types, LoopTypes,
     ChangeSettings, world, answers, loopVars, sendVars, requests
<1>2. CASE ServerTurns
  BY <1>0, <1>2 DEF AllowedOnly, BetweenInstances, NothingRuns, Closed, Types, LoopTypes,
     ServerTurns, world, answers, loopVars, sendVars, requests
<1>3. CASE Restart
  BY <1>0, <1>3 DEF AllowedOnly, BetweenInstances, NothingRuns, Closed, Types, LoopTypes,
     Restart, StopInstance, world, answers, loopVars, sendVars, requests
<1>4. CASE Announce
  BY <1>0, <1>4 DEF AllowedOnly, BetweenInstances, NothingRuns, Closed, Types, LoopTypes,
     Announce, world, answers, loopVars, sendVars, requests
<1>5. CASE Cancel
  BY <1>0, <1>5 DEF AllowedOnly, BetweenInstances, NothingRuns, Closed, Types, LoopTypes, Cancel,
     world, answers, loopVars, sendVars, requests
<1>6. CASE Finish
  BY <1>0, <1>6 DEF AllowedOnly, BetweenInstances, NothingRuns, Closed, Types, LoopTypes, Finish,
     AllJoined, world, answers, loopVars, sendVars, requests
<1>7. CASE Send
  BY <1>0, <1>7 DEF AllowedOnly, BetweenInstances, NothingRuns, Closed, Types, LoopTypes, Send,
     world, answers, loopVars, sendVars, requests
<1>8. CASE StaleSent
  BY <1>0, <1>8 DEF AllowedOnly, BetweenInstances, NothingRuns, Closed, Types, LoopTypes,
     StaleSent, world, answers, loopVars, sendVars, requests
<1>9. CASE Started
  BY <1>0, <1>9 DEF AllowedOnly, BetweenInstances, NothingRuns, Closed, Types, LoopTypes,
     Started, world, answers, loopVars, sendVars, requests
<1>10. CASE StartFails
  BY <1>0, <1>10 DEF AllowedOnly, BetweenInstances, NothingRuns, Closed, Types, LoopTypes,
     StartFails, world, answers, loopVars, sendVars, requests
<1>11. CASE Retry
  BY <1>0, <1>11 DEF AllowedOnly, BetweenInstances, NothingRuns, Closed, Types, LoopTypes, Retry,
     StartAgain, NewRound, world, answers, loopVars, sendVars, requests
<1>12. CASE Handle
  BY <1>0, <1>12 DEF AllowedOnly, BetweenInstances, NothingRuns, Closed, Types, LoopTypes,
     Handle, world, answers, loopVars, sendVars, requests
<1>13. CASE StreamEnds
  BY <1>0, <1>13 DEF AllowedOnly, BetweenInstances, NothingRuns, Closed, Types, LoopTypes,
     StreamEnds, StartAgain, NewRound, Drained, world, answers, loopVars, sendVars, requests
<1>14. ASSUME NEW i \in Interface, NEW d \in Device \cup {None}, Receive(i, d) PROVE AllowedOnly'
  BY <1>0, <1>14 DEF AllowedOnly, BetweenInstances, NothingRuns, Closed, Types, LoopTypes,
     Receive, world, answers, loopVars, sendVars, requests
<1>15. ASSUME NEW i \in Interface, ReceiveFails(i) PROVE AllowedOnly'
  BY <1>0, <1>15 DEF AllowedOnly, BetweenInstances, NothingRuns, Closed, Types, LoopTypes,
     ReceiveFails, world, answers, loopVars, sendVars, requests
<1>16. ASSUME NEW i \in Interface, Deliver(i) PROVE AllowedOnly'
  BY <1>0, <1>16 DEF AllowedOnly, BetweenInstances, NothingRuns, Closed, Types, LoopTypes,
     Deliver, world, answers, loopVars, sendVars, requests
<1>17. ASSUME NEW i \in Interface, Abort(i) PROVE AllowedOnly'
  BY <1>0, <1>17 DEF AllowedOnly, BetweenInstances, NothingRuns, Closed, Types, LoopTypes, Abort,
     world, answers, loopVars, sendVars, requests
<1>18. ASSUME NEW bound \in BindSockets[used], Bind(bound) PROVE AllowedOnly'
  <2>1. bound \subseteq LocalInterfaces(Entries, Filter[used]) /\ used' = used
    BY <1>0, <1>18 DEF BindSockets, Joined, Bind, Types
  <2>2. ASSUME NEW i \in Interface, loop'[i] \in {"receive", "deliver"} PROVE i \in bound
    BY <1>18, <2>2 DEF Bind
  <2> QED BY <2>1, <2>2 DEF AllowedOnly
<1>19. ASSUME NEW more \in BOOLEAN, Sent(more) PROVE AllowedOnly'
  BY <1>0, <1>19 DEF AllowedOnly, BetweenInstances, NothingRuns, Closed, Types, LoopTypes, Sent,
     world, answers, loopVars, sendVars, requests
<1>20. ASSUME NEW d \in Device, NEW ok \in BOOLEAN, Answer(d, ok) PROVE AllowedOnly'
  BY <1>0, <1>20 DEF AllowedOnly, BetweenInstances, NothingRuns, Closed, Types, LoopTypes,
     Answer, world, answers, loopVars, sendVars, requests
<1>21. CASE UNCHANGED vars
  BY <1>0, <1>21 DEF AllowedOnly, BetweenInstances, NothingRuns, Closed, Types, LoopTypes, vars,
     world, answers, loopVars, sendVars, requests
<1> QED BY <1>1, <1>2, <1>3, <1>4, <1>5, <1>6, <1>7, <1>8, <1>9, <1>10, <1>11, <1>12, <1>13,
   <1>14, <1>15, <1>16, <1>17, <1>18, <1>19, <1>20, <1>21 DEF Next

LEMMA AllCountedStep == IInv /\ [Next]_vars => AllCounted'
<1> SUFFICES ASSUME IInv, [Next]_vars PROVE AllCounted'
  OBVIOUS
<1>0. AllCounted /\ QueueTypes /\ BetweenInstances /\ LoopTypes
  BY DEF IInv
<1>1. CASE ChangeSettings
  BY <1>0, <1>1 DEF AllCounted, Counted, ChangeSettings, world, answers, loopVars, sendVars,
     requests
<1>2. CASE ServerTurns
  BY <1>0, <1>2 DEF AllCounted, Counted, ServerTurns, world, answers, loopVars, sendVars, requests
<1>3. CASE Restart
  BY <1>0, <1>3 DEF AllCounted, Counted, Restart, StopInstance, world, answers, loopVars,
     sendVars, requests
<1>4. CASE Announce
  BY <1>0, <1>4 DEF AllCounted, Counted, Announce, world, answers, loopVars, sendVars, requests
<1>5. CASE Cancel
  BY <1>0, <1>5 DEF AllCounted, Counted, Cancel, world, answers, loopVars, sendVars, requests
<1>6. CASE Finish
  BY <1>0, <1>6 DEF AllCounted, Counted, Finish, AllJoined, world, answers, loopVars, sendVars,
     requests
<1>7. CASE Send
  BY <1>0, <1>7 DEF AllCounted, Counted, Send, world, answers, loopVars, sendVars, requests
<1>8. CASE StaleSent
  BY <1>0, <1>8 DEF AllCounted, Counted, StaleSent, world, answers, loopVars, sendVars, requests
<1>9. CASE Started
  BY <1>0, <1>9 DEF AllCounted, Counted, Started, world, answers, loopVars, sendVars, requests
<1>10. CASE StartFails
  BY <1>0, <1>10 DEF AllCounted, Counted, StartFails, world, answers, loopVars, sendVars, requests
<1>11. CASE Retry
  BY <1>0, <1>11 DEF AllCounted, Counted, Retry, StartAgain, NewRound, world, answers, loopVars,
     sendVars, requests
<1>12. CASE Handle
  <2> DEFINE h == Head(queue)
  <2>1. queue \in Seq(Peer) /\ queue # <<>> /\ queue' = Tail(queue) /\ heard' = heard /\ answered' = answered
    BY <1>0, <1>12 DEF QueueTypes, Handle
  <2>2. h \in Peer /\ h \in Device
    BY <2>1, HeadTailProperties DEF Device
  <2>3. ASSUME NEW d \in Device PROVE Counted(d)'
    <3>1. InQueue(queue, d) = InQueue(queue', d) + IF h = d THEN 1 ELSE 0
      BY <2>1, InQueueTail
    <3>2. InQueue(queue', d) \in Nat
      <4>1. queue' \in Seq(Peer)
        BY <2>1, HeadTailProperties
      <4> QED BY <4>1, InQueueType
    <3>3. /\ asking[d] \in Nat /\ answered[d] \in Nat /\ ignored[d] \in Nat /\ heard[d] \in Nat
          /\ heard[d] = InQueue(queue, d) + asking[d] + answered[d] + ignored[d]
      BY <1>0 DEF QueueTypes, AllCounted, Counted
    <3> HIDE DEF h
    <3>4. CASE serving
      <4>1. asking' = [asking EXCEPT ![h] = @ + 1] /\ ignored' = ignored
        BY <1>12, <3>4 DEF Handle, h
      <4>2. asking'[d] = IF h = d THEN asking[d] + 1 ELSE asking[d]
        BY <1>0, <2>2, <4>1 DEF QueueTypes
      <4>3. CASE h = d
        <5>1. InQueue(queue, d) = InQueue(queue', d) + 1
          BY <3>1, <4>3
        <5>2. heard'[d] = heard[d] /\ answered'[d] = answered[d]
          BY <2>1
        <5> QED BY <3>2, <3>3, <4>1, <4>2, <4>3, <5>1, <5>2 DEF Counted
      <4>4. CASE h # d
        BY <2>1, <3>1, <3>2, <3>3, <4>1, <4>2, <4>4 DEF Counted
      <4> QED BY <4>3, <4>4
    <3>5. CASE ~serving
      <4>1. ignored' = [ignored EXCEPT ![h] = @ + 1] /\ asking' = asking
        BY <1>12, <3>5 DEF Handle, h
      <4>2. ignored'[d] = IF h = d THEN ignored[d] + 1 ELSE ignored[d]
        BY <1>0, <2>2, <4>1 DEF QueueTypes
      <4>3. CASE h = d
        <5>1. InQueue(queue, d) = InQueue(queue', d) + 1
          BY <3>1, <4>3
        <5>2. heard'[d] = heard[d] /\ answered'[d] = answered[d]
          BY <2>1
        <5> QED BY <3>2, <3>3, <4>1, <4>2, <4>3, <5>1, <5>2 DEF Counted
      <4>4. CASE h # d
        BY <2>1, <3>1, <3>2, <3>3, <4>1, <4>2, <4>4 DEF Counted
      <4> QED BY <4>3, <4>4
    <3> QED BY <3>4, <3>5
  <2>4. heard'[Self] = 0
    BY <1>0, <2>1 DEF AllCounted
  <2> QED BY <2>3, <2>4 DEF AllCounted
<1>13. CASE StreamEnds
  BY <1>0, <1>13 DEF AllCounted, Counted, StreamEnds, StartAgain, NewRound, Drained, world,
     answers, loopVars, sendVars, requests
<1>14. ASSUME NEW i \in Interface, NEW d \in Device \cup {None}, Receive(i, d) PROVE AllCounted'
  BY <1>0, <1>14 DEF AllCounted, Counted, Receive, world, answers, loopVars, sendVars, requests
<1>15. ASSUME NEW i \in Interface, ReceiveFails(i) PROVE AllCounted'
  BY <1>0, <1>15 DEF AllCounted, Counted, ReceiveFails, world, answers, loopVars, sendVars, requests
<1>16. ASSUME NEW i \in Interface, Deliver(i) PROVE AllCounted'
  <2> DEFINE h == hand[i]
  <2>1. h \in Peer /\ h \in Device /\ h # Self /\ queue \in Seq(Peer)
    BY <1>0, <1>16, ConstantsAssumption DEF QueueTypes, LoopTypes, Deliver, Device
  <2>2. /\ queue' = Append(queue, h) /\ heard' = [heard EXCEPT ![h] = @ + 1]
        /\ asking' = asking /\ answered' = answered /\ ignored' = ignored
    BY <1>16 DEF Deliver, answers
  <2> HIDE DEF h
  <2>3. ASSUME NEW d \in Device PROVE Counted(d)'
    <3>1. InQueue(queue', d) = InQueue(queue, d) + IF h = d THEN 1 ELSE 0
      BY <2>1, <2>2, InQueueAppend
    <3>2. InQueue(queue, d) \in Nat
      BY <2>1, InQueueType
    <3>3. /\ asking[d] \in Nat /\ answered[d] \in Nat /\ ignored[d] \in Nat /\ heard[d] \in Nat
          /\ heard[d] = InQueue(queue, d) + asking[d] + answered[d] + ignored[d]
      BY <1>0 DEF QueueTypes, AllCounted, Counted
    <3>4. heard'[d] = IF h = d THEN heard[d] + 1 ELSE heard[d]
      BY <1>0, <2>1, <2>2 DEF QueueTypes
    <3>5. CASE h = d
      BY <2>2, <3>1, <3>2, <3>3, <3>4, <3>5 DEF Counted
    <3>6. CASE h # d
      BY <2>2, <3>1, <3>2, <3>3, <3>4, <3>6 DEF Counted
    <3> QED BY <3>5, <3>6
  <2>4. heard'[Self] = 0
    BY <1>0, <2>1, <2>2 DEF AllCounted, QueueTypes, Device
  <2> QED BY <2>3, <2>4 DEF AllCounted
<1>17. ASSUME NEW i \in Interface, Abort(i) PROVE AllCounted'
  BY <1>0, <1>17 DEF AllCounted, Counted, Abort, world, answers, loopVars, sendVars, requests
<1>18. ASSUME NEW bound \in BindSockets[used], Bind(bound) PROVE AllCounted'
  <2>1. queue' = queue
    BY <1>0, <1>18 DEF BetweenInstances, Bind
  <2> QED BY <1>0, <1>18, <2>1 DEF AllCounted, Counted, Bind, answers
<1>19. ASSUME NEW more \in BOOLEAN, Sent(more) PROVE AllCounted'
  BY <1>0, <1>19 DEF AllCounted, Counted, Sent, world, answers, loopVars, sendVars, requests
<1>20. ASSUME NEW d \in Device, NEW ok \in BOOLEAN, Answer(d, ok) PROVE AllCounted'
  <2>1. queue' = queue /\ heard' = heard /\ ignored' = ignored
    BY <1>20 DEF Answer, loopVars
  <2>2. ASSUME NEW x \in Device PROVE Counted(x)'
    <3>1. /\ asking[x] \in Nat /\ answered[x] \in Nat /\ ignored[x] \in Nat /\ InQueue(queue, x) \in Nat
          /\ heard[x] = InQueue(queue, x) + asking[x] + answered[x] + ignored[x]
      BY <1>0, InQueueType DEF QueueTypes, AllCounted, Counted
    <3>2. /\ asking'[x] = IF x = d THEN asking[x] - 1 ELSE asking[x]
          /\ answered'[x] = IF x = d THEN answered[x] + 1 ELSE answered[x]
      BY <1>0, <1>20 DEF QueueTypes, Answer
    <3> QED BY <2>1, <3>1, <3>2 DEF Counted
  <2>3. heard'[Self] = 0
    BY <1>0, <2>1 DEF AllCounted
  <2> QED BY <2>2, <2>3 DEF AllCounted
<1>21. CASE UNCHANGED vars
  BY <1>0, <1>21 DEF AllCounted, Counted, vars, world, answers, loopVars, sendVars, requests
<1> QED BY <1>1, <1>2, <1>3, <1>4, <1>5, <1>6, <1>7, <1>8, <1>9, <1>10, <1>11, <1>12, <1>13,
   <1>14, <1>15, <1>16, <1>17, <1>18, <1>19, <1>20, <1>21 DEF Next

-----------------------------------------------------------------------------
LEMMA InitInv == Init => IInv
<1> SUFFICES ASSUME Init PROVE IInv
  OBVIOUS
<1>1. Types /\ LoopTypes
  <2>1. 0 \in 0..MaxSettings /\ 0 \in 0..MaxErrors
    BY ConstantsAssumption
  <2> QED BY <2>1 DEF Init, Types, LoopTypes
<1>2. QueueTypes
  BY ConstantsAssumption DEF Init, QueueTypes, Zero
<1>3. BetweenInstances /\ AllowedOnly
  BY DEF Init, BetweenInstances, NothingRuns, Closed, AllowedOnly
<1>4. AllCounted
  <2>1. ASSUME NEW d \in Device PROVE InQueue(queue, d) = 0
    <3>1. queue = <<>> /\ {k \in DOMAIN queue : queue[k] = d} = {}
      BY DEF Init
    <3> QED BY <3>1, FS_EmptySet DEF InQueue
  <2> QED BY <2>1 DEF Init, AllCounted, Counted, Zero, Device
<1> QED BY <1>1, <1>2, <1>3, <1>4 DEF IInv

LEMMA NextInv == IInv /\ [Next]_vars => IInv'
  BY TypesStep, LoopTypesStep, QueueTypesStep, BetweenInstancesStep, AllowedOnlyStep, AllCountedStep
     DEF IInv

LEMMA IInvHolds == Spec => []IInv
<1> QED BY InitInv, NextInv, PTL DEF Spec
-----------------------------------------------------------------------------
(* What it implies.                                                        *)

LEMMA IInvTypeOK == IInv => TypeOK
<1> SUFFICES ASSUME IInv PROVE TypeOK
  OBVIOUS
<1>1. queue \in Seq(Device)
  BY SeqMonotonic DEF IInv, QueueTypes, Device
<1>2. \A i \in Interface : hand[i] \in IF loop[i] = "deliver" THEN Device ELSE {None}
  BY DEF IInv, LoopTypes, Device
<1>3. LoopTypes /\ QueueTypes /\ Types
  BY DEF IInv
<1> QED BY <1>1, <1>2, <1>3 DEF TypeOK, LoopTypes, QueueTypes, Types

\* Once stop() has returned nothing receives and no announcement begins, and a
\* listener that waits for a retry left nothing running (mod.rs:330).
THEOREM StopCloses == Spec => []StoppedIsClosed
<1>1. IInv => StoppedIsClosed
  BY IInvTypeOK DEF IInv, BetweenInstances, NothingRuns, StoppedIsClosed
<1> QED BY <1>1, IInvHolds, PTL

\* Whatever the settings become, nothing is received on an interface that the
\* ones of the latest start exclude, as the documentation of the filter has it
\* (interface.rs:7, multicast_discovery.dart:45).
THEOREM ExcludedStaysSilent == Spec => []ExcludedIsSilent
<1>1. IInv => ExcludedIsSilent
  <2> SUFFICES ASSUME IInv, NEW i \in Excluded[used] PROVE loop[i] \notin {"receive", "deliver"}
    BY DEF ExcludedIsSilent
  <2>1. used \in 0..MaxSettings
    BY DEF IInv, Types
  <2>2. i \in Interface
    BY <2>1 DEF Excluded
  <2>3. loop[i] \in {"receive", "deliver"} => i \in LocalInterfaces(Entries, Filter[used])
    BY <2>2 DEF IInv, AllowedOnly
  <2> QED BY <2>1, <2>2, <2>3, UsedIsAllowed
<1> QED BY <1>1, IInvHolds, PTL

\* Restarts lose no message that reached the channel and repeat none
\* (rust/src/api/multicast.rs:108).
THEOREM EveryQueuedIsHandled == Spec => []QueuedIsHandled
<1>1. IInv => QueuedIsHandled
  BY DEF IInv, AllCounted, Counted, InQueue, QueuedIsHandled
<1> QED BY <1>1, IInvHolds, PTL
=============================================================================
