--------------------------- MODULE SelectionProofs ---------------------------
(***************************************************************************)
(* Proofs about Selection, for any proxy list, routes, tags and standings: *)
(* what the sorts, the rotation and the cut leave of the live pool, and in *)
(* which order; that there is exactly one such order for the selectors     *)
(* that do not shuffle; and that round robin goes round.                   *)
(***************************************************************************)
EXTENDS Selection, FunctionTheorems, FiniteSetTheorems, SequenceTheorems,
        WellFoundedInduction, TLAPS

\* s lists every element of S once.
Lists(s, S) ==
    /\ s \in Seq(S) /\ Len(s) = Cardinality(S)
    /\ \A p \in S : \E i \in 1..Len(s) : s[i] = p
    /\ \A i, j \in 1..Len(s) : s[i] = s[j] => i = j

-----------------------------------------------------------------------------
(* Lists without duplicates.                                               *)

\* The proxy list is finite, and lists the proxies.
LEMMA SnapshotLists == IsFiniteSet(Proxy) /\ Lists(Snapshot, Proxy)
<1>1. Snapshot \in [1..Len(Snapshot) -> Proxy] /\ Len(Snapshot) \in Nat
    BY PlanAssumption DEF Proxy
<1>2. \A p \in Proxy : \E i \in 1..Len(Snapshot) : Snapshot[i] = p
    BY <1>1 DEF Proxy, Range
<1>3. Snapshot \in Surjection(1..Len(Snapshot), Proxy)
    BY <1>1, <1>2 DEF Surjection
<1>4. \A i, j \in 1..Len(Snapshot) : Snapshot[i] = Snapshot[j] => i = j
    BY <1>1, PlanAssumption
<1>5. Snapshot \in Bijection(1..Len(Snapshot), Proxy)
    <2>1. Snapshot \in Injection(1..Len(Snapshot), Proxy)
        BY <1>1, <1>4, Fun_IsInj
    <2> QED
        BY <1>3, <2>1 DEF Bijection
<1>6. IsFiniteSet(1..Len(Snapshot)) /\ Cardinality(1..Len(Snapshot)) = Len(Snapshot)
    <2>1. \A n \in Nat : IsFiniteSet(1..n) /\ Cardinality(1..n) = n
        BY FS_Interval
    <2> QED
        BY <1>1, <2>1
<1>7. ExistsBijection(1..Len(Snapshot), Proxy)
    BY <1>5 DEF ExistsBijection
<1>8. IsFiniteSet(Proxy) /\ Cardinality(Proxy) = Len(Snapshot)
    BY <1>6, <1>7, FS_Bijection
<1> QED
    BY <1>1, <1>2, <1>4, <1>8 DEF Lists

\* So is every pool of proxies.
LEMMA PoolFinite ==
    ASSUME NEW S \in SUBSET Proxy
    PROVE  IsFiniteSet(S) /\ Cardinality(S) \in Nat
BY SnapshotLists, FS_Subset, FS_CardinalityType

\* A list without duplicates has as many members as places.
LEMMA DistinctRange ==
    ASSUME NEW S, NEW c \in Seq(S), \A i, j \in 1..Len(c) : c[i] = c[j] => i = j
    PROVE  Cardinality(Range(c)) = Len(c)
<1> DEFINE n == Len(c)
<1>1. n \in Nat /\ DOMAIN c = 1..n /\ c \in [1..n -> Range(c)]
    BY DEF Range
<1> HIDE DEF n
<1>2. c \in Bijection(1..n, Range(c))
    <2>1. c \in Injection(1..n, Range(c))
        BY <1>1, Fun_IsInj DEF n
    <2>2. c \in Surjection(1..n, Range(c))
        BY <1>1 DEF Range, Surjection
    <2> QED
        BY <2>1, <2>2 DEF Bijection
<1>3. IsFiniteSet(1..n) /\ Cardinality(1..n) = n
    <2>1. \A k \in Nat : IsFiniteSet(1..k) /\ Cardinality(1..k) = k
        BY FS_Interval
    <2> QED
        BY <1>1, <2>1
<1> QED
    BY <1>2, <1>3, FS_Bijection DEF ExistsBijection, n

\* SetToSeqs has the lists of a set.
LEMMA SetToSeqsLists ==
    ASSUME NEW S \in SUBSET Proxy, NEW s \in SetToSeqs(S)
    PROVE  Lists(s, S)
<1> DEFINE n == Cardinality(S)
<1>1. n \in Nat /\ IsFiniteSet(S)
    BY PoolFinite
<1>2. s \in [1..n -> S] /\ \A i, j \in 1..n : i # j => s[i] # s[j]
    BY DEF SetToSeqs
<1>3. IsFiniteSet(1..n) /\ Cardinality(1..n) = n
    BY <1>1, FS_Interval
<1>4. s \in Injection(1..n, S)
    BY <1>2 DEF Injection, IsInjective
<1>5. s \in Surjection(1..n, S)
    <2>1. \A t \in S : \E i \in 1..n : s[i] = t
        <3> SUFFICES ASSUME NEW p \in S, \A i \in 1..n : s[i] # p PROVE FALSE
            OBVIOUS
        <3>1. s \in Injection(1..n, S \ {p})
            BY <1>2, <1>4 DEF Injection, IsInjective
        <3>2. IsFiniteSet(S \ {p}) /\ Cardinality(S \ {p}) = n - 1
            BY <1>1, FS_RemoveElement
        <3>3. n <= n - 1
            <4> HIDE DEF n
            <4> QED
                BY <1>3, <3>1, <3>2, FS_Injection
        <3> QED
            BY <1>1, <3>3
    <2> QED
        BY <1>2, <2>1 DEF Surjection
<1>6. s \in Seq(S) /\ Len(s) = n
    BY <1>1, <1>2
<1> QED
    BY <1>1, <1>2, <1>5, <1>6 DEF Lists, Surjection

\* And all of them.
LEMMA ListsInSetToSeqs ==
    ASSUME NEW S, NEW s, Lists(s, S)
    PROVE  s \in SetToSeqs(S)
<1>1. s \in [1..Cardinality(S) -> S]
    BY DEF Lists
<1> QED
    BY <1>1 DEF Lists, SetToSeqs

\* A list of S has the range S.
LEMMA ListsRange ==
    ASSUME NEW S, NEW s, Lists(s, S)
    PROVE  Range(s) = S /\ DOMAIN s = 1..Len(s) /\ Len(s) \in Nat
<1>1. s \in [1..Len(s) -> S] /\ DOMAIN s = 1..Len(s) /\ Len(s) \in Nat
    BY DEF Lists
<1> QED
    BY <1>1 DEF Lists, Range

\* Of two elements of a list one is before the other.
LEMMA PrecedesTotal ==
    ASSUME NEW S, NEW s, Lists(s, S), NEW p \in S, NEW q \in S, p # q
    PROVE  Precedes(s, p, q) \/ Precedes(s, q, p)
<1>1. PICK i \in 1..Len(s) : s[i] = p
    BY DEF Lists
<1>2. PICK j \in 1..Len(s) : s[j] = q
    BY DEF Lists
<1>3. i < j \/ j < i
    BY <1>1, <1>2, ListsRange
<1> QED
    BY <1>1, <1>2, <1>3, ListsRange DEF Precedes

\* And not both.
LEMMA PrecedesAsymmetric ==
    ASSUME NEW S, NEW s, Lists(s, S), NEW p, NEW q, Precedes(s, p, q)
    PROVE  ~Precedes(s, q, p) /\ p # q /\ p \in S /\ q \in S
<1>1. PICK m, n \in 1..Len(s) : m < n /\ s[m] = p /\ s[n] = q
    BY ListsRange DEF Precedes
<1>2. p # q /\ p \in S /\ q \in S
    BY <1>1, ListsRange DEF Lists
<1>3. \A k, l \in 1..Len(s) : s[k] = q /\ s[l] = p => k = n /\ l = m
    BY <1>1 DEF Lists
<1> QED
    BY <1>1, <1>2, <1>3, ListsRange DEF Precedes

\* Before is before.
LEMMA PrecedesTransitive ==
    ASSUME NEW S, NEW s, Lists(s, S), NEW p, NEW q, NEW r,
           Precedes(s, p, q), Precedes(s, q, r)
    PROVE  Precedes(s, p, r)
<1>1. PICK m, n \in 1..Len(s) : m < n /\ s[m] = p /\ s[n] = q
    BY ListsRange DEF Precedes
<1>2. PICK k, l \in 1..Len(s) : k < l /\ s[k] = q /\ s[l] = r
    BY ListsRange DEF Precedes
<1>3. n = k
    BY <1>1, <1>2 DEF Lists
<1>4. m < l
    BY <1>1, <1>2, <1>3, ListsRange
<1> QED
    BY <1>1, <1>2, <1>4, ListsRange DEF Precedes

-----------------------------------------------------------------------------
(* Sorting.                                                                *)

\* Filtering the proxy list leaves a list of the proxies wanted.
LEMMA FilterLists ==
    ASSUME NEW S \in SUBSET Proxy, NEW t \in Filter(Snapshot, S)
    PROVE  Lists(t, S)
<1>1. Range(Snapshot) \cap S = S
    BY DEF Proxy
<1> QED
    BY <1>1, SetToSeqsLists DEF Filter

\* In every list p comes before q.
AllPrecede(lists, p, q) == \A s \in lists : Precedes(s, p, q)

\* All lists are lists of S.
AllList(lists, S) == \A s \in lists : Lists(s, S)

\* Sorting loses nothing and doubles nothing.
LEMMA SortLists ==
    ASSUME NEW S \in SUBSET Proxy, NEW lists, AllList(lists, S), NEW key
    PROVE  AllList(SortEach(lists, key), S)
<1> SUFFICES ASSUME NEW s \in lists, NEW t \in StableSort(s, key) PROVE Lists(t, S)
    BY DEF AllList, SortEach
<1>1. Range(s) = S
    BY ListsRange DEF AllList
<1>2. t \in SetToSeqs(S)
    BY <1>1 DEF StableSort
<1> QED
    BY <1>2, SetToSeqsLists

\* The smaller key comes first.
LEMMA SortRanks ==
    ASSUME NEW S \in SUBSET Proxy, NEW lists, AllList(lists, S),
           NEW key, \A p \in S : key[p] \in Int,
           NEW p \in S, NEW q \in S,
           \/ key[p] < key[q]
           \/ key[p] = key[q] /\ AllPrecede(lists, p, q)
    PROVE  AllPrecede(SortEach(lists, key), p, q)
<1> SUFFICES ASSUME NEW s \in lists, NEW t \in StableSort(s, key)
             PROVE  Precedes(t, p, q)
    BY DEF AllPrecede, SortEach
<1>1. t \in SortEach(lists, key) /\ Lists(s, S)
    BY DEF SortEach, AllList
<1>2. Lists(t, S)
    BY <1>1, SortLists DEF AllList
<1>3. p # q
    <2>1. CASE key[p] < key[q]
        BY <2>1
    <2>2. CASE Precedes(s, p, q)
        BY <1>1, <2>2, PrecedesAsymmetric
    <2> QED
        BY <2>1, <2>2 DEF AllPrecede
<1>4. ~Precedes(t, q, p)
    <2> SUFFICES ASSUME Precedes(t, q, p) PROVE FALSE
        OBVIOUS
    <2>1. key[q] < key[p] \/ (key[q] = key[p] /\ Precedes(s, q, p))
        BY DEF Precedes, StableSort
    <2>2. key[p] = key[q] /\ Precedes(s, p, q) /\ Precedes(s, q, p)
        BY <2>1 DEF AllPrecede
    <2> QED
        BY <1>1, <2>2, PrecedesAsymmetric
<1> QED
    BY <1>2, <1>3, <1>4, PrecedesTotal

-----------------------------------------------------------------------------
(* The orders of the selectors.                                            *)

\* What a view must be for its proxies to be sorted.
IsView(v) ==
    /\ \A p \in Proxy : v.tier[p] \in Tiers
    /\ \A p \in Proxy : v.latency[p] \in Nat /\ v.latency[p] < Forever

LEMMA ViewKeys ==
    ASSUME NEW v, IsView(v), NEW p \in Proxy
    PROVE  v.tier[p] \in Int /\ LatencyKeys(v)[p] \in Int
<1>1. v.tier[p] \in Int /\ v.latency[p] \in Int
    BY DEF IsView, Tiers, Healthy, Fatal
<1> QED
    BY <1>1 DEF LatencyKeys, LatKey

\* Sorted by tier and latency the live pool is there, the better tiers in front.
LEMMA Ranked ==
    ASSUME NEW v, IsView(v), NEW S \in SUBSET Proxy
    PROVE  /\ AllList(ByTierAndLatency(v, Filter(Snapshot, S)), S)
           /\ \A p, q \in S : v.tier[p] < v.tier[q] =>
                 AllPrecede(ByTierAndLatency(v, Filter(Snapshot, S)), p, q)
<1> DEFINE byLatency == SortEach(Filter(Snapshot, S), LatencyKeys(v))
<1>1. AllList(byLatency, S)
    BY FilterLists, SortLists DEF AllList
<1>2. ByTierAndLatency(v, Filter(Snapshot, S)) = SortEach(byLatency, v.tier)
    BY DEF ByTierAndLatency
<1> HIDE DEF byLatency
<1>3. \A p \in S : v.tier[p] \in Int
    BY ViewKeys
<1> QED
    BY <1>1, <1>2, <1>3, SortLists, SortRanks

\* Numbers closer than n have different remainders.
LEMMA ModApart ==
    ASSUME NEW n \in Nat \ {0}, NEW a \in Nat, NEW b \in Nat, a < b, b < a + n
    PROVE  a % n # b % n
<1> SUFFICES ASSUME a % n = b % n PROVE FALSE
    OBVIOUS
<1> DEFINE d == (b \div n) - (a \div n)
<1>1. a = n * (a \div n) + (a % n) /\ b = n * (b \div n) + (b % n) /\ d \in Int
    OBVIOUS
<1>2. b - a = n * d
    BY <1>1
<1> HIDE DEF d
<1>3. d >= 1 => n * d >= n
    BY <1>1
<1>4. d <= 0 => n * d <= 0
    BY <1>1
<1> QED
    BY <1>1, <1>2, <1>3, <1>4

\* Rotating loses nothing and doubles nothing, wherever it starts.
LEMMA RotateLists ==
    ASSUME NEW S \in SUBSET Proxy, NEW s, Lists(s, S), NEW k \in Nat, Cardinality(S) # 0
    PROVE  Lists(RotateLeft(s, k), S)
<1> DEFINE n == Len(s)
           r == RotateLeft(s, k)
<1>1. n \in Nat \ {0} /\ n = Cardinality(S) /\ s \in [1..n -> S] /\ DOMAIN s = 1..n
    BY ListsRange DEF Lists
<1>2. r = [i \in 1..n |-> s[((i - 1 + k) % n) + 1]]
    BY <1>1 DEF RotateLeft
<1> HIDE DEF n, r
<1>3. \A i \in 1..n : ((i - 1 + k) % n) + 1 \in 1..n
    BY <1>1
<1>4. r \in [1..n -> S]
    BY <1>1, <1>2, <1>3
<1>5. ASSUME NEW i \in 1..n, NEW j \in 1..n, i < j PROVE r[i] # r[j]
    <2> DEFINE a == i - 1 + k
               b == j - 1 + k
    <2>1. a \in Nat /\ b \in Nat /\ a < b /\ b < a + n
        BY <1>1, <1>5
    <2>2. r[i] = s[(a % n) + 1] /\ r[j] = s[(b % n) + 1]
        BY <1>2
    <2>3. (a % n) + 1 \in 1..n /\ (b % n) + 1 \in 1..n
        BY <1>3
    <2> HIDE DEF a, b
    <2>4. a % n # b % n
        BY <1>1, <2>1, ModApart
    <2>5. (a % n) + 1 # (b % n) + 1
        BY <1>1, <2>1, <2>4
    <2> QED
        BY <2>2, <2>3, <2>5 DEF Lists, n
<1>6. \A i, j \in 1..n : i # j => r[i] # r[j]
    BY <1>1, <1>5
<1>7. r \in SetToSeqs(S)
    BY <1>1, <1>4, <1>6 DEF SetToSeqs
<1> QED
    BY <1>7, SetToSeqsLists DEF r

\* Every selector orders the whole live pool; those that rank put the better tier
\* in front.
LEMMA OrdersRank ==
    ASSUME NEW v, IsView(v), NEW S \in SUBSET Proxy,
           NEW r, NEW t \in Nat, NEW hash \in Nat
    PROVE  /\ AllList(Orders(r, v, S, t, hash), S)
           /\ r.selector \in {"best_latency", "hedge", "random"} =>
                \A p, q \in S : v.tier[p] < v.tier[q] =>
                    AllPrecede(Orders(r, v, S, t, hash), p, q)
<1> DEFINE ranked == ByTierAndLatency(v, Filter(Snapshot, S))
           orders == Orders(r, v, S, t, hash)
           n == Cardinality(S)
           Ranks == \A p, q \in S : v.tier[p] < v.tier[q] => AllPrecede(orders, p, q)
<1>1. AllList(ranked, S)
    BY Ranked
<1>2. \A p, q \in S : v.tier[p] < v.tier[q] => AllPrecede(ranked, p, q)
    BY Ranked
<1>3. n \in Nat
    BY PoolFinite
<1>4. orders = CASE r.selector = "random" -> SortEach(SetToSeqs(S), v.tier)
                 [] r.selector = "round_robin" /\ n > 1 ->
                      {RotateLeft(s, t % n) : s \in ranked}
                 [] r.selector = "sticky_by_header" /\ n > 1 ->
                      {RotateLeft(s, hash % n) : s \in ranked}
                 [] OTHER -> ranked
    BY DEF Orders
<1>5. CASE r.selector = "random"
    <2>1. orders = SortEach(SetToSeqs(S), v.tier)
        BY <1>4, <1>5
    <2>2. AllList(SetToSeqs(S), S)
        BY SetToSeqsLists DEF AllList
    <2>3. AllList(SortEach(SetToSeqs(S), v.tier), S)
        BY <2>2, SortLists
    <2>4. \A p, q \in S : v.tier[p] < v.tier[q] =>
              AllPrecede(SortEach(SetToSeqs(S), v.tier), p, q)
        BY <2>2, ViewKeys, SortRanks
    <2> QED
        BY <2>1, <2>3, <2>4
<1>6. ASSUME NEW k \in Nat, n > 1
      PROVE  AllList({RotateLeft(s, k % n) : s \in ranked}, S)
    <2>1. k % n \in Nat
        BY <1>3, <1>6
    <2> HIDE DEF ranked
    <2> QED
        BY <1>1, <1>3, <1>6, <2>1, RotateLists DEF AllList
<1> HIDE DEF ranked, n
<1>7. CASE r.selector = "round_robin" /\ n > 1
    <2>1. orders = {RotateLeft(s, t % n) : s \in ranked}
        BY <1>4, <1>7
    <2> QED
        BY <1>6, <1>7, <2>1
<1>8. CASE r.selector = "sticky_by_header" /\ n > 1
    <2>1. orders = {RotateLeft(s, hash % n) : s \in ranked}
        BY <1>4, <1>8
    <2> QED
        BY <1>6, <1>8, <2>1
<1>9. CASE /\ r.selector # "random"
           /\ ~(r.selector = "round_robin" /\ n > 1)
           /\ ~(r.selector = "sticky_by_header" /\ n > 1)
    <2>1. orders = ranked
        BY <1>4, <1>9
    <2> QED
        BY <1>1, <1>2, <2>1
<1> HIDE DEF orders
<1> QED
    BY <1>5, <1>7, <1>8, <1>9 DEF orders

-----------------------------------------------------------------------------
(* The last sorts and the cut.                                             *)

LEMMA RankKeys ==
    ASSUME NEW r, NEW v, NEW p \in Proxy
    PROVE  /\ ReserveKeys(v)[p] = IF IsReserve(v.tags[p]) THEN 1 ELSE 0
           /\ PreferKeys(r, v)[p] = IF r.prefer \cap v.tags[p] = {} THEN 1 ELSE 0
BY DEF ReserveKeys, PreferKeys, Rank

\* With neither sort telling them apart two proxies stay in their order; a reserve
\* proxy goes behind one that is none, if the route says so, unless it is preferred.
LEMMA ArrangedOrder ==
    ASSUME NEW r, NEW v, NEW S \in SUBSET Proxy, NEW lists, AllList(lists, S)
    PROVE  LET arranged == PreferredFirst(r, v, ReserveLast(r, v, lists)) IN
           /\ AllList(arranged, S)
           /\ \A p, q \in S :
                 /\ AllPrecede(lists, p, q)
                 /\ r.preferNonReserve => (IsReserve(v.tags[p]) <=> IsReserve(v.tags[q]))
                 /\ r.prefer \cap v.tags[p] = {} <=> r.prefer \cap v.tags[q] = {}
                 => AllPrecede(arranged, p, q)
           /\ \A p, q \in S :
                 /\ r.preferNonReserve /\ ~IsReserve(v.tags[p]) /\ IsReserve(v.tags[q])
                 /\ r.prefer \cap v.tags[q] = {}
                 => AllPrecede(arranged, p, q)
<1> DEFINE behind == ReserveLast(r, v, lists)
           arranged == PreferredFirst(r, v, behind)
<1>1. \A p \in S : ReserveKeys(v)[p] \in Int /\ PreferKeys(r, v)[p] \in Int
    BY RankKeys
<1>2. behind = IF r.preferNonReserve THEN SortEach(lists, ReserveKeys(v)) ELSE lists
    BY DEF ReserveLast
<1> HIDE DEF behind
<1>3. arranged = IF r.prefer = {} THEN behind ELSE SortEach(behind, PreferKeys(r, v))
    BY DEF PreferredFirst
<1> HIDE DEF arranged
<1>4. AllList(behind, S)
    BY <1>2, SortLists
<1>5. AllList(arranged, S)
    BY <1>3, <1>4, SortLists
<1>6. ASSUME NEW p \in S, NEW q \in S, AllPrecede(behind, p, q),
             \/ r.prefer \cap v.tags[q] = {}
             \/ r.prefer \cap v.tags[p] # {}
      PROVE  AllPrecede(arranged, p, q)
    <2>1. CASE r.prefer = {}
        BY <1>3, <1>6, <2>1
    <2>2. CASE r.prefer # {}
        <3>1. \/ PreferKeys(r, v)[p] < PreferKeys(r, v)[q]
              \/ PreferKeys(r, v)[p] = PreferKeys(r, v)[q]
            BY <1>6, RankKeys
        <3>2. AllPrecede(SortEach(behind, PreferKeys(r, v)), p, q)
            BY <1>1, <1>4, <1>6, <3>1, SortRanks
        <3> QED
            BY <1>3, <2>2, <3>2
    <2> QED
        BY <2>1, <2>2
<1>7. ASSUME NEW p \in S, NEW q \in S, AllPrecede(lists, p, q),
             r.preferNonReserve => (IsReserve(v.tags[p]) <=> IsReserve(v.tags[q]))
      PROVE  AllPrecede(behind, p, q)
    <2>1. CASE ~r.preferNonReserve
        BY <1>2, <1>7, <2>1
    <2>2. CASE r.preferNonReserve
        <3>1. ReserveKeys(v)[p] = ReserveKeys(v)[q]
            BY <1>7, <2>2, RankKeys
        <3>2. AllPrecede(SortEach(lists, ReserveKeys(v)), p, q)
            BY <1>1, <1>7, <3>1, SortRanks
        <3> QED
            BY <1>2, <2>2, <3>2
    <2> QED
        BY <2>1, <2>2
<1>8. ASSUME NEW p \in S, NEW q \in S, r.preferNonReserve,
             ~IsReserve(v.tags[p]), IsReserve(v.tags[q])
      PROVE  AllPrecede(behind, p, q)
    <2>1. ReserveKeys(v)[p] < ReserveKeys(v)[q]
        BY <1>8, RankKeys
    <2>2. AllPrecede(SortEach(lists, ReserveKeys(v)), p, q)
        BY <1>1, <2>1, SortRanks
    <2> QED
        BY <1>2, <1>8, <2>2
<1>9. \A p, q \in S :
         /\ AllPrecede(lists, p, q)
         /\ r.preferNonReserve => (IsReserve(v.tags[p]) <=> IsReserve(v.tags[q]))
         /\ r.prefer \cap v.tags[p] = {} <=> r.prefer \cap v.tags[q] = {}
         => AllPrecede(arranged, p, q)
    BY <1>6, <1>7
<1>10. \A p, q \in S :
         /\ r.preferNonReserve /\ ~IsReserve(v.tags[p]) /\ IsReserve(v.tags[q])
         /\ r.prefer \cap v.tags[q] = {}
         => AllPrecede(arranged, p, q)
    BY <1>6, <1>8
<1> QED
    BY <1>5, <1>9, <1>10 DEF arranged, behind

\* The first m of a list.
Cut(s, m) == SubSeq(s, 1, IF Len(s) < m THEN Len(s) ELSE m)

\* The cut keeps the front of a list.
LEMMA CutFront ==
    ASSUME NEW S, NEW s, Lists(s, S), NEW m \in Nat
    PROVE  /\ Cut(s, m) \in Seq(S)
           /\ Len(Cut(s, m)) = IF Len(s) < m THEN Len(s) ELSE m
           /\ DOMAIN Cut(s, m) = 1..Len(Cut(s, m))
           /\ \A i \in 1..Len(Cut(s, m)) : Cut(s, m)[i] = s[i]
<1> DEFINE n == IF Len(s) < m THEN Len(s) ELSE m
<1>1. s \in Seq(S) /\ n \in Nat /\ n <= Len(s)
    BY DEF Lists
<1>2. Cut(s, m) = SubSeq(s, 1, n)
    BY DEF Cut
<1> HIDE DEF n
<1>3. /\ SubSeq(s, 1, n) \in Seq(S) /\ Len(SubSeq(s, 1, n)) = n
      /\ \A i \in 1..n : SubSeq(s, 1, n)[i] = s[i]
    BY <1>1
<1> QED
    BY <1>2, <1>3 DEF n

\* So whoever comes before a member of it is a member before it.
LEMMA CutPrecedes ==
    ASSUME NEW S, NEW s, Lists(s, S), NEW m \in Nat, NEW p, NEW q,
           Precedes(s, p, q), q \in Range(Cut(s, m))
    PROVE  \E i, j \in DOMAIN Cut(s, m) : Cut(s, m)[i] = p /\ Cut(s, m)[j] = q /\ i < j
<1>1. PICK a, b \in 1..Len(s) : a < b /\ s[a] = p /\ s[b] = q
    BY ListsRange DEF Precedes
<1>2. PICK j \in DOMAIN Cut(s, m) : Cut(s, m)[j] = q
    BY DEF Range
<1>3. Len(s) \in Nat /\ Len(Cut(s, m)) \in Nat /\ Len(Cut(s, m)) <= Len(s)
    BY CutFront, ListsRange
<1>4. j \in 1..Len(Cut(s, m)) /\ s[j] = q /\ j \in 1..Len(s)
    BY <1>2, <1>3, CutFront
<1>5. j = b
    BY <1>1, <1>4 DEF Lists
<1>6. a \in 1..Len(Cut(s, m))
    BY <1>1, <1>3, <1>4, <1>5
<1>7. Cut(s, m)[a] = p /\ a \in DOMAIN Cut(s, m)
    BY <1>1, <1>6, CutFront
<1> QED
    BY <1>1, <1>2, <1>5, <1>7

\* A plan is the front of a list of the live pool that is ordered as above.
LEMMA PlanShape ==
    ASSUME NEW r, r.maxAttempts \in Nat \ {0}, NEW all, NEW any, NEW v, IsView(v),
           NEW t \in Nat, NEW hash \in Nat,
           NEW s \in BuildPlans(r, all, any, v, t, hash)
    PROVE  LET S == Live(r, all, any, v)
               orders == Orders(r, v, S, t, hash)
           IN  /\ S \in SUBSET Proxy /\ AllList(orders, S)
               /\ \E whole \in PreferredFirst(r, v, ReserveLast(r, v, orders)) :
                     Lists(whole, S) /\ s = Cut(whole, r.maxAttempts)
<1> DEFINE S == Live(r, all, any, v)
           orders == Orders(r, v, S, t, hash)
           arranged == PreferredFirst(r, v, ReserveLast(r, v, orders))
<1>1. S \in SUBSET Proxy
    BY DEF Live
<1>2. s \in Arrange(r, v, orders)
    BY DEF BuildPlans
<1> HIDE DEF S
<1>3. AllList(orders, S)
    BY <1>1, OrdersRank
<1> HIDE DEF orders
<1>4. AllList(arranged, S)
    BY <1>1, <1>3, ArrangedOrder
<1>5. \E whole \in arranged : s = Cut(whole, r.maxAttempts)
    BY <1>2 DEF Arrange, Truncate, Cut
<1>6. \E whole \in arranged : Lists(whole, S) /\ s = Cut(whole, r.maxAttempts)
    BY <1>4, <1>5 DEF AllList
<1> QED
    BY <1>1, <1>3, <1>6 DEF S, orders, arranged

\* The front of a list of S has as many members as places, and all of S or m.
LEMMA CutIsFull ==
    ASSUME NEW S \in SUBSET Proxy, NEW s, Lists(s, S), NEW m \in Nat
    PROVE  /\ Range(Cut(s, m)) \subseteq S
           /\ Cardinality(Range(Cut(s, m))) = Len(Cut(s, m))
           /\ Len(Cut(s, m)) = m \/ Range(Cut(s, m)) = S
<1> DEFINE c == Cut(s, m)
           n == Len(Cut(s, m))
<1>1. /\ c \in Seq(S) /\ n = (IF Len(s) < m THEN Len(s) ELSE m) /\ DOMAIN c = 1..n
      /\ \A i \in 1..n : c[i] = s[i]
    BY CutFront
<1>2. Len(s) \in Nat /\ n \in Nat /\ n <= Len(s)
    BY <1>1, ListsRange
<1>3. Range(c) \subseteq S
    BY <1>1 DEF Range
<1> HIDE DEF n, c
<1>4. c \in Seq(S) /\ Len(c) = n /\ \A i, j \in 1..n : c[i] = c[j] => i = j
    BY <1>1, <1>2 DEF Lists, n, c
<1>5. Cardinality(Range(c)) = n
    BY <1>4, DistinctRange
<1>6. n = m \/ Range(c) = S
    <2>1. CASE Len(s) < m
        <3>1. \A i \in 1..Len(s) : c[i] = s[i] /\ i \in DOMAIN c
            BY <1>1, <2>1
        <3>2. S \subseteq Range(c)
            BY <3>1 DEF Lists, Range
        <3> QED
            BY <1>3, <3>2
    <2>2. CASE ~(Len(s) < m)
        BY <1>1, <2>2
    <2> QED
        BY <2>1, <2>2
<1> QED
    BY <1>3, <1>5, <1>6 DEF c, n

-----------------------------------------------------------------------------
(* There is one way to sort.                                               *)

\* A set of places has a first one.
LEMMA HasFirst ==
    ASSUME NEW T \in SUBSET Nat, T # {}
    PROVE  \E i \in T : \A j \in T : i <= j
<1>1. PICK i \in T : \A j \in T : <<j, i>> \notin OpToRel(<, Nat)
    BY NatLessThanWellFounded, WFMin
<1>2. \A j \in T : ~(j < i)
    BY <1>1 DEF OpToRel
<1> QED
    BY <1>2

\* Two lists of the same proxies in the same order are the same.
LEMMA SameOrder ==
    ASSUME NEW S, NEW t, NEW u, Lists(t, S), Lists(u, S),
           \A p, q \in S : Precedes(t, p, q) => Precedes(u, p, q)
    PROVE  t = u
<1> DEFINE n == Cardinality(S)
           D == {i \in 1..n : t[i] # u[i]}
<1>1. /\ Len(t) = n /\ Len(u) = n /\ n \in Nat /\ t \in [1..n -> S] /\ u \in [1..n -> S]
      /\ DOMAIN t = 1..n /\ DOMAIN u = 1..n
    BY ListsRange DEF Lists
<1> HIDE DEF n
<1>2. ASSUME D # {} PROVE FALSE
    <2>1. PICK i \in D : \A j \in D : i <= j
        <3>1. D \in SUBSET Nat
            BY <1>1
        <3> HIDE DEF D
        <3> QED
            BY <1>2, <3>1, HasFirst
    <2>2. i \in 1..n /\ t[i] # u[i] /\ t[i] \in S /\ u[i] \in S
        BY <1>1
    <2>3. \A j \in 1..n : j < i => t[j] = u[j]
        BY <1>1, <2>1, <2>2
    <2>4. PICK j \in 1..n : u[j] = t[i]
        BY <1>1, <2>2 DEF Lists
    <2>5. PICK k \in 1..n : t[k] = u[i]
        BY <1>1, <2>2 DEF Lists
    <2>6. i < j
        <3>1. ~(j < i)
            BY <1>1, <2>2, <2>3, <2>4 DEF Lists
        <3> QED
            BY <1>1, <2>2, <2>4, <3>1
    <2>7. i < k
        <3>1. ~(k < i)
            BY <1>1, <2>2, <2>3, <2>5 DEF Lists
        <3> QED
            BY <1>1, <2>2, <2>5, <3>1
    <2>8. Precedes(u, u[i], t[i])
        BY <1>1, <2>2, <2>4, <2>6 DEF Precedes
    <2>9. Precedes(t, t[i], u[i])
        BY <1>1, <2>2, <2>5, <2>7 DEF Precedes
    <2>10. Precedes(u, t[i], u[i])
        BY <2>2, <2>9
    <2> QED
        BY <2>8, <2>10, PrecedesAsymmetric
<1>3. \A i \in 1..n : t[i] = u[i]
    BY <1>2
<1> QED
    BY <1>1, <1>3

\* Only one list filters the proxy list.
LEMMA FilterUnique ==
    ASSUME NEW S \in SUBSET Proxy, NEW t \in Filter(Snapshot, S), NEW u \in Filter(Snapshot, S)
    PROVE  t = u
<1>1. Lists(t, S) /\ Lists(u, S)
    BY FilterLists
<1>2. ASSUME NEW p \in S, NEW q \in S, Precedes(t, p, q) PROVE Precedes(u, p, q)
    <2>1. Precedes(Snapshot, p, q)
        BY <1>2 DEF Filter, Precedes
    <2>2. ~Precedes(Snapshot, q, p)
        BY <2>1, SnapshotLists, PrecedesAsymmetric
    <2>3. ~Precedes(u, q, p)
        BY <2>2 DEF Filter, Precedes
    <2> QED
        BY <1>1, <1>2, <2>3, PrecedesTotal, PrecedesAsymmetric
<1> QED
    BY <1>1, <1>2, SameOrder

\* Only one list sorts a list.
LEMMA SortUnique ==
    ASSUME NEW S \in SUBSET Proxy, NEW s, Lists(s, S),
           NEW key, \A p \in S : key[p] \in Int,
           NEW t \in StableSort(s, key), NEW u \in StableSort(s, key)
    PROVE  t = u
<1>1. AllList({s}, S) /\ t \in SortEach({s}, key) /\ u \in SortEach({s}, key)
    BY DEF AllList, SortEach
<1>2. Lists(t, S) /\ Lists(u, S)
    BY <1>1, SortLists DEF AllList
<1>3. ASSUME NEW p \in S, NEW q \in S, Precedes(t, p, q) PROVE Precedes(u, p, q)
    <2>1. key[p] < key[q] \/ (key[p] = key[q] /\ Precedes(s, p, q))
        BY <1>3 DEF StableSort, Precedes
    <2>2. key[p] < key[q] \/ (key[p] = key[q] /\ AllPrecede({s}, p, q))
        BY <2>1 DEF AllPrecede
    <2>3. AllPrecede(SortEach({s}, key), p, q)
        BY <1>1, <2>2, SortRanks
    <2> QED
        BY <1>1, <2>3 DEF AllPrecede
<1> QED
    BY <1>2, <1>3, SameOrder

\* A sort that tells no proxies apart changes nothing.
LEMMA SortByNothing ==
    ASSUME NEW S \in SUBSET Proxy, NEW lists, AllList(lists, S),
           NEW key, \A p \in S : key[p] \in Int, \A p, q \in S : key[p] = key[q]
    PROVE  SortEach(lists, key) \subseteq lists
<1> SUFFICES ASSUME NEW s \in lists, NEW t \in StableSort(s, key) PROVE t = s
    BY DEF SortEach
<1>1. t \in SortEach(lists, key) /\ Lists(s, S)
    BY DEF AllList, SortEach
<1>2. Lists(t, S)
    BY <1>1, SortLists DEF AllList
<1>3. ASSUME NEW p \in S, NEW q \in S, Precedes(s, p, q) PROVE Precedes(t, p, q)
    <2>1. p # q /\ ~Precedes(s, q, p)
        BY <1>1, <1>3, PrecedesAsymmetric
    <2>2. CASE Precedes(t, q, p)
        <3>1. PICK m, n \in DOMAIN t : m < n /\ t[m] = q /\ t[n] = p
            BY <2>2 DEF Precedes
        <3>2. key[q] < key[p] \/ (key[q] = key[p] /\ Precedes(s, q, p))
            BY <3>1 DEF StableSort
        <3> QED
            BY <2>1, <3>2
    <2> QED
        BY <1>2, <2>1, <2>2, PrecedesTotal
<1> QED
    BY <1>1, <1>2, <1>3, SameOrder

\* Only one list of the live pool is sorted by tier and latency.
LEMMA RankedUnique ==
    ASSUME NEW v, IsView(v), NEW S \in SUBSET Proxy,
           NEW t \in ByTierAndLatency(v, Filter(Snapshot, S)),
           NEW u \in ByTierAndLatency(v, Filter(Snapshot, S))
    PROVE  t = u
<1> DEFINE lat == LatencyKeys(v)
<1>1. \A p \in S : v.tier[p] \in Int /\ lat[p] \in Int
    BY ViewKeys
<1> HIDE DEF lat
<1>2. \E t1 \in SortEach(Filter(Snapshot, S), lat) : t \in StableSort(t1, v.tier)
    BY DEF ByTierAndLatency, SortEach, lat
<1>3. \E u1 \in SortEach(Filter(Snapshot, S), lat) : u \in StableSort(u1, v.tier)
    BY DEF ByTierAndLatency, SortEach, lat
<1>4. PICK t1, t0 : /\ t0 \in Filter(Snapshot, S) /\ t1 \in StableSort(t0, lat)
                    /\ t \in StableSort(t1, v.tier)
    BY <1>2 DEF SortEach
<1>5. PICK u1, u0 : /\ u0 \in Filter(Snapshot, S) /\ u1 \in StableSort(u0, lat)
                    /\ u \in StableSort(u1, v.tier)
    BY <1>3 DEF SortEach
<1>6. t0 = u0 /\ Lists(t0, S)
    BY <1>4, <1>5, FilterUnique, FilterLists
<1>7. t1 = u1
    BY <1>1, <1>4, <1>5, <1>6, SortUnique
<1>8. Lists(t1, S)
    <2>1. AllList({t0}, S) /\ t1 \in SortEach({t0}, lat)
        BY <1>4, <1>6 DEF AllList, SortEach
    <2> QED
        BY <2>1, SortLists DEF AllList
<1> QED
    BY <1>1, <1>4, <1>5, <1>7, <1>8, SortUnique

-----------------------------------------------------------------------------
(* Round robin.                                                            *)

\* No tag reorders the live pool S of route r.
Unsorted(r, v, S) ==
    /\ r.preferNonReserve => \A p \in S : ~IsReserve(v.tags[p])
    /\ \A p, q \in S : r.prefer \cap v.tags[p] # {} <=> r.prefer \cap v.tags[q] # {}

\* Then a round-robin plan starts where the cursor stands.
LEMMA StartsAtCursor ==
    ASSUME NEW r, r.maxAttempts \in Nat \ {0}, r.selector = "round_robin",
           NEW all, NEW any, NEW v, IsView(v), NEW t \in Nat, NEW hash \in Nat,
           NEW plan1 \in BuildPlans(r, all, any, v, t, hash),
           Unsorted(r, v, Live(r, all, any, v)),
           Cardinality(Live(r, all, any, v)) > 1
    PROVE  LET S == Live(r, all, any, v) IN
           /\ plan1 # <<>>
           /\ \E s \in ByTierAndLatency(v, Filter(Snapshot, S)) :
                 Lists(s, S) /\ Head(plan1) = s[(t % Cardinality(S)) + 1]
<1> DEFINE S == Live(r, all, any, v)
           n == Cardinality(S)
           orders == Orders(r, v, S, t, hash)
           ranked == ByTierAndLatency(v, Filter(Snapshot, S))
<1>1. S \in SUBSET Proxy /\ AllList(orders, S)
    BY PlanShape
<1>2. PICK whole \in PreferredFirst(r, v, ReserveLast(r, v, orders)) :
               Lists(whole, S) /\ plan1 = Cut(whole, r.maxAttempts)
    BY PlanShape
<1>3. orders = {RotateLeft(s, t % n) : s \in ranked}
    BY DEF Orders
<1>4. AllList(ranked, S)
    BY <1>1, Ranked
<1>5. Unsorted(r, v, S) /\ n > 1
    OBVIOUS
<1>6. n \in Nat
    BY <1>1, PoolFinite
<1> HIDE DEF S, n, orders, ranked
<1>7. \A p \in S : ReserveKeys(v)[p] \in Int /\ PreferKeys(r, v)[p] \in Int
    <2>1. \A p \in Proxy : ReserveKeys(v)[p] \in Int /\ PreferKeys(r, v)[p] \in Int
        BY RankKeys
    <2> QED
        BY <1>1, <2>1
<1>8. ReserveLast(r, v, orders) \subseteq orders
    <2>1. CASE r.preferNonReserve
        <3>1. \A p, q \in S : ReserveKeys(v)[p] = ReserveKeys(v)[q]
            BY <1>1, <1>5, <2>1, RankKeys DEF Unsorted
        <3> QED
            BY <1>1, <1>7, <2>1, <3>1, SortByNothing DEF ReserveLast
    <2> QED
        BY <2>1 DEF ReserveLast
<1>9. PreferredFirst(r, v, ReserveLast(r, v, orders)) \subseteq orders
    <2>1. AllList(ReserveLast(r, v, orders), S)
        BY <1>1, <1>8 DEF AllList
    <2>2. \A p, q \in S : PreferKeys(r, v)[p] = PreferKeys(r, v)[q]
        BY <1>1, <1>5, RankKeys DEF Unsorted
    <2> QED
        BY <1>1, <1>7, <1>8, <2>1, <2>2, SortByNothing DEF PreferredFirst
<1>10. PICK s \in ranked : whole = RotateLeft(s, t % n)
    BY <1>2, <1>3, <1>9
<1>11. Lists(s, S) /\ Len(s) = n /\ DOMAIN s = 1..n
    BY <1>4, <1>10, ListsRange DEF AllList, Lists, n
<1>12. whole[1] = s[(t % n) + 1]
    <2>1. t % n \in 0..(n - 1) /\ (t % n) % n = t % n
        BY <1>5, <1>6
    <2>2. whole[1] = s[((1 - 1 + (t % n)) % n) + 1]
        BY <1>5, <1>6, <1>10, <1>11 DEF RotateLeft
    <2>3. 1 - 1 + (t % n) = t % n
        BY <2>1
    <2> QED
        BY <2>1, <2>2, <2>3
<1>13. plan1 # <<>> /\ Head(plan1) = whole[1]
    <2>1. Len(whole) = n
        BY <1>2 DEF Lists, n
    <2>2. Len(plan1) >= 1 /\ plan1 \in Seq(S) /\ \A i \in 1..Len(plan1) : plan1[i] = whole[i]
        BY <1>2, <1>5, <1>6, <2>1, CutFront
    <2> QED
        BY <2>2
<1> QED
    BY <1>10, <1>11, <1>12, <1>13 DEF S, ranked, n

\* The list f holds what the last of t turns on the list s of n came to.
Turned(f, t, s, n) ==
    /\ Len(f) <= t
    /\ \A i \in 1..Len(f) : f[i] = s[((t - Len(f) + i - 1) % n) + 1]

\* The last n of a list.
LastOf(f, n) == SubSeq(f, IF Len(f) > n THEN Len(f) - n + 1 ELSE 1, Len(f))

LEMMA LastOfList ==
    ASSUME NEW S, NEW f \in Seq(S), NEW n \in Nat, n > 0, Len(f) <= n + 1
    PROVE  /\ LastOf(f, n) \in Seq(S) /\ Len(LastOf(f, n)) <= n
           /\ Len(LastOf(f, n)) = (IF Len(f) > n THEN n ELSE Len(f))
           /\ \A i \in 1..Len(LastOf(f, n)) :
                 LastOf(f, n)[i] = f[i + Len(f) - Len(LastOf(f, n))]
<1> DEFINE m == IF Len(f) > n THEN Len(f) - n + 1 ELSE 1
<1>1. m \in Nat /\ m >= 1 /\ m <= Len(f) + 1 /\ Len(f) \in Nat
    OBVIOUS
<1>2. LastOf(f, n) = SubSeq(f, m, Len(f))
    BY DEF LastOf
<1> HIDE DEF m
<1>3. /\ SubSeq(f, m, Len(f)) \in Seq(S) /\ Len(SubSeq(f, m, Len(f))) = Len(f) - m + 1
      /\ \A i \in 1..(Len(f) - m + 1) : SubSeq(f, m, Len(f))[i] = f[m + i - 1]
    BY <1>1
<1>4. Len(f) - m + 1 = IF Len(f) > n THEN n ELSE Len(f)
    BY <1>1 DEF m
<1>5. \A i \in Int : m + i - 1 = i + Len(f) - (Len(f) - m + 1)
    BY <1>1
<1> QED
    BY <1>1, <1>2, <1>3, <1>4, <1>5

\* One more turn.
LEMMA OneMoreTurn ==
    ASSUME NEW S, NEW f \in Seq(S), NEW t \in Nat, NEW s, NEW n \in Nat, n > 1,
           Len(f) <= n, Turned(f, t, s, n), NEW p \in S, p = s[(t % n) + 1]
    PROVE  Turned(LastOf(Append(f, p), n), t + 1, s, n)
<1> DEFINE all == Append(f, p)
           new == LastOf(all, n)
           m == Len(f)
           k == Len(new)
<1>1. /\ all \in Seq(S) /\ Len(all) = m + 1 /\ m \in Nat /\ all[m + 1] = p
      /\ \A j \in 1..m : all[j] = f[j]
    OBVIOUS
<1> HIDE DEF all
<1>2. /\ k <= n /\ k = (IF m + 1 > n THEN n ELSE m + 1)
      /\ \A i \in 1..k : new[i] = all[i + (m + 1) - k]
    <2>1. Len(all) <= n + 1 /\ n > 0
        BY <1>1
    <2>2. /\ k <= n /\ k = (IF Len(all) > n THEN n ELSE Len(all))
          /\ \A i \in 1..k : new[i] = all[i + Len(all) - k]
        BY <1>1, <2>1, LastOfList
    <2> HIDE DEF m, k, new
    <2> QED
        BY <1>1, <2>2
<1>3. m <= t /\ m <= n /\ \A i \in 1..m : f[i] = s[((t - m + i - 1) % n) + 1]
    BY DEF Turned
<1> HIDE DEF m, k, new
<1>4. k \in Nat /\ k <= m + 1 /\ k <= t + 1
    BY <1>1, <1>2, <1>3
<1>5. ASSUME NEW i \in 1..k PROVE new[i] = s[(((t + 1) - k + i - 1) % n) + 1]
    <2> DEFINE j == i + (m + 1) - k
    <2>1. j \in 1..(m + 1) /\ new[i] = all[j] /\ (t + 1) - k + i - 1 = t - m + j - 1
        BY <1>1, <1>2, <1>4
    <2> HIDE DEF j
    <2>2. CASE j \in 1..m
        BY <1>1, <1>3, <2>1, <2>2
    <2>3. CASE j = m + 1
        <3>1. t - m + j - 1 = t
            BY <1>1, <2>3
        <3>2. new[i] = s[(t % n) + 1]
            BY <1>1, <2>1, <2>3
        <3> QED
            BY <2>1, <3>1, <3>2
    <2> QED
        BY <1>1, <2>1, <2>2, <2>3
<1> QED
    BY <1>4, <1>5 DEF Turned, new, k, all

\* As many turns as there are places, and no place twice.
LEMMA TurnsDiffer ==
    ASSUME NEW S \in SUBSET Proxy, NEW s, Lists(s, S), NEW f \in Seq(S), NEW t \in Nat,
           Len(f) <= Len(s), Turned(f, t, s, Len(s))
    PROVE  \A i, j \in 1..Len(f) : f[i] = f[j] => i = j
<1> DEFINE n == Len(s)
           m == Len(f)
<1>1. /\ n \in Nat /\ m \in Nat /\ m <= n /\ m <= t
      /\ \A i \in 1..m : f[i] = s[((t - m + i - 1) % n) + 1]
    BY ListsRange DEF Turned
<1>2. \A i, j \in 1..n : s[i] = s[j] => i = j
    BY DEF Lists
<1> HIDE DEF n, m
<1>3. ASSUME NEW i \in 1..m, NEW j \in 1..m, i < j PROVE f[i] # f[j]
    <2> DEFINE a == t - m + i - 1
               b == t - m + j - 1
    <2>1. a \in Nat /\ b \in Nat /\ a < b /\ b < a + n /\ n \in Nat \ {0}
        BY <1>1, <1>3
    <2>2. f[i] = s[(a % n) + 1] /\ f[j] = s[(b % n) + 1]
        BY <1>1
    <2> HIDE DEF a, b
    <2>3. a % n # b % n
        BY <2>1, ModApart
    <2>4. (a % n) + 1 \in 1..n /\ (b % n) + 1 \in 1..n /\ (a % n) + 1 # (b % n) + 1
        BY <2>1, <2>3
    <2> QED
        BY <1>2, <2>2, <2>4
<1> QED
    BY <1>1, <1>3 DEF m

-----------------------------------------------------------------------------
(* The invariant.                                                          *)

\* The first proxies of the last plans are those the cursor stood at.
Turns ==
    LET n == Cardinality(LiveSet) IN
    /\ Len(firsts) <= n
    /\ (/\ route.selector = "round_robin" /\ Unsorted(route, view, LiveSet)
        /\ n > 1 /\ firsts # <<>>)
       => \E s \in ByTierAndLatency(view, Filter(Snapshot, LiveSet)) :
             Lists(s, LiveSet) /\ Turned(firsts, turn, s, n)

IInv ==
    /\ TypeOK /\ IsView(view) /\ Turns
    /\ PlanIsFull /\ BetterTierFirst /\ ReserveAfterAllOthers

LEMMA LiveFinite ==
    LiveSet \in SUBSET Proxy /\ IsFiniteSet(LiveSet) /\ Cardinality(LiveSet) \in Nat
<1>1. LiveSet \in SUBSET Proxy
    BY DEF LiveSet, Live
<1> QED
    BY <1>1, PoolFinite

\* What is known of routes.
LEMMA RouteIs ==
    ASSUME TypeOK
    PROVE  route.maxAttempts \in Nat \ {0} /\ turn \in Nat
BY SelectionAssumption DEF TypeOK

LEMMA InitIInv == Init => IInv
<1> SUFFICES ASSUME Init PROVE IInv
    OBVIOUS
<1>1. PICK tags \in [Proxy -> TagSet], at \in Standing :
          view = [tags |-> tags, tier |-> [p \in Proxy |-> at[1]],
                  latency |-> [p \in Proxy |-> at[2]]]
    BY DEF Init
<1>2. at[1] \in Tiers /\ at[2] \in Nat /\ at[2] < Forever
    BY SelectionAssumption
<1>3. view \in [tags : [Proxy -> TagSet], tier : [Proxy -> Tiers], latency : [Proxy -> Nat]]
    BY <1>1, <1>2
<1>4. IsView(view)
    BY <1>1, <1>2 DEF IsView
<1>5. TypeOK
    <2>1. <<>> \in Seq(Proxy) /\ 0 \in 0..MaxTurn
        BY SelectionAssumption
    <2> QED
        BY <1>3, <2>1 DEF Init, TypeOK
<1>6. Turns
    BY LiveFinite DEF Init, Turns
<1>7. PlanIsFull /\ BetterTierFirst /\ ReserveAfterAllOthers
    BY DEF Init, PlanIsFull, BetterTierFirst, ReserveAfterAllOthers
<1> QED
    BY <1>4, <1>5, <1>6, <1>7 DEF IInv

\* What the other steps do: they forget the plans.
LEMMA StepForget ==
    ASSUME IInv, NEW p \in Proxy, Observe(p) \/ SetTags(p)
    PROVE  IInv'
<1>0. TypeOK /\ IsView(view)
    BY DEF IInv
<1>1. Forget
    BY DEF Observe, SetTags
<1>2. /\ view' \in [tags : [Proxy -> TagSet], tier : [Proxy -> Tiers],
                    latency : [Proxy -> Nat]]
      /\ IsView(view)'
    <2>1. CASE Observe(p)
        <3>1. PICK at \in Standing :
                  view' = [view EXCEPT !.tier[p] = at[1], !.latency[p] = at[2]]
            BY <2>1 DEF Observe
        <3>2. at[1] \in Tiers /\ at[2] \in Nat /\ at[2] < Forever
            BY SelectionAssumption
        <3>3. /\ view'.tags = view.tags
              /\ view'.tier = [view.tier EXCEPT ![p] = at[1]]
              /\ view'.latency = [view.latency EXCEPT ![p] = at[2]]
              /\ view' = [tags |-> view'.tags, tier |-> view'.tier, latency |-> view'.latency]
            BY <1>0, <3>1 DEF TypeOK
        <3>4. view'.tier \in [Proxy -> Tiers] /\ view'.latency \in [Proxy -> Nat]
            BY <1>0, <3>2, <3>3 DEF TypeOK
        <3>5. \A q \in Proxy : view'.latency[q] < Forever
            BY <1>0, <3>2, <3>3 DEF TypeOK, IsView
        <3> QED
            BY <1>0, <3>3, <3>4, <3>5 DEF TypeOK, IsView
    <2>2. CASE SetTags(p)
        <3>1. PICK tags \in TagSet : view' = [view EXCEPT !.tags[p] = tags]
            BY <2>2 DEF SetTags
        <3>2. /\ view'.tier = view.tier /\ view'.latency = view.latency
              /\ view'.tags = [view.tags EXCEPT ![p] = tags]
              /\ view' = [tags |-> view'.tags, tier |-> view'.tier, latency |-> view'.latency]
            BY <1>0, <3>1 DEF TypeOK
        <3>3. view'.tags \in [Proxy -> TagSet]
            BY <1>0, <3>1, <3>2 DEF TypeOK
        <3> QED
            BY <1>0, <3>2, <3>3 DEF TypeOK, IsView
    <2> QED
        BY <2>1, <2>2
<1>3. TypeOK'
    <2>1. <<>> \in Seq(Proxy)
        OBVIOUS
    <2> QED
        BY <1>0, <1>1, <1>2, <2>1 DEF Forget, TypeOK
<1>4. Turns'
    <2>1. LiveSet' \in SUBSET Proxy
        BY DEF LiveSet, Live
    <2>2. Cardinality(LiveSet)' \in Nat
        BY <2>1, PoolFinite
    <2> QED
        BY <1>1, <2>2 DEF Forget, Turns
<1>5. PlanIsFull' /\ BetterTierFirst' /\ ReserveAfterAllOthers'
    BY <1>1 DEF Forget, PlanIsFull, BetterTierFirst, ReserveAfterAllOthers
<1> QED
    BY <1>2, <1>3, <1>4, <1>5 DEF IInv

\* What a request does to the plan.
LEMMA RequestPlan ==
    ASSUME IInv, Request
    PROVE  PlanIsFull' /\ BetterTierFirst' /\ ReserveAfterAllOthers' /\ plan' \in Seq(LiveSet)
<1>0. TypeOK /\ IsView(view)
    BY DEF IInv
<1>1. UNCHANGED <<route, view>> /\ LiveSet' = LiveSet
    BY DEF Request, LiveSet
<1>2. PICK hash \in Hash :
          plan' \in BuildPlans(route, route.poolAll, route.poolAny, view, turn, hash)
    BY DEF Request
<1>3. hash \in Nat /\ route.maxAttempts \in Nat \ {0} /\ turn \in Nat
    BY <1>0, RouteIs, SelectionAssumption
<1> DEFINE m == route.maxAttempts
           orders == Orders(route, view, LiveSet, turn, hash)
           arranged == PreferredFirst(route, view, ReserveLast(route, view, orders))
<1>4. /\ LiveSet \in SUBSET Proxy /\ AllList(orders, LiveSet)
      /\ \E whole \in arranged : Lists(whole, LiveSet) /\ plan' = Cut(whole, m)
    BY <1>0, <1>2, <1>3, PlanShape DEF LiveSet
<1>5. \A p, q \in LiveSet :
         /\ AllPrecede(orders, p, q)
         /\ route.preferNonReserve => (ReserveOf(p) <=> ReserveOf(q))
         /\ ~Preferred(p) <=> ~Preferred(q)
         => AllPrecede(arranged, p, q)
    BY <1>4, ArrangedOrder DEF ReserveOf, Preferred
<1>6. \A p, q \in LiveSet :
         /\ route.preferNonReserve /\ ~ReserveOf(p) /\ ReserveOf(q) /\ ~Preferred(q)
         => AllPrecede(arranged, p, q)
    BY <1>4, ArrangedOrder DEF ReserveOf, Preferred
<1>7. route.selector \in {"best_latency", "hedge", "random"} =>
          \A p, q \in LiveSet : view.tier[p] < view.tier[q] => AllPrecede(orders, p, q)
    BY <1>0, <1>3, <1>4, OrdersRank
<1> HIDE DEF orders, arranged, m
<1>8. PICK whole \in arranged : Lists(whole, LiveSet) /\ plan' = Cut(whole, m)
    BY <1>4
<1>9. m \in Nat
    BY <1>3 DEF m
<1>10. /\ Range(plan') \subseteq LiveSet /\ Cardinality(Range(plan')) = Len(plan')
       /\ Len(plan') = m \/ Range(plan') = LiveSet
    BY <1>4, <1>8, <1>9, CutIsFull
<1>11. \A p, q \in LiveSet : AllPrecede(arranged, p, q) /\ q \in Range(plan') =>
           \E i, j \in DOMAIN plan' : plan'[i] = p /\ plan'[j] = q /\ i < j
    BY <1>8, <1>9, CutPrecedes DEF AllPrecede
<1>12. PlanIsFull'
    BY <1>1, <1>10 DEF PlanIsFull, InPlan, m
<1>13. \A p : ReserveOf(p)' = ReserveOf(p) /\ Preferred(p)' = Preferred(p)
    BY <1>1 DEF ReserveOf, Preferred
<1>14. BetterTierFirst'
    <2> SUFFICES ASSUME route.selector \in {"best_latency", "hedge", "random"},
                        NEW p \in LiveSet, NEW q \in LiveSet,
                        SameGroup(p, q), view.tier[p] < view.tier[q], q \in Range(plan')
                 PROVE  \E i, j \in DOMAIN plan' : plan'[i] = p /\ plan'[j] = q /\ i < j
        BY <1>1, <1>13 DEF BetterTierFirst, InPlan, SameGroup
    <2>1. AllPrecede(arranged, p, q)
        BY <1>5, <1>7 DEF SameGroup
    <2> QED
        BY <1>11, <2>1
<1>15. ReserveAfterAllOthers'
    BY <1>1, <1>6, <1>11, <1>13 DEF ReserveAfterAllOthers, InPlan
<1>16. plan' \in Seq(LiveSet)
    BY <1>8, <1>9, CutFront
<1> QED
    BY <1>12, <1>14, <1>15, <1>16

\* And to the turns.
LEMMA RequestTurns ==
    ASSUME IInv, Request
    PROVE  Turns' /\ firsts' \in Seq(Proxy)
<1>0. TypeOK /\ IsView(view) /\ Turns
    BY DEF IInv
<1>1. UNCHANGED <<route, view>> /\ LiveSet' = LiveSet
    BY DEF Request, LiveSet
<1>2. PICK hash \in Hash :
          plan' \in BuildPlans(route, route.poolAll, route.poolAny, view, turn, hash)
    BY DEF Request
<1>3. hash \in Nat /\ route.maxAttempts \in Nat \ {0} /\ turn \in Nat
    BY <1>0, RouteIs, SelectionAssumption
<1> DEFINE n == Cardinality(LiveSet)
           p == Head(plan')
           all == Append(firsts, p)
           ranked == ByTierAndLatency(view, Filter(Snapshot, LiveSet))
<1>4. n \in Nat /\ IsFiniteSet(LiveSet) /\ LiveSet \in SUBSET Proxy
    BY LiveFinite
<1>5. firsts' = IF plan' = <<>> THEN <<>> ELSE LastOf(all, n)
    BY DEF Request, LastOf
<1>6. firsts \in Seq(Proxy) /\ Len(firsts) <= n
    BY <1>0 DEF TypeOK, Turns
<1>7. CASE plan' = <<>>
    <2>1. firsts' = <<>> /\ <<>> \in Seq(Proxy)
        BY <1>5, <1>7
    <2> QED
        BY <1>1, <1>4, <2>1 DEF Turns
<1>8. CASE plan' # <<>>
    <2>1. plan' \in Seq(LiveSet)
        BY RequestPlan
    <2>2. p \in LiveSet /\ p \in Proxy
        BY <1>4, <1>8, <2>1
    <2>3. n > 0
        BY <1>4, <2>2, FS_EmptySet
    <2> HIDE DEF p, n
    <2>4. all \in Seq(Proxy) /\ Len(all) <= n + 1
        BY <1>4, <1>6, <2>2
    <2> HIDE DEF all
    <2>5. firsts' \in Seq(Proxy) /\ Len(firsts') <= n
        BY <1>4, <1>5, <1>8, <2>3, <2>4, LastOfList
    <2>6. ASSUME route.selector = "round_robin", Unsorted(route, view, LiveSet), n > 1
          PROVE  \E s \in ranked : Lists(s, LiveSet) /\ Turned(firsts', turn', s, n)
        <3>1. turn' = turn + 1
            BY <2>6 DEF Request, NextTurn, LiveSet, n
        <3>2. PICK s \in ranked : Lists(s, LiveSet) /\ p = s[(turn % n) + 1]
            BY <1>0, <1>2, <1>3, <2>6, StartsAtCursor DEF LiveSet, n, p
        <3>3. Turned(firsts, turn, s, n)
            <4>1. CASE firsts = <<>>
                BY <1>3, <4>1 DEF Turned
            <4>2. CASE firsts # <<>>
                <5>1. PICK s2 \in ranked : Turned(firsts, turn, s2, n)
                    BY <1>0, <2>6, <4>2 DEF Turns, n
                <5>2. s2 = s
                    BY <1>0, <1>4, RankedUnique
                <5> QED
                    BY <5>1, <5>2
            <4> QED
                BY <4>1, <4>2
        <3>4. Turned(LastOf(all, n), turn + 1, s, n)
            BY <1>3, <1>4, <1>6, <2>2, <2>6, <3>2, <3>3, OneMoreTurn DEF all
        <3> QED
            BY <1>5, <1>8, <3>1, <3>2, <3>4
    <2> QED
        BY <1>1, <2>5, <2>6 DEF Turns, n
<1> QED
    BY <1>7, <1>8

LEMMA StepIInv == IInv /\ [Next]_vars => IInv'
<1> SUFFICES ASSUME IInv, [Next]_vars PROVE IInv'
    OBVIOUS
<1>1. CASE UNCHANGED vars
    <2>1. UNCHANGED <<route, view, turn, planned, plan, firsts>>
        BY <1>1 DEF vars
    <2>2. LiveSet' = LiveSet
        BY <2>1 DEF LiveSet
    <2>3. TypeOK' /\ IsView(view)' /\ Turns'
        BY <2>1, <2>2 DEF IInv, TypeOK, Turns
    <2>4. PlanIsFull' /\ BetterTierFirst' /\ ReserveAfterAllOthers'
        BY <2>1, <2>2 DEF IInv, PlanIsFull, BetterTierFirst, ReserveAfterAllOthers,
            InPlan, SameGroup, ReserveOf, Preferred
    <2> QED
        BY <2>3, <2>4 DEF IInv
<1>2. CASE Request
    <2>1. UNCHANGED <<route, view>> /\ planned' = TRUE
        BY <1>2 DEF Request
    <2>2. turn' \in 0..MaxTurn
        BY <1>2, SelectionAssumption DEF Request, NextTurn, IInv, TypeOK
    <2>3. plan' \in Seq(Proxy)
        <3>1. plan' \in Seq(LiveSet) /\ LiveSet \in SUBSET Proxy
            BY <1>2, RequestPlan, LiveFinite
        <3> QED
            BY <3>1
    <2>4. TypeOK'
        BY <1>2, <2>1, <2>2, <2>3, RequestTurns DEF IInv, TypeOK
    <2>5. IsView(view)'
        BY <2>1 DEF IInv
    <2> QED
        BY <1>2, <2>4, <2>5, RequestPlan, RequestTurns DEF IInv
<1>3. ASSUME NEW p \in Proxy, Observe(p) \/ SetTags(p) PROVE IInv'
    BY <1>3, StepForget
<1> QED
    BY <1>1, <1>2, <1>3 DEF Next

-----------------------------------------------------------------------------
\* The invariant that the others follow from holds of every reachable state.
THEOREM Inductive == Spec => []IInv
BY InitIInv, StepIInv, PTL DEF Spec

\* Plans and views have the types of state.rs.
THEOREM TypeCorrect == Spec => []TypeOK
<1>1. IInv => TypeOK
    BY DEF IInv
<1> QED
    BY <1>1, Inductive, PTL

\* build_plan (route/state.rs) neither loses nor doubles a live proxy, whatever the
\* selector, the sorts behind it and the cursor do: the plan is as long as the live
\* pool and max_attempts allow.
THEOREM PlansAreFull == Spec => []PlanIsFull
<1>1. IInv => PlanIsFull
    BY DEF IInv
<1> QED
    BY <1>1, Inductive, PTL

\* The selectors that rank keep the better tier in front of the worse within a group
\* of the same claim, behind both later sorts and the cut of build_plan.
THEOREM BetterTiersFirst == Spec => []BetterTierFirst
<1>1. IInv => BetterTierFirst
    BY DEF IInv
<1> QED
    BY <1>1, Inductive, PTL

\* prefer_non_reserve: no selector gets a reserve proxy in front of one that is none.
THEOREM ReserveBehind == Spec => []ReserveAfterAllOthers
<1>1. IInv => ReserveAfterAllOthers
    BY DEF IInv
<1> QED
    BY <1>1, Inductive, PTL

\* Round robin (RouteDef.cursor) goes round: while nothing changes, as many plans in
\* a row as there are live proxies start on different ones, wherever the cursor
\* stands when the pool changes.
THEOREM RoundRobinGoesRound == Spec => []RoundRobinIsFair
<1>1. IInv => RoundRobinIsFair
    <2> SUFFICES ASSUME IInv, route.selector = "round_robin", Unsorted(route, view, LiveSet)
                 PROVE  Cardinality(Range(firsts)) = Len(firsts)
        BY DEF RoundRobinIsFair, Unsorted, ReserveOf, Preferred
    <2> DEFINE n == Cardinality(LiveSet)
    <2>1. /\ LiveSet \in SUBSET Proxy /\ n \in Nat /\ firsts \in Seq(Proxy)
          /\ Len(firsts) <= n /\ turn \in Nat
        BY LiveFinite, RouteIs DEF IInv, TypeOK, Turns
    <2>2. \A i, j \in 1..Len(firsts) : firsts[i] = firsts[j] => i = j
        <3>1. CASE n > 1 /\ firsts # <<>>
            <4>1. PICK s : Lists(s, LiveSet) /\ Turned(firsts, turn, s, n)
                BY <3>1 DEF IInv, Turns
            <4>2. Len(s) = n
                BY <4>1 DEF Lists
            <4> HIDE DEF n
            <4>3. Len(firsts) <= Len(s) /\ Turned(firsts, turn, s, Len(s))
                BY <2>1, <4>1, <4>2
            <4>4. firsts \in Seq(LiveSet)
                <5>1. n \in Nat /\ Len(firsts) \in Nat /\ s \in Seq(LiveSet)
                    BY <2>1, <4>1 DEF Lists
                <5>2. \A i \in 1..Len(firsts) : firsts[i] \in LiveSet
                    BY <2>1, <4>1, <4>2, <5>1 DEF Turned
                <5> QED
                    BY <2>1, <5>2
            <4> QED
                BY <2>1, <4>1, <4>3, <4>4, TurnsDiffer
        <3>2. CASE ~(n > 1 /\ firsts # <<>>)
            <4>1. Len(firsts) <= 1
                BY <2>1, <3>2
            <4> QED
                BY <2>1, <4>1
        <3> QED
            BY <3>1, <3>2
    <2> QED
        BY <2>1, <2>2, DistinctRange
<1> QED
    BY <1>1, Inductive, PTL

\* The last resort of a route (fallback_pool) is what the plan cannot cover, and
\* nothing else; a proxy that was never measured comes behind all that were.
THEOREM FallbackIsRest == Spec => []FallbackIsTheRest
<1> DEFINE rest == LastResort(route, route.poolAll, route.poolAny, view, {})
           key == [p \in Proxy |-> IF view.latency[p] = 0 THEN Forever ELSE view.latency[p]]
<1>1. IInv => FallbackIsTheRest
    <2> SUFFICES ASSUME IInv,
                        NEW fallback \in SortEach(Filter(Snapshot, rest), key)
                 PROVE  /\ Range(fallback) =
                              {p \in Proxy : Eligible(route, route.poolAll, route.poolAny,
                                                      view.tags[p])} \ LiveSet
                        /\ \A i, j \in DOMAIN fallback :
                              (i < j /\ view.latency[fallback[i]] = 0) =>
                                  view.latency[fallback[j]] = 0
        BY DEF FallbackIsTheRest, FallbackPool
    <2>1. rest = {p \in Proxy : Eligible(route, route.poolAll, route.poolAny,
                                         view.tags[p])} \ LiveSet
        BY DEF LastResort, LiveSet, Live
    <2>2. rest \in SUBSET Proxy
        BY <2>1
    <2>3. \A p \in Proxy : /\ view.latency[p] \in Nat /\ view.latency[p] < Forever
                           /\ key[p] = IF view.latency[p] = 0 THEN Forever
                                       ELSE view.latency[p]
        BY DEF IInv, IsView
    <2>4. Forever \in Nat
        BY HealthAssumption
    <2> HIDE DEF rest, key
    <2>5. PICK s \in Filter(Snapshot, rest) : fallback \in StableSort(s, key)
        BY DEF SortEach
    <2>6. Lists(fallback, rest)
        BY <2>2, FilterLists, SortLists DEF AllList
    <2>7. Range(fallback) = rest /\ \A i \in DOMAIN fallback : fallback[i] \in Proxy
        BY <2>2, <2>6, ListsRange DEF Range
    <2>8. ASSUME NEW i \in DOMAIN fallback, NEW j \in DOMAIN fallback, i < j,
                 view.latency[fallback[i]] = 0
          PROVE  view.latency[fallback[j]] = 0
        <3>1. key[fallback[i]] <= key[fallback[j]]
            <4>1. \/ key[fallback[i]] < key[fallback[j]]
                  \/ key[fallback[i]] = key[fallback[j]]
                BY <2>5, <2>8 DEF StableSort
            <4> QED
                BY <2>3, <2>4, <2>7, <4>1
        <3>2. key[fallback[i]] = Forever
            BY <2>3, <2>7, <2>8
        <3> QED
            BY <2>3, <2>4, <2>7, <3>1, <3>2
    <2> QED
        BY <2>1, <2>7, <2>8
<1> QED
    BY <1>1, Inductive, PTL

-----------------------------------------------------------------------------
(* Every request finds a plan: the descriptions of the sorts by their      *)
(* results always have a result.                                           *)

\* R puts the elements of S in a row.
InARow(R, S) ==
    /\ \A p \in S : <<p, p>> \notin R
    /\ \A p, q \in S : p # q => <<p, q>> \in R \/ <<q, p>> \in R
    /\ \A p, q, r \in S : <<p, q>> \in R /\ <<q, r>> \in R => <<p, r>> \in R

\* Then there is a list in that order: the place of an element is one more than the
\* number of those before it.
LEMMA OrderedList ==
    ASSUME NEW S \in SUBSET Proxy, NEW R, InARow(R, S)
    PROVE  \E t : /\ Lists(t, S)
                  /\ \A i, j \in 1..Len(t) : i < j => <<t[i], t[j]>> \in R
<1> DEFINE n == Cardinality(S)
           Before(p) == {q \in S : <<q, p>> \in R}
           place == [p \in S |-> Cardinality(Before(p)) + 1]
<1>1. n \in Nat /\ IsFiniteSet(S)
    BY PoolFinite
<1>2. \A p \in S : Cardinality(Before(p)) \in Nat /\ IsFiniteSet(Before(p))
    <2> SUFFICES ASSUME NEW p \in S
                 PROVE  Cardinality(Before(p)) \in Nat /\ IsFiniteSet(Before(p))
        OBVIOUS
    <2>1. Before(p) \in SUBSET Proxy
        OBVIOUS
    <2> QED
        BY <2>1, PoolFinite
<1>3. ASSUME NEW p \in S, NEW q \in S, <<p, q>> \in R
      PROVE  Cardinality(Before(p)) < Cardinality(Before(q))
    <2>1. p \in Before(q) /\ p \notin Before(p) /\ Before(p) \subseteq Before(q)
        BY <1>3 DEF InARow
    <2>2. Before(p) \in SUBSET (Before(q) \ {p})
        BY <2>1
    <2> HIDE DEF Before
    <2>3. /\ IsFiniteSet(Before(q) \ {p})
          /\ Cardinality(Before(q) \ {p}) = Cardinality(Before(q)) - 1
        BY <1>2, <2>1, FS_RemoveElement
    <2>4. Cardinality(Before(p)) <= Cardinality(Before(q) \ {p})
        BY <2>2, <2>3, FS_Subset
    <2> QED
        BY <1>2, <2>3, <2>4
<1>4. ASSUME NEW p \in S PROVE Cardinality(Before(p)) + 1 \in 1..n
    <2>1. Before(p) \in SUBSET (S \ {p})
        BY DEF InARow
    <2> HIDE DEF Before
    <2>2. IsFiniteSet(S \ {p}) /\ Cardinality(S \ {p}) = n - 1
        BY <1>1, FS_RemoveElement
    <2>3. Cardinality(Before(p)) <= n - 1
        BY <2>1, <2>2, FS_Subset
    <2> QED
        BY <1>1, <1>2, <2>3
<1> HIDE DEF Before, n
<1>5. place \in [S -> 1..n] /\ \A p \in S : place[p] = Cardinality(Before(p)) + 1
    BY <1>4
<1>6. \A p, q \in S : <<p, q>> \in R => place[p] < place[q]
    BY <1>2, <1>3, <1>5
<1> HIDE DEF place
<1>7. \A p, q \in S : place[p] = place[q] => p = q
    <2> SUFFICES ASSUME NEW p \in S, NEW q \in S, p # q PROVE place[p] # place[q]
        OBVIOUS
    <2>1. place[p] < place[q] \/ place[q] < place[p]
        BY <1>6 DEF InARow
    <2> QED
        BY <1>1, <1>5, <2>1
<1>8. place \in Injection(S, 1..n)
    BY <1>5, <1>7, Fun_IsInj
<1>9. IsFiniteSet(1..n) /\ Cardinality(1..n) = n
    BY <1>1, FS_Interval
<1>10. \A i \in 1..n : \E p \in S : place[p] = i
    <2> SUFFICES ASSUME NEW i \in 1..n, \A p \in S : place[p] # i PROVE FALSE
        OBVIOUS
    <2>1. place \in Injection(S, (1..n) \ {i})
        BY <1>5, <1>7, Fun_IsInj
    <2>2. IsFiniteSet((1..n) \ {i}) /\ Cardinality((1..n) \ {i}) = n - 1
        BY <1>9, FS_RemoveElement
    <2>3. n <= n - 1
        BY <2>1, <2>2, FS_Injection DEF n
    <2> QED
        BY <1>1, <2>3
<1> DEFINE t == [i \in 1..n |-> CHOOSE p \in S : place[p] = i]
<1>11. t \in [1..n -> S] /\ \A i \in 1..n : place[t[i]] = i
    BY <1>10
<1> HIDE DEF t
<1>12. t \in Seq(S) /\ Len(t) = n
    BY <1>1, <1>11
<1>13. \A p \in S : \E i \in 1..Len(t) : t[i] = p
    BY <1>5, <1>7, <1>11, <1>12
<1>14. \A i, j \in 1..Len(t) : t[i] = t[j] => i = j
    BY <1>11, <1>12
<1>15. Lists(t, S)
    BY <1>12, <1>13, <1>14 DEF Lists, n
<1>16. ASSUME NEW i \in 1..Len(t), NEW j \in 1..Len(t), i < j
       PROVE  <<t[i], t[j]>> \in R
    <2>1. t[i] \in S /\ t[j] \in S /\ place[t[i]] = i /\ place[t[j]] = j
        BY <1>11, <1>12
    <2>2. t[i] # t[j] /\ ~(place[t[j]] < place[t[i]])
        BY <1>1, <1>12, <1>16, <2>1
    <2> QED
        BY <1>6, <2>1, <2>2 DEF InARow
<1> QED
    BY <1>15, <1>16

\* The proxy list can be filtered.
LEMMA FilterExists ==
    ASSUME NEW S \in SUBSET Proxy
    PROVE  Filter(Snapshot, S) # {}
<1> DEFINE R == {e \in S \X S : Precedes(Snapshot, e[1], e[2])}
<1>1. \A p, q \in S : <<p, q>> \in R <=> Precedes(Snapshot, p, q)
    OBVIOUS
<1> HIDE DEF R
<1>2. InARow(R, S)
    <2>1. \A p \in S : <<p, p>> \notin R
        BY <1>1, SnapshotLists, PrecedesAsymmetric
    <2>2. \A p, q \in S : p # q => <<p, q>> \in R \/ <<q, p>> \in R
        BY <1>1, SnapshotLists, PrecedesTotal
    <2>3. \A p, q, r \in S : <<p, q>> \in R /\ <<q, r>> \in R => <<p, r>> \in R
        BY <1>1, SnapshotLists, PrecedesTransitive
    <2> QED
        BY <2>1, <2>2, <2>3 DEF InARow
<1>3. PICK t : Lists(t, S) /\ \A i, j \in 1..Len(t) : i < j => <<t[i], t[j]>> \in R
    BY <1>2, OrderedList
<1>4. Range(Snapshot) \cap S = S /\ t \in SetToSeqs(S) /\ DOMAIN t = 1..Len(t)
    BY <1>3, ListsInSetToSeqs, ListsRange DEF Proxy
<1>5. \A m, k \in DOMAIN t : m < k => Precedes(Snapshot, t[m], t[k])
    <2> SUFFICES ASSUME NEW m \in 1..Len(t), NEW k \in 1..Len(t), m < k
                 PROVE  Precedes(Snapshot, t[m], t[k])
        BY <1>4
    <2>1. t[m] \in S /\ t[k] \in S
        BY <1>3 DEF Lists
    <2> QED
        BY <1>1, <1>3, <2>1
<1> QED
    BY <1>4, <1>5 DEF Filter

\* A list can be sorted.
LEMMA SortExists ==
    ASSUME NEW S \in SUBSET Proxy, NEW s, Lists(s, S),
           NEW key, \A p \in S : key[p] \in Int
    PROVE  StableSort(s, key) # {}
<1> DEFINE Smaller(p, q) == key[p] < key[q] \/ (key[p] = key[q] /\ Precedes(s, p, q))
           R == {e \in S \X S : Smaller(e[1], e[2])}
<1>1. \A p, q \in S : <<p, q>> \in R <=> Smaller(p, q)
    OBVIOUS
<1> HIDE DEF R
<1>2. InARow(R, S)
    <2>1. \A p \in S : <<p, p>> \notin R
        BY <1>1, PrecedesAsymmetric
    <2>2. \A p, q \in S : p # q => <<p, q>> \in R \/ <<q, p>> \in R
        BY <1>1, PrecedesTotal
    <2>3. ASSUME NEW p \in S, NEW q \in S, NEW r \in S, Smaller(p, q), Smaller(q, r)
          PROVE  Smaller(p, r)
        BY <2>3, PrecedesTransitive
    <2> HIDE DEF Smaller
    <2>4. \A p, q, r \in S : <<p, q>> \in R /\ <<q, r>> \in R => <<p, r>> \in R
        BY <1>1, <2>3
    <2> QED
        BY <2>1, <2>2, <2>4 DEF InARow
<1>3. PICK t : Lists(t, S) /\ \A i, j \in 1..Len(t) : i < j => <<t[i], t[j]>> \in R
    BY <1>2, OrderedList
<1>4. Range(s) = S /\ t \in SetToSeqs(S) /\ DOMAIN t = 1..Len(t)
    BY <1>3, ListsInSetToSeqs, ListsRange
<1>5. \A m, k \in DOMAIN t : m < k => Smaller(t[m], t[k])
    <2> SUFFICES ASSUME NEW m \in 1..Len(t), NEW k \in 1..Len(t), m < k
                 PROVE  Smaller(t[m], t[k])
        BY <1>4
    <2>1. t[m] \in S /\ t[k] \in S
        BY <1>3 DEF Lists
    <2> QED
        BY <1>1, <1>3, <2>1
<1> QED
    BY <1>4, <1>5 DEF StableSort

\* There is exactly one.
One(lists) == \E s : lists = {s}

\* So exactly one list is sorted to exactly one.
LEMMA SortOne ==
    ASSUME NEW S \in SUBSET Proxy, NEW lists, AllList(lists, S),
           NEW key, \A p \in S : key[p] \in Int
    PROVE  /\ lists # {} => SortEach(lists, key) # {}
           /\ One(lists) => One(SortEach(lists, key))
<1>1. ASSUME NEW s \in lists PROVE \E t : StableSort(s, key) = {t}
    <2>1. Lists(s, S)
        BY DEF AllList
    <2>2. PICK t : t \in StableSort(s, key)
        BY <2>1, SortExists
    <2>3. \A u \in StableSort(s, key) : u = t
        BY <2>1, <2>2, SortUnique
    <2> QED
        BY <2>2, <2>3
<1>2. \A s \in lists : StableSort(s, key) \subseteq SortEach(lists, key)
    BY DEF SortEach
<1>3. lists # {} => SortEach(lists, key) # {}
    BY <1>1, <1>2
<1>4. ASSUME NEW s, lists = {s} PROVE One(SortEach(lists, key))
    <2>1. SortEach(lists, key) = StableSort(s, key)
        BY <1>4 DEF SortEach
    <2> QED
        BY <1>1, <1>4, <2>1 DEF One
<1> QED
    BY <1>3, <1>4 DEF One

\* The live pool is ranked in one way.
LEMMA RankedOne ==
    ASSUME NEW v, IsView(v), NEW S \in SUBSET Proxy
    PROVE  One(Filter(Snapshot, S)) /\ One(ByTierAndLatency(v, Filter(Snapshot, S)))
<1>1. One(Filter(Snapshot, S))
    <2>1. PICK t : t \in Filter(Snapshot, S)
        BY FilterExists
    <2>2. \A u \in Filter(Snapshot, S) : u = t
        BY <2>1, FilterUnique
    <2>3. Filter(Snapshot, S) = {t}
        BY <2>1, <2>2
    <2> QED
        BY <2>3 DEF One
<1>2. AllList(Filter(Snapshot, S), S)
    BY FilterLists DEF AllList
<1> DEFINE byLatency == SortEach(Filter(Snapshot, S), LatencyKeys(v))
<1>3. AllList(byLatency, S) /\ One(byLatency)
    BY <1>1, <1>2, ViewKeys, SortLists, SortOne
<1>4. ByTierAndLatency(v, Filter(Snapshot, S)) = SortEach(byLatency, v.tier)
    BY DEF ByTierAndLatency
<1> HIDE DEF byLatency
<1> QED
    BY <1>1, <1>3, <1>4, ViewKeys, SortOne

\* Every selector gives an order, and all but random one only.
LEMMA OrdersOne ==
    ASSUME NEW v, IsView(v), NEW S \in SUBSET Proxy, NEW r, NEW t, NEW hash
    PROVE  /\ Orders(r, v, S, t, hash) # {}
           /\ r.selector # "random" => One(Orders(r, v, S, t, hash))
<1> DEFINE ranked == ByTierAndLatency(v, Filter(Snapshot, S))
           orders == Orders(r, v, S, t, hash)
           n == Cardinality(S)
<1>1. PICK s : ranked = {s}
    BY RankedOne DEF One
<1>2. orders = CASE r.selector = "random" -> SortEach(SetToSeqs(S), v.tier)
                 [] r.selector = "round_robin" /\ n > 1 ->
                      {RotateLeft(u, t % n) : u \in ranked}
                 [] r.selector = "sticky_by_header" /\ n > 1 ->
                      {RotateLeft(u, hash % n) : u \in ranked}
                 [] OTHER -> ranked
    BY DEF Orders
<1> HIDE DEF ranked, n, orders
<1>3. CASE r.selector = "random"
    <2>1. orders = SortEach(SetToSeqs(S), v.tier)
        BY <1>2, <1>3
    <2>2. AllList(SetToSeqs(S), S) /\ SetToSeqs(S) # {}
        BY SetToSeqsLists, FilterExists, FilterLists, ListsInSetToSeqs DEF AllList
    <2>3. orders # {}
        BY <2>1, <2>2, ViewKeys, SortOne
    <2> QED
        BY <1>3, <2>3 DEF orders
<1>4. CASE r.selector = "round_robin" /\ n > 1
    <2>1. orders = {RotateLeft(s, t % n)}
        BY <1>1, <1>2, <1>4
    <2> QED
        BY <2>1 DEF One, orders
<1>5. CASE r.selector = "sticky_by_header" /\ n > 1
    <2>1. orders = {RotateLeft(s, hash % n)}
        BY <1>1, <1>2, <1>5
    <2> QED
        BY <2>1 DEF One, orders
<1>6. CASE /\ r.selector # "random"
           /\ ~(r.selector = "round_robin" /\ n > 1)
           /\ ~(r.selector = "sticky_by_header" /\ n > 1)
    <2>1. orders = {s}
        BY <1>1, <1>2, <1>6
    <2> QED
        BY <2>1 DEF One, orders
<1> QED
    BY <1>3, <1>4, <1>5, <1>6

\* The plans of a request: there is one, and exactly one unless they are shuffled.
PlanExists ==
    \A hash \in Hash :
        LET plans == BuildPlans(route, route.poolAll, route.poolAny, view, turn, hash) IN
        plans # {} /\ (route.selector # "random" => One(plans))

\* The last-resort list is one.
FallbackExists ==
    One(FallbackPool(route, route.poolAll, route.poolAny, view, {}))

\* build_plan and fallback_pool are functions of what they read, and are defined
\* whatever the health, the tags and the cursor: the descriptions of their sorts by
\* the results leave one, or one for every shuffle.
THEOREM SelectionIsDetermined == Spec => [](PlanExists /\ FallbackExists)
<1>1. IInv => PlanExists
    <2> SUFFICES ASSUME IInv, NEW hash \in Hash
                 PROVE  LET plans == BuildPlans(route, route.poolAll, route.poolAny,
                                                view, turn, hash)
                        IN  plans # {} /\ (route.selector # "random" => One(plans))
        BY DEF PlanExists
    <2> DEFINE orders == Orders(route, view, LiveSet, turn, hash)
               behind == ReserveLast(route, view, orders)
               arranged == PreferredFirst(route, view, behind)
               plans == {Cut(s, route.maxAttempts) : s \in arranged}
    <2>1. LiveSet \in SUBSET Proxy /\ IsView(view) /\ turn \in Nat /\ hash \in Nat
        BY LiveFinite, RouteIs, SelectionAssumption DEF IInv
    <2>2. BuildPlans(route, route.poolAll, route.poolAny, view, turn, hash) = plans
        BY DEF BuildPlans, Arrange, Truncate, Cut, LiveSet
    <2>3. /\ AllList(orders, LiveSet) /\ orders # {}
          /\ route.selector # "random" => One(orders)
        BY <2>1, OrdersRank, OrdersOne
    <2>4. \A p \in LiveSet : ReserveKeys(view)[p] \in Int /\ PreferKeys(route, view)[p] \in Int
        <3>1. \A p \in Proxy : /\ ReserveKeys(view)[p] \in Int
                               /\ PreferKeys(route, view)[p] \in Int
            BY RankKeys
        <3> QED
            BY <2>1, <3>1
    <2> HIDE DEF orders
    <2>5. /\ AllList(behind, LiveSet) /\ behind # {}
          /\ route.selector # "random" => One(behind)
        BY <2>1, <2>3, <2>4, SortLists, SortOne DEF ReserveLast
    <2> HIDE DEF behind
    <2>6. arranged # {} /\ (route.selector # "random" => One(arranged))
        BY <2>1, <2>4, <2>5, SortLists, SortOne DEF PreferredFirst
    <2> HIDE DEF arranged
    <2>7. plans # {} /\ (route.selector # "random" => One(plans))
        <3>1. plans # {}
            BY <2>6
        <3>2. ASSUME NEW s, arranged = {s} PROVE One(plans)
            <4>1. plans = {Cut(s, route.maxAttempts)}
                BY <3>2
            <4> QED
                BY <4>1 DEF One
        <3> QED
            BY <2>6, <3>1, <3>2 DEF One
    <2> QED
        BY <2>2, <2>7
<1>2. IInv => FallbackExists
    <2> SUFFICES ASSUME IInv PROVE FallbackExists
        OBVIOUS
    <2> DEFINE rest == LastResort(route, route.poolAll, route.poolAny, view, {})
               key == [p \in Proxy |-> IF view.latency[p] = 0 THEN Forever ELSE view.latency[p]]
    <2>1. rest \in SUBSET Proxy
        BY DEF LastResort
    <2>2. \A p \in rest : key[p] \in Int
        BY <2>1, HealthAssumption DEF IInv, IsView
    <2>3. FallbackPool(route, route.poolAll, route.poolAny, view, {})
              = SortEach(Filter(Snapshot, rest), key)
        BY DEF FallbackPool
    <2> HIDE DEF rest, key
    <2>4. One(Filter(Snapshot, rest)) /\ AllList(Filter(Snapshot, rest), rest)
        BY <2>1, RankedOne, FilterLists DEF AllList, IInv
    <2> QED
        BY <2>1, <2>2, <2>3, <2>4, SortOne DEF FallbackExists
<1>3. IInv => PlanExists /\ FallbackExists
    BY <1>1, <1>2
<1> QED
    BY <1>3, Inductive, PTL
=============================================================================
