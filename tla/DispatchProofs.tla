--------------------------- MODULE DispatchProofs ----------------------------
(***************************************************************************)
(* Proofs about Dispatch, for any proxies, routes, statuses and bounds:    *)
(* types, the limit on attempts in parallel, the budget of attempts, what  *)
(* is tried before a request is called exhausted, and which attempts may   *)
(* change the health of a proxy.                                           *)
(***************************************************************************)
EXTENDS Dispatch, SequenceTheorems, FunctionTheorems, FiniteSetTheorems,
        WellFoundedInduction, TLAPS

-----------------------------------------------------------------------------
(* What a plan and a last-resort list are.                                 *)

\* The proxy list is finite.
LEMMA ProxyFinite == IsFiniteSet(Proxy)
<1>1. Snapshot \in [1..Len(Snapshot) -> Proxy] /\ Len(Snapshot) \in Nat
    BY PlanAssumption DEF Proxy
<1>2. \A p \in Proxy : \E i \in 1..Len(Snapshot) : Snapshot[i] = p
    BY <1>1 DEF Proxy, Range
<1>3. Snapshot \in Surjection(1..Len(Snapshot), Proxy)
    BY <1>1, <1>2 DEF Surjection
<1> QED
    BY <1>1, <1>3, FS_Interval, FS_Surjection

\* A member of SetToSeqs of some proxies is a list of them.
LEMMA Listed ==
    ASSUME NEW S \in SUBSET Proxy, NEW s \in SetToSeqs(S)
    PROVE  s \in Seq(S)
<1>1. Cardinality(S) \in Nat
    BY ProxyFinite, FS_Subset, FS_CardinalityType
<1>2. s \in [1..Cardinality(S) -> S]
    BY DEF SetToSeqs
<1> QED
    BY <1>1, <1>2

\* Sorting lists of proxies gives lists of proxies.
LEMMA Sorted ==
    ASSUME NEW lists \in SUBSET Seq(Proxy), NEW key
    PROVE  SortEach(lists, key) \in SUBSET Seq(Proxy)
<1> SUFFICES ASSUME NEW t \in SortEach(lists, key) PROVE t \in Seq(Proxy)
    OBVIOUS
<1>1. PICK s \in lists : t \in StableSort(s, key)
    BY DEF SortEach
<1>2. Range(s) \in SUBSET Proxy
    BY DEF Range
<1>3. t \in SetToSeqs(Range(s))
    BY <1>1 DEF StableSort
<1>4. t \in Seq(Range(s))
    BY <1>2, <1>3, Listed
<1> QED
    BY <1>2, <1>4

\* So are the lists a plan is sorted from.
LEMMA OrdersAreLists ==
    ASSUME NEW r, NEW view, NEW live \in SUBSET Proxy, NEW turn \in Nat, NEW hash \in Nat
    PROVE  Orders(r, view, live, turn, hash) \in SUBSET Seq(Proxy)
<1>1. Filter(Snapshot, live) \in SUBSET Seq(Proxy)
    <2> SUFFICES ASSUME NEW t \in Filter(Snapshot, live) PROVE t \in Seq(Proxy)
        OBVIOUS
    <2>1. t \in SetToSeqs(Proxy \cap live)
        BY DEF Filter, Proxy
    <2>2. t \in Seq(Proxy \cap live)
        BY <2>1, Listed
    <2> QED
        BY <2>2
<1>2. SetToSeqs(live) \in SUBSET Seq(Proxy)
    <2> SUFFICES ASSUME NEW t \in SetToSeqs(live) PROVE t \in Seq(Proxy)
        OBVIOUS
    <2>1. t \in Seq(live)
        BY Listed
    <2> QED
        BY <2>1
<1> DEFINE ranked == ByTierAndLatency(view, Filter(Snapshot, live))
<1>3. ranked \in SUBSET Seq(Proxy)
    BY <1>1, Sorted DEF ByTierAndLatency
<1>4. SortEach(SetToSeqs(live), view.tier) \in SUBSET Seq(Proxy)
    BY <1>2, Sorted
<1>5. \A s \in Seq(Proxy), k \in Nat : RotateLeft(s, k) \in Seq(Proxy)
    <2> SUFFICES ASSUME NEW s \in Seq(Proxy), NEW k \in Nat
                 PROVE  RotateLeft(s, k) \in Seq(Proxy)
        OBVIOUS
    <2>1. \A i \in 1..Len(s) : ((i - 1 + k) % Len(s)) + 1 \in 1..Len(s)
        OBVIOUS
    <2>2. RotateLeft(s, k) \in [1..Len(s) -> Proxy]
        BY <2>1 DEF RotateLeft
    <2> QED
        BY <2>2
<1>6. ASSUME NEW k \in Nat, Cardinality(live) > 1
      PROVE  {RotateLeft(s, k % Cardinality(live)) : s \in ranked} \in SUBSET Seq(Proxy)
    <2>1. Cardinality(live) \in Nat
        BY ProxyFinite, FS_Subset, FS_CardinalityType
    <2>2. k % Cardinality(live) \in Nat
        BY <1>6, <2>1
    <2> HIDE DEF ranked
    <2> QED
        BY <1>3, <1>5, <2>2
<1> HIDE DEF ranked
<1> DEFINE orders == Orders(r, view, live, turn, hash)
<1>7. CASE r.selector = "random"
    <2>1. orders = SortEach(SetToSeqs(live), view.tier)
        BY <1>7 DEF Orders
    <2> QED
        BY <1>4, <2>1
<1>8. CASE r.selector = "round_robin" /\ Cardinality(live) > 1
    <2>1. orders = {RotateLeft(s, turn % Cardinality(live)) : s \in ranked}
        BY <1>8 DEF Orders, ranked
    <2> QED
        BY <1>6, <1>8, <2>1
<1>9. CASE r.selector = "sticky_by_header" /\ Cardinality(live) > 1
    <2>1. orders = {RotateLeft(s, hash % Cardinality(live)) : s \in ranked}
        BY <1>9 DEF Orders, ranked
    <2> QED
        BY <1>6, <1>9, <2>1
<1>10. CASE /\ r.selector # "random"
            /\ ~(r.selector = "round_robin" /\ Cardinality(live) > 1)
            /\ ~(r.selector = "sticky_by_header" /\ Cardinality(live) > 1)
    <2>1. orders = ranked
        BY <1>10 DEF Orders, ranked
    <2> QED
        BY <1>3, <2>1
<1> QED
    BY <1>7, <1>8, <1>9, <1>10

\* A plan is a list of at most max_attempts proxies.
LEMMA PlanIsList ==
    ASSUME NEW r, r.maxAttempts \in Nat, NEW all, NEW any, NEW view,
           NEW turn \in Nat, NEW hash \in Nat,
           NEW built \in BuildPlans(r, all, any, view, turn, hash)
    PROVE  built \in Seq(Proxy) /\ Len(built) <= r.maxAttempts
<1> DEFINE ordered == Orders(r, view, Live(r, all, any, view), turn, hash)
           kept == ReserveLast(r, view, ordered)
           sorted == PreferredFirst(r, view, kept)
<1>1. ordered \in SUBSET Seq(Proxy)
    BY OrdersAreLists DEF Live
<1> HIDE DEF ordered
<1>2. kept \in SUBSET Seq(Proxy)
    BY <1>1, Sorted DEF ReserveLast
<1> HIDE DEF kept
<1>3. sorted \in SUBSET Seq(Proxy)
    BY <1>2, Sorted DEF PreferredFirst
<1> HIDE DEF sorted
<1>4. built \in Truncate(r, sorted)
    BY DEF BuildPlans, Arrange, ordered, kept, sorted
<1> DEFINE n(s) == IF Len(s) < r.maxAttempts THEN Len(s) ELSE r.maxAttempts
<1>5. PICK s \in Seq(Proxy) : built = SubSeq(s, 1, n(s))
    BY <1>3, <1>4 DEF Truncate
<1>6. n(s) \in 0..Len(s) /\ n(s) <= r.maxAttempts
    BY <1>5
<1> HIDE DEF n
<1>7. built \in Seq(Proxy) /\ Len(built) = n(s)
    BY <1>5, <1>6, SubSeqProperties
<1> QED
    BY <1>6, <1>7

\* A last-resort list holds proxies that were not tried.
LEMMA FallbackIsList ==
    ASSUME NEW r, NEW all, NEW any, NEW view, NEW done,
           NEW list \in FallbackPool(r, all, any, view, done)
    PROVE  list \in Seq(Proxy) /\ Range(list) \cap done = {}
<1> DEFINE rest == LastResort(r, all, any, view, done)
<1>1. PICK s \in Filter(Snapshot, rest) : \E key : list \in StableSort(s, key)
    BY DEF FallbackPool, SortEach
<1>2. s \in SetToSeqs(Proxy \cap rest)
    BY <1>1 DEF Filter, Proxy
<1>3. s \in Seq(Proxy \cap rest)
    BY <1>2, Listed
<1>4. Range(s) \in SUBSET (Proxy \cap rest)
    BY <1>3 DEF Range
<1>5. list \in Seq(Range(s))
    BY <1>1, <1>4, Listed DEF StableSort
<1>6. list \in Seq(Proxy \cap rest)
    BY <1>4, <1>5
<1>7. rest \cap done = {}
    BY DEF LastResort
<1> HIDE DEF rest
<1>8. Range(list) \subseteq Proxy \cap rest
    BY <1>6 DEF Range
<1> QED
    BY <1>6, <1>7, <1>8

-----------------------------------------------------------------------------
(* The inductive invariant.  The budget has a hole in the middle of a      *)
(* round: what is left of the plan must count as if it were used.          *)

\* Attempts run only while a dispatcher works, in the last resort only a body
\* is waited for; which dispatcher works is the selector's choice; and the forced
\* proxy goes into the first plan.
Staged ==
    /\ pc = "sequential" => ~Hedged
    /\ pc \in {"start_hedge", "hedge"} => Hedged
    /\ pc \in {"plan", "start_hedge", "exhausted", "answered", "gone"} => InFlight = {}
    /\ pc = "fallback" => \A p \in Proxy : phase[p] \in {"idle", "buffering"}
    /\ pc # "plan" => forced = None
    /\ answer.kind \in {"exhausted", "failure"} => pc = "answered"

\* What the dispatcher has passed in its plan was tried.
PassedIsTried ==
    pc \in {"sequential", "start_hedge", "hedge"} =>
        \A i \in 1..Len(plan) : i < next => plan[i] \in tried

\* What the plans of so many rounds allow.
Allowance(rounds) == rounds * route.maxAttempts

\* The attempts of a round and what is left of its plan are within the allowance of
\* the rounds before it and its own, and one for the forced proxy.
Affordable(started, length, allowed, at) == started + length <= allowed + at

WithinBudget ==
    /\ pc = "plan" =>
           attempts <= Allowance(hardRounds) + (IF forced = None THEN 1 ELSE 0)
    /\ pc \in {"sequential", "start_hedge", "hedge"} =>
           Affordable(attempts, Len(plan), Allowance(hardRounds) + route.maxAttempts, next)
    /\ attempts <= Allowance(hardRounds) + route.maxAttempts + 1

IInv ==
    /\ TypeOK /\ Staged /\ PassedIsTried /\ WithinBudget
    /\ ParallelWithinLimit /\ ExhaustedMeansTried

\* The bounds of the route, and the allowance of one round more.
LEMMA Bounds ==
    ASSUME TypeOK
    PROVE  /\ route.maxAttempts \in Nat \ {0} /\ route.maxParallel \in Nat \ {0}
           /\ \A n \in Nat : /\ Allowance(n) \in Nat
                             /\ Allowance(n + 1) = Allowance(n) + route.maxAttempts
<1>1. route.maxAttempts \in Nat \ {0} /\ route.maxParallel \in Nat \ {0}
    BY DispatchAssumption DEF TypeOK
<1> DEFINE m == route.maxAttempts
<1>2. \A n \in Nat : n * m \in Nat /\ (n + 1) * m = n * m + m
    <2> m \in Nat
        BY <1>1
    <2> HIDE DEF m
    <2> QED
        OBVIOUS
<1> QED
    BY <1>1, <1>2 DEF Allowance

\* The attempts in flight are finitely many.
LEMMA FlightFinite ==
    /\ \A f : IsFiniteSet({p \in Proxy : f[p] # "idle"})
    /\ \A f : Cardinality({p \in Proxy : f[p] # "idle"}) \in Nat
BY ProxyFinite, FS_Subset, FS_CardinalityType

LEMMA Initially == Init => IInv
<1> SUFFICES ASSUME Init PROVE IInv
    OBVIOUS
<1>1. TypeOK
    BY DispatchAssumption, HealthAssumption DEF Init, TypeOK, Phases, NoAnswer
<1>2. InFlight = {}
    BY DEF Init, InFlight
<1>3. Cardinality(InFlight) = 0
    BY <1>2, FS_EmptySet
<1>4. Staged /\ PassedIsTried
    BY <1>2 DEF Init, Staged, PassedIsTried, NoAnswer
<1>5. Allowance(0) \in Nat
    BY <1>1, Bounds
<1>6. WithinBudget
    <2>1. hardRounds = 0 /\ attempts = 0 /\ plan = <<>> /\ next = 1 /\ pc = "plan"
        BY DEF Init
    <2>2. Allowance(hardRounds) \in Nat /\ route.maxAttempts \in Nat
        BY <1>1, <1>5, <2>1, Bounds
    <2> QED
        BY <2>1, <2>2 DEF WithinBudget
<1>7. ParallelWithinLimit
    BY <1>1, <1>3, Bounds DEF ParallelWithinLimit
<1>8. ExhaustedMeansTried
    BY DEF Init, ExhaustedMeansTried, NoAnswer
<1> QED
    BY <1>1, <1>4, <1>6, <1>7, <1>8 DEF IInv

-----------------------------------------------------------------------------
(* The launch of a hedged dispatch.                                        *)

\* A set of positions has a first one.
LEMMA FirstPosition ==
    ASSUME NEW S \in SUBSET Nat, S # {}
    PROVE  LET i == CHOOSE i \in S : \A j \in S : i <= j
           IN  i \in S /\ \A j \in S : i <= j
<1>1. PICK i \in S : \A j \in S : <<j, i>> \notin OpToRel(<, Nat)
    BY NatLessThanWellFounded, WFMin
<1>2. \A j \in S : ~(j < i)
    BY <1>1 DEF OpToRel
<1>3. \E k \in S : \A j \in S : k <= j
    BY <1>2
<1> QED
    BY <1>3

\* It passes over tried candidates only, tries the one it starts, and starts at
\* most one: no more than it moves on in the plan.
LEMMA Launched ==
    ASSUME TypeOK, NEW running \in [Proxy -> Phases], Launch(running)
    PROVE  /\ tried \subseteq tried' /\ tried' \subseteq Proxy
           /\ phase' \in [Proxy -> Phases]
           /\ \E passed \in Nat, started \in 0..1 :
                 /\ started <= passed
                 /\ next' = next + passed /\ next + passed <= Len(plan) + 1
                 /\ attempts' = attempts + started
           /\ \A i \in next..Len(plan) : i < next' => plan[i] \in tried'
           /\ \/ Untried(next) = {} /\ phase' = running
              \/ /\ Untried(next) # {}
                 /\ \E q \in Proxy : phase' = [running EXCEPT ![q] = "sending"]
<1>1. /\ next \in Nat /\ Len(plan) \in Nat /\ plan \in Seq(Proxy) /\ attempts \in Nat
      /\ next >= 1 /\ next <= Len(plan) + 1 /\ tried \subseteq Proxy
    BY DEF TypeOK
<1>2. CASE Untried(next) = {}
    <2>1. /\ next' = Len(plan) + 1 /\ phase' = running
          /\ tried' = tried /\ attempts' = attempts
        BY <1>2 DEF Launch
    <2>2. PICK passed \in Nat : next + passed = Len(plan) + 1
        <3>1. Len(plan) + 1 - next \in Nat /\ next + (Len(plan) + 1 - next) = Len(plan) + 1
            BY <1>1
        <3> QED
            BY <3>1
    <2>3. next' = next + passed /\ attempts' = attempts + 0
        BY <1>1, <2>1, <2>2
    <2>4. \E k \in Nat, started \in 0..1 :
             /\ started <= k
             /\ next' = next + k /\ next + k <= Len(plan) + 1
             /\ attempts' = attempts + started
        <3> WITNESS passed \in Nat
        <3>1. 0 \in 0..1 /\ 0 <= passed /\ next + passed <= Len(plan) + 1
            BY <1>1, <2>2
        <3> WITNESS 0 \in 0..1
        <3> QED
            BY <2>3, <3>1
    <2>5. \A i \in next..Len(plan) : plan[i] \in tried'
        BY <1>2, <2>1 DEF Untried
    <2> QED
        BY <1>1, <1>2, <2>1, <2>4, <2>5
<1>3. CASE Untried(next) # {}
    <2> DEFINE i == CHOOSE i \in Untried(next) : \A j \in Untried(next) : i <= j
    <2>1. Untried(next) \in SUBSET Nat
        BY <1>1 DEF Untried
    <2>2. i \in Untried(next) /\ \A j \in Untried(next) : i <= j
        BY <1>3, <2>1, FirstPosition
    <2>3. /\ next' = i + 1 /\ tried' = tried \cup {plan[i]}
          /\ phase' = [running EXCEPT ![plan[i]] = "sending"]
          /\ attempts' = attempts + 1
        BY <1>3 DEF Launch
    <2> HIDE DEF i
    <2>4. i \in next..Len(plan)
        BY <2>2 DEF Untried
    <2>5. plan[i] \in Proxy
        BY <1>1, <2>4
    <2>6. \A j \in next..Len(plan) : j < i + 1 => plan[j] \in tried'
        <3> SUFFICES ASSUME NEW j \in next..Len(plan), j < i + 1 PROVE plan[j] \in tried'
            OBVIOUS
        <3>1. CASE j = i
            BY <2>3, <3>1
        <3>2. CASE j # i
            <4>1. ~(i <= j)
                BY <1>1, <2>4, <3>2
            <4>2. j \notin Untried(next)
                BY <2>2, <4>1
            <4> QED
                BY <2>3, <4>2 DEF Untried
        <3> QED
            BY <3>1, <3>2
    <2>7. PICK passed \in Nat \ {0} : i + 1 = next + passed
        <3>1. i + 1 - next \in Nat \ {0} /\ i + 1 = next + (i + 1 - next)
            BY <1>1, <2>4
        <3> QED
            BY <3>1
    <2>8. \E k \in Nat, started \in 0..1 :
             /\ started <= k
             /\ next' = next + k /\ next + k <= Len(plan) + 1
             /\ attempts' = attempts + started
        <3>1. passed \in Nat /\ 1 \in 0..1 /\ 1 <= passed /\ next + passed <= Len(plan) + 1
            BY <1>1, <2>4, <2>7
        <3> WITNESS passed \in Nat
        <3> WITNESS 1 \in 0..1
        <3> QED
            BY <2>3, <2>7, <3>1
    <2>9. phase' \in [Proxy -> Phases]
        BY <2>3 DEF Phases
    <2>10. tried \subseteq tried' /\ tried' \subseteq Proxy
        BY <1>1, <2>3, <2>5
    <2>11. \E q \in Proxy : phase' = [running EXCEPT ![q] = "sending"]
        BY <2>3, <2>5
    <2> QED
        BY <1>3, <2>3, <2>6, <2>8, <2>9, <2>10, <2>11
<1> QED
    BY <1>2, <1>3

\* When nothing is left to launch, the whole plan was tried.
LEMMA NothingLeft ==
    ASSUME TypeOK, PassedIsTried, pc \in {"sequential", "start_hedge", "hedge"},
           Untried(next) = {}
    PROVE  Range(plan) \subseteq tried
<1>1. \A i \in 1..Len(plan) : i < next => plan[i] \in tried
    BY DEF PassedIsTried
<1>2. \A i \in next..Len(plan) : plan[i] \in tried
    BY DEF Untried
<1>3. next \in Nat /\ plan \in Seq(Proxy)
    BY DEF TypeOK
<1>4. \A i \in 1..Len(plan) : i < next \/ i \in next..Len(plan)
    BY <1>3
<1>5. \A i \in 1..Len(plan) : plan[i] \in tried
    BY <1>1, <1>2, <1>4
<1> QED
    BY <1>3, <1>5 DEF Range

\* A candidate it passes over or starts was tried, and the budget allows it.
LEMMA LaunchWithin ==
    ASSUME IInv, pc \in {"start_hedge", "hedge"}, NEW running \in [Proxy -> Phases],
           Launch(running)
    PROVE  /\ \A i \in 1..Len(plan) : i < next' => plan[i] \in tried'
           /\ Affordable(attempts', Len(plan), Allowance(hardRounds) + route.maxAttempts, next')
           /\ attempts' <= Allowance(hardRounds) + route.maxAttempts + 1
           /\ attempts' \in Nat /\ next' \in 1..(Len(plan) + 1)
<1>1. TypeOK
    BY DEF IInv
<1> DEFINE n == Len(plan)
           a == Allowance(hardRounds) + route.maxAttempts
<1>2. next \in Nat /\ next >= 1 /\ n \in Nat /\ attempts \in Nat /\ hardRounds \in Nat
    BY <1>1 DEF TypeOK
<1>3. PICK passed \in Nat, started \in 0..1 :
         /\ started <= passed
         /\ next' = next + passed /\ next + passed <= n + 1
         /\ attempts' = attempts + started
    BY <1>1, Launched
<1>4. /\ tried \subseteq tried'
      /\ \A i \in next..Len(plan) : i < next' => plan[i] \in tried'
    BY <1>1, Launched
<1>5. Allowance(hardRounds) \in Nat /\ route.maxAttempts \in Nat
    BY <1>1, <1>2, Bounds
<1>6. a \in Nat /\ Affordable(attempts, n, a, next)
    BY <1>5 DEF IInv, WithinBudget
<1> HIDE DEF a, n
<1>7. /\ Affordable(attempts + started, n, a, next + passed)
      /\ attempts + started <= a + 1
    BY <1>2, <1>3, <1>6 DEF Affordable
<1>8. \A i \in 1..Len(plan) : i < next => plan[i] \in tried
    BY DEF IInv, PassedIsTried
<1>9. \A i \in 1..Len(plan) : i < next' => plan[i] \in tried'
    <2> TAKE i \in 1..Len(plan)
    <2>1. i < next \/ i \in next..Len(plan)
        BY <1>2
    <2> QED
        BY <1>4, <1>8, <2>1
<1>10. attempts + started \in Nat /\ next + passed \in 1..(n + 1)
    BY <1>2, <1>3
<1> QED
    BY <1>3, <1>7, <1>9, <1>10 DEF a, n

\* One attempt more in flight, at most.
LEMMA OneMore ==
    ASSUME NEW f \in [Proxy -> Phases], NEW q \in Proxy, NEW what
    PROVE  Cardinality({p \in Proxy : [f EXCEPT ![q] = what][p] # "idle"})
               <= Cardinality({p \in Proxy : f[p] # "idle"}) + 1
<1> DEFINE before == {p \in Proxy : f[p] # "idle"}
           after == {p \in Proxy : [f EXCEPT ![q] = what][p] # "idle"}
<1>1. after \subseteq before \cup {q}
    OBVIOUS
<1>2. IsFiniteSet(before) /\ Cardinality(before) \in Nat /\ Cardinality(after) \in Nat
    BY FlightFinite
<1> HIDE DEF before, after
<1>3. /\ IsFiniteSet(before \cup {q})
      /\ Cardinality(before \cup {q}) =
             IF q \in before THEN Cardinality(before) ELSE Cardinality(before) + 1
    BY <1>2, FS_AddElement
<1>4. Cardinality(after) <= Cardinality(before \cup {q})
    BY <1>1, <1>3, FS_Subset
<1>5. Cardinality(after) <= Cardinality(before) + 1
    BY <1>2, <1>3, <1>4
<1> QED
    BY <1>5 DEF before, after

\* One attempt less.
LEMMA OneLess ==
    ASSUME NEW f \in [Proxy -> Phases], NEW q \in Proxy, f[q] # "idle"
    PROVE  /\ {p \in Proxy : [f EXCEPT ![q] = "idle"][p] # "idle"}
                  = {p \in Proxy : f[p] # "idle"} \ {q}
           /\ Cardinality({p \in Proxy : [f EXCEPT ![q] = "idle"][p] # "idle"})
                  = Cardinality({p \in Proxy : f[p] # "idle"}) - 1
<1> DEFINE before == {p \in Proxy : f[p] # "idle"}
           after == {p \in Proxy : [f EXCEPT ![q] = "idle"][p] # "idle"}
<1>1. after = before \ {q} /\ q \in before
    OBVIOUS
<1>2. IsFiniteSet(before)
    BY FlightFinite
<1> HIDE DEF before, after
<1>3. Cardinality(after) = Cardinality(before) - 1
    BY <1>1, <1>2, FS_RemoveElement
<1> QED
    BY <1>1, <1>3 DEF before, after

-----------------------------------------------------------------------------
(* The steps of a round.                                                   *)

\* A plan is made: the forced proxy and at most max_attempts others.
LEMMA MakePlanKeeps == IInv /\ MakePlan => IInv'
<1> SUFFICES ASSUME IInv, MakePlan PROVE IInv'
    OBVIOUS
<1>1. TypeOK /\ pc = "plan"
    BY DEF IInv, MakePlan
<1>2. route.maxAttempts \in Nat /\ route.maxParallel \in Nat \ {0} /\ Allowance(hardRounds) \in Nat
    BY <1>1, Bounds DEF TypeOK
<1> DEFINE first == IF forced = None THEN <<>> ELSE <<forced>>
<1>3. PICK view \in Views, turn \in IF Rotates THEN DOMAIN Snapshot ELSE {1} :
        \E built \in BuildPlans(route, poolAll, poolAny, view, turn, turn) :
            plan' = first \o built
    BY DEF MakePlan
<1>4. PICK built \in BuildPlans(route, poolAll, poolAny, view, turn, turn) :
            plan' = first \o built
    BY <1>3
<1>5. turn \in Nat
    BY <1>3, PlanAssumption
<1>6. built \in Seq(Proxy) /\ Len(built) <= route.maxAttempts
    BY <1>2, <1>4, <1>5, PlanIsList
<1>7. first \in Seq(Proxy) /\ Len(first) = IF forced = None THEN 0 ELSE 1
    BY <1>1 DEF TypeOK
<1> HIDE DEF first
<1>8. plan' \in Seq(Proxy) /\ Len(plan') <= route.maxAttempts + Len(first)
    BY <1>4, <1>6, <1>7, <1>2
<1>9. TypeOK'
    BY <1>1, <1>8 DEF TypeOK, MakePlan, setup, health
<1>10. InFlight' = InFlight /\ InFlight = {} /\ Cardinality(InFlight) = 0
    BY <1>1, FS_EmptySet DEF IInv, Staged, MakePlan, InFlight
<1>11. Staged'
    BY <1>1, <1>10 DEF IInv, Staged, MakePlan, setup, Hedged
<1>12. PassedIsTried' /\ next' = 1
    BY DEF MakePlan, PassedIsTried
<1>13. WithinBudget'
    <2>1. attempts <= Allowance(hardRounds) + 1 - Len(first) /\ attempts \in Nat
        BY <1>1, <1>2, <1>7 DEF IInv, WithinBudget, TypeOK
    <2>2. /\ route' = route /\ hardRounds' = hardRounds /\ attempts' = attempts
          /\ pc' # "plan"
        BY DEF MakePlan, setup
    <2>3. Allowance(hardRounds)' = Allowance(hardRounds)
        BY <2>2 DEF Allowance
    <2>4. Len(plan') \in Nat
        BY <1>8
    <2>5. /\ Affordable(attempts, Len(plan'), Allowance(hardRounds) + route.maxAttempts, 1)
          /\ attempts <= Allowance(hardRounds) + route.maxAttempts + 1
        BY <1>2, <1>7, <1>8, <2>1, <2>4 DEF Affordable
    <2> QED
        BY <1>12, <2>2, <2>3, <2>5 DEF WithinBudget
<1>14. ParallelWithinLimit'
    BY <1>2, <1>10 DEF ParallelWithinLimit, MakePlan, setup, Hedged
<1>15. ExhaustedMeansTried'
    BY <1>1, <1>10 DEF IInv, Staged, ExhaustedMeansTried, MakePlan, Range
<1> QED
    BY <1>9, <1>11, <1>12, <1>13, <1>14, <1>15 DEF IInv

\* A sequential dispatch tries its next candidate or is at the end of the plan.
LEMMA NextCandidateKeeps == IInv /\ NextCandidate => IInv'
<1> SUFFICES ASSUME IInv, NextCandidate PROVE IInv'
    OBVIOUS
<1>1. TypeOK /\ pc = "sequential" /\ InFlight = {} /\ ~Hedged
    BY DEF IInv, NextCandidate, Staged
<1>2. route.maxAttempts \in Nat /\ Allowance(hardRounds) \in Nat
    BY <1>1, Bounds DEF TypeOK
<1>3. /\ route' = route /\ hardRounds' = hardRounds /\ plan' = plan
      /\ Hedged' = Hedged /\ Allowance(hardRounds)' = Allowance(hardRounds)
    BY DEF NextCandidate, setup, Hedged, Allowance
<1>4. Cardinality(InFlight) = 0
    BY <1>1, FS_EmptySet
<1>5. CASE next > Len(plan)
    <2>1. InFlight' = InFlight /\ pc' = "exhausted"
        BY <1>5 DEF NextCandidate, InFlight
    <2>2. TypeOK' /\ Staged'
        BY <1>1, <1>5, <2>1 DEF IInv, NextCandidate, TypeOK, Staged, setup, health
    <2>3. Untried(next) = {}
        BY <1>1, <1>5 DEF Untried, TypeOK
    <2>4. Range(plan) \subseteq tried
        BY <1>1, <2>3, NothingLeft DEF IInv
    <2>5. ExhaustedMeansTried'
        BY <1>1, <1>5, <2>1, <2>4 DEF ExhaustedMeansTried, NextCandidate, Range
    <2>6. PassedIsTried' /\ WithinBudget' /\ ParallelWithinLimit'
        BY <1>1, <1>3, <1>4, <1>5, <2>1
           DEF IInv, NextCandidate, PassedIsTried, WithinBudget, ParallelWithinLimit
    <2> QED
        BY <2>2, <2>5, <2>6 DEF IInv
<1>6. CASE ~(next > Len(plan))
    <2>1. /\ next \in 1..Len(plan) /\ plan[next] \in Proxy /\ Len(plan) \in Nat
          /\ attempts \in Nat
        BY <1>1, <1>6 DEF TypeOK
    <2>2. /\ pc' = pc /\ next' = next + 1 /\ attempts' = attempts + 1
          /\ tried' = tried \cup {plan[next]}
          /\ phase' = [phase EXCEPT ![plan[next]] = "sending"]
        BY <1>6 DEF NextCandidate
    <2>3. TypeOK'
        BY <1>1, <2>1, <2>2 DEF NextCandidate, TypeOK, Phases, setup, health
    <2>4. Staged'
        BY <1>1, <1>3, <2>2 DEF IInv, NextCandidate, Staged, setup
    <2>5. PassedIsTried'
        BY <1>1, <1>3, <2>1, <2>2 DEF IInv, PassedIsTried
    <2>6. WithinBudget'
        <3> DEFINE a == Allowance(hardRounds) + route.maxAttempts
        <3>1. Affordable(attempts, Len(plan), a, next) /\ a \in Nat
            BY <1>1, <1>2 DEF IInv, WithinBudget
        <3> HIDE DEF a
        <3>2. Affordable(attempts + 1, Len(plan), a, next + 1) /\ attempts + 1 <= a + 1
            BY <2>1, <3>1 DEF Affordable
        <3> QED
            BY <1>1, <1>3, <2>2, <3>2 DEF WithinBudget, a
    <2>7. Cardinality(InFlight') <= Cardinality(InFlight) + 1
        <3>1. InFlight' = {p \in Proxy : [phase EXCEPT ![plan[next]] = "sending"][p] # "idle"}
            BY <2>2 DEF InFlight
        <3>2. phase \in [Proxy -> Phases]
            BY <1>1 DEF TypeOK
        <3> QED
            BY <2>1, <3>1, <3>2, OneMore DEF InFlight
    <2>8. ParallelWithinLimit'
        BY <1>1, <1>3, <1>4, <2>7 DEF ParallelWithinLimit
    <2>9. ExhaustedMeansTried'
        BY <1>1, <2>2 DEF IInv, Staged, ExhaustedMeansTried, NextCandidate
    <2> QED
        BY <2>3, <2>4, <2>5, <2>6, <2>8, <2>9 DEF IInv
<1> QED
    BY <1>5, <1>6

\* A hedged dispatch starts with one attempt or has nothing to start.
LEMMA StartHedgeKeeps == IInv /\ StartHedge => IInv'
<1> SUFFICES ASSUME IInv, StartHedge PROVE IInv'
    OBVIOUS
<1>1. TypeOK /\ pc = "start_hedge" /\ Hedged /\ InFlight = {} /\ Launch(phase)
    BY DEF IInv, StartHedge, Staged
<1>2. phase \in [Proxy -> Phases] /\ route.maxParallel \in Nat \ {0}
    BY <1>1, Bounds DEF TypeOK
<1>3. /\ route' = route /\ hardRounds' = hardRounds /\ plan' = plan /\ answer' = answer
      /\ forced' = forced
      /\ Hedged' = Hedged /\ Allowance(hardRounds)' = Allowance(hardRounds)
    BY DEF StartHedge, setup, Hedged, Allowance
<1>4. /\ tried \subseteq tried' /\ tried' \subseteq Proxy
      /\ phase' \in [Proxy -> Phases]
      /\ \/ Untried(next) = {} /\ phase' = phase
         \/ /\ Untried(next) # {}
            /\ \E q \in Proxy : phase' = [phase EXCEPT ![q] = "sending"]
    BY <1>1, <1>2, Launched
<1>5. /\ \A i \in 1..Len(plan) : i < next' => plan[i] \in tried'
      /\ Affordable(attempts', Len(plan), Allowance(hardRounds) + route.maxAttempts, next')
      /\ attempts' <= Allowance(hardRounds) + route.maxAttempts + 1
      /\ attempts' \in Nat /\ next' \in 1..(Len(plan) + 1)
    BY <1>1, <1>2, LaunchWithin
<1>6. pc' = IF Untried(next) = {} THEN "exhausted" ELSE "hedge"
    BY DEF StartHedge
<1>7. TypeOK'
    BY <1>1, <1>4, <1>5, <1>6 DEF StartHedge, TypeOK, setup, health
<1>8. PassedIsTried' /\ WithinBudget'
    BY <1>3, <1>5, <1>6 DEF PassedIsTried, WithinBudget
<1>9. Cardinality(InFlight) = 0
    BY <1>1, FS_EmptySet
<1>10. CASE Untried(next) = {}
    <2>1. InFlight' = InFlight /\ pc' = "exhausted" /\ tried' = tried
        BY <1>1, <1>4, <1>6, <1>10 DEF InFlight, Launch
    <2>2. Staged'
        BY <1>1, <1>3, <2>1 DEF IInv, Staged
    <2>3. ParallelWithinLimit'
        BY <1>1, <1>2, <1>3, <1>9, <2>1 DEF ParallelWithinLimit
    <2>4. Range(plan) \subseteq tried
        BY <1>1, <1>10, NothingLeft DEF IInv
    <2>5. ExhaustedMeansTried'
        BY <1>1, <1>3, <2>1, <2>4 DEF ExhaustedMeansTried, Range
    <2> QED
        BY <1>7, <1>8, <2>2, <2>3, <2>5 DEF IInv
<1>11. CASE Untried(next) # {}
    <2>1. PICK q \in Proxy : phase' = [phase EXCEPT ![q] = "sending"]
        BY <1>4, <1>11
    <2>2. pc' = "hedge"
        BY <1>6, <1>11
    <2>3. Staged'
        BY <1>1, <1>3, <2>2 DEF IInv, Staged
    <2>4. InFlight' = {p \in Proxy : [phase EXCEPT ![q] = "sending"][p] # "idle"}
        BY <2>1 DEF InFlight
    <2>5. Cardinality(InFlight') <= Cardinality(InFlight) + 1
        BY <1>2, <2>4, OneMore DEF InFlight
    <2>6. ParallelWithinLimit'
        <3>1. Cardinality(InFlight') \in Nat
            BY FlightFinite DEF InFlight
        <3> QED
            BY <1>1, <1>2, <1>3, <1>9, <2>5, <3>1 DEF ParallelWithinLimit
    <2>7. ExhaustedMeansTried'
        BY <1>1, <1>3, <2>2 DEF IInv, Staged, ExhaustedMeansTried
    <2> QED
        BY <1>7, <1>8, <2>3, <2>6, <2>7 DEF IInv
<1> QED
    BY <1>10, <1>11

\* The timer adds an attempt below the limit only.
LEMMA HedgeTimerKeeps == IInv /\ HedgeTimer => IInv'
<1> SUFFICES ASSUME IInv, HedgeTimer PROVE IInv'
    OBVIOUS
<1>1. /\ TypeOK /\ pc = "hedge" /\ Hedged /\ Launch(phase)
      /\ Cardinality(InFlight) < route.maxParallel
    BY DEF IInv, HedgeTimer, Staged
<1>2. phase \in [Proxy -> Phases] /\ route.maxParallel \in Nat \ {0}
    BY <1>1, Bounds DEF TypeOK
<1>3. /\ route' = route /\ hardRounds' = hardRounds /\ plan' = plan /\ answer' = answer
      /\ forced' = forced /\ pc' = pc
      /\ Hedged' = Hedged /\ Allowance(hardRounds)' = Allowance(hardRounds)
    BY DEF HedgeTimer, setup, Hedged, Allowance
<1>4. /\ tried \subseteq tried' /\ tried' \subseteq Proxy
      /\ phase' \in [Proxy -> Phases]
      /\ \/ phase' = phase
         \/ \E q \in Proxy : phase' = [phase EXCEPT ![q] = "sending"]
    BY <1>1, <1>2, Launched
<1>5. /\ \A i \in 1..Len(plan) : i < next' => plan[i] \in tried'
      /\ Affordable(attempts', Len(plan), Allowance(hardRounds) + route.maxAttempts, next')
      /\ attempts' <= Allowance(hardRounds) + route.maxAttempts + 1
      /\ attempts' \in Nat /\ next' \in 1..(Len(plan) + 1)
    BY <1>1, <1>2, LaunchWithin
<1>6. TypeOK'
    BY <1>1, <1>4, <1>5 DEF HedgeTimer, TypeOK, setup, health
<1>7. PassedIsTried' /\ WithinBudget'
    BY <1>1, <1>3, <1>5 DEF PassedIsTried, WithinBudget
<1>8. Staged' /\ ExhaustedMeansTried'
    BY <1>1, <1>3 DEF IInv, Staged, ExhaustedMeansTried
<1>9. Cardinality(InFlight) \in Nat
    BY FlightFinite DEF InFlight
<1>10. Cardinality(InFlight') <= Cardinality(InFlight) + 1
    <2>1. CASE phase' = phase
        BY <1>9, <2>1 DEF InFlight
    <2>2. CASE \E q \in Proxy : phase' = [phase EXCEPT ![q] = "sending"]
        <3>1. PICK q \in Proxy : phase' = [phase EXCEPT ![q] = "sending"]
            BY <2>2
        <3>2. InFlight' = {p \in Proxy : [phase EXCEPT ![q] = "sending"][p] # "idle"}
            BY <3>1 DEF InFlight
        <3> QED
            BY <1>2, <3>2, OneMore DEF InFlight
    <2> QED
        BY <1>4, <2>1, <2>2
<1>11. Cardinality(InFlight') \in Nat
    BY FlightFinite DEF InFlight
<1>12. ParallelWithinLimit'
    BY <1>1, <1>2, <1>3, <1>9, <1>10, <1>11 DEF ParallelWithinLimit
<1> QED
    BY <1>6, <1>7, <1>8, <1>12 DEF IInv

-----------------------------------------------------------------------------
(* The ways an attempt ends.  Its record of health keeps the types.        *)

\* What is recorded about a proxy has the types of its health.
LEMMA Recorded ==
    ASSUME TypeOK, NEW p \in Proxy,
           \/ RecordSuccess(p) \/ RecordNothing
           \/ \E ban, globalFatal \in BOOLEAN : RecordFailure(p, ban, globalFatal)
    PROVE  /\ banned' \in [Proxy -> BOOLEAN] /\ fatal' \in [Proxy -> BOOLEAN]
           /\ fails' \in [Proxy -> 0..FailStreak]
<1>1. /\ banned \in [Proxy -> BOOLEAN] /\ fatal \in [Proxy -> BOOLEAN]
      /\ fails \in [Proxy -> 0..FailStreak]
    BY DEF TypeOK
<1>2. CASE RecordSuccess(p)
    BY <1>1, <1>2, HealthAssumption DEF RecordSuccess
<1>3. CASE RecordNothing
    BY <1>1, <1>3 DEF RecordNothing, health
<1>4. ASSUME NEW ban \in BOOLEAN, NEW globalFatal \in BOOLEAN,
             RecordFailure(p, ban, globalFatal)
      PROVE  /\ banned' \in [Proxy -> BOOLEAN] /\ fatal' \in [Proxy -> BOOLEAN]
             /\ fails' \in [Proxy -> 0..FailStreak]
    BY <1>1, <1>4, HealthAssumption DEF RecordFailure
<1> QED
    BY <1>2, <1>3, <1>4

HealthTyped ==
    /\ banned' \in [Proxy -> BOOLEAN] /\ fatal' \in [Proxy -> BOOLEAN]
    /\ fails' \in [Proxy -> 0..FailStreak]

\* An attempt runs for the dispatcher that started it.
LEMMA Running ==
    ASSUME IInv, NEW p \in Proxy, phase[p] # "idle", pc # "fallback"
    PROVE  /\ pc = "hedge" <=> Hedged
           /\ pc = "sequential" <=> ~Hedged
           /\ answer.kind \notin {"exhausted", "failure"} /\ forced = None
<1>1. InFlight # {}
    BY DEF InFlight
<1> QED
    BY <1>1 DEF IInv, TypeOK, Staged

\* A failed attempt.
LEMMA AttemptFailedKeeps ==
    ASSUME IInv, NEW p \in Proxy, phase[p] # "idle", pc # "fallback",
           NEW s \in Status \cup {None}, HealthTyped, AttemptFailed(p, s)
    PROVE  IInv'
<1> DEFINE running == [phase EXCEPT ![p] = "idle"]
<1>1. TypeOK /\ phase \in [Proxy -> Phases] /\ running \in [Proxy -> Phases]
    BY DEF IInv, TypeOK, Phases
<1>2. /\ route' = route /\ hardRounds' = hardRounds /\ plan' = plan /\ answer' = answer
      /\ forced' = forced /\ fallback' = fallback /\ elsewhere' = elsewhere
      /\ Hedged' = Hedged /\ Allowance(hardRounds)' = Allowance(hardRounds)
    BY DEF AttemptFailed, setup, Hedged, Allowance
<1>3. held' \in [Proxy -> Status \cup {None}] /\ failures' \in [Status -> Nat]
    <2>1. held \in [Proxy -> Status \cup {None}] /\ failures \in [Status -> Nat]
        BY <1>1 DEF TypeOK
    <2> QED
        BY <2>1 DEF AttemptFailed
<1>4. {q \in Proxy : running[q] # "idle"} = InFlight \ {p}
    BY <1>1, OneLess DEF InFlight
<1>5. /\ Cardinality({q \in Proxy : running[q] # "idle"}) = Cardinality(InFlight) - 1
      /\ Cardinality(InFlight) \in Nat
    BY <1>1, OneLess, FlightFinite DEF InFlight
<1>6. CASE ~Hedged
    <2>1. pc = "sequential" /\ answer.kind \notin {"exhausted", "failure"}
        BY <1>6, Running
    <2>2. /\ phase' = running /\ pc' = pc /\ next' = next /\ tried' = tried
          /\ attempts' = attempts
        BY <1>6 DEF AttemptFailed
    <2>3. TypeOK'
        BY <1>1, <1>2, <1>3, <2>2 DEF TypeOK, HealthTyped
    <2>4. Staged' /\ PassedIsTried' /\ WithinBudget' /\ ExhaustedMeansTried'
        BY <1>2, <2>1, <2>2
           DEF IInv, Staged, PassedIsTried, WithinBudget, ExhaustedMeansTried
    <2>5. InFlight' = {q \in Proxy : running[q] # "idle"}
        BY <2>2 DEF InFlight
    <2>6. ParallelWithinLimit'
        BY <1>2, <1>5, <1>6, <2>5 DEF IInv, ParallelWithinLimit
    <2> QED
        BY <2>3, <2>4, <2>6 DEF IInv
<1>7. CASE Hedged
    <2>1. pc = "hedge" /\ answer.kind \notin {"exhausted", "failure"} /\ forced = None
        BY <1>7, Running
    <2>2. /\ Launch(running)
          /\ pc' = IF InFlight = {p} /\ Untried(next) = {} THEN "exhausted" ELSE pc
        BY <1>7 DEF AttemptFailed
    <2>3. /\ tried \subseteq tried' /\ tried' \subseteq Proxy
          /\ phase' \in [Proxy -> Phases]
          /\ \/ Untried(next) = {} /\ phase' = running
             \/ /\ Untried(next) # {}
                /\ \E q \in Proxy : phase' = [running EXCEPT ![q] = "sending"]
        BY <1>1, <2>2, Launched
    <2>4. /\ \A i \in 1..Len(plan) : i < next' => plan[i] \in tried'
          /\ Affordable(attempts', Len(plan), Allowance(hardRounds) + route.maxAttempts, next')
          /\ attempts' <= Allowance(hardRounds) + route.maxAttempts + 1
          /\ attempts' \in Nat /\ next' \in 1..(Len(plan) + 1)
        BY <1>1, <2>1, <2>2, LaunchWithin
    <2>5. TypeOK'
        <3>1. pc' \in {"exhausted", "hedge"}
            BY <2>1, <2>2
        <3> QED
            BY <1>1, <1>2, <1>3, <2>3, <2>4, <3>1 DEF TypeOK, HealthTyped
    <2>6. PassedIsTried' /\ WithinBudget'
        BY <1>2, <2>1, <2>2, <2>4 DEF PassedIsTried, WithinBudget
    <2>7. Cardinality(InFlight') <= Cardinality(InFlight)
        <3>1. CASE phase' = running
            <4>1. InFlight' = {q \in Proxy : running[q] # "idle"}
                BY <3>1 DEF InFlight
            <4> QED
                BY <1>5, <4>1
        <3>2. CASE \E q \in Proxy : phase' = [running EXCEPT ![q] = "sending"]
            <4>1. PICK q \in Proxy : phase' = [running EXCEPT ![q] = "sending"]
                BY <3>2
            <4>2. InFlight' = {r \in Proxy : [running EXCEPT ![q] = "sending"][r] # "idle"}
                BY <4>1 DEF InFlight
            <4> HIDE DEF running
            <4>3. Cardinality(InFlight') <= Cardinality({r \in Proxy : running[r] # "idle"}) + 1
                BY <1>1, <4>2, OneMore
            <4>4. Cardinality(InFlight') \in Nat
                BY FlightFinite DEF InFlight
            <4> QED
                BY <1>5, <4>3, <4>4
        <3> QED
            BY <2>3, <3>1, <3>2
    <2>8. ParallelWithinLimit'
        <3>1. Cardinality(InFlight') \in Nat
            BY FlightFinite DEF InFlight
        <3>2. route.maxParallel \in Nat
            BY <1>1, Bounds
        <3> QED
            BY <1>2, <1>5, <1>7, <2>7, <3>1, <3>2 DEF IInv, ParallelWithinLimit
    <2>9. CASE InFlight = {p} /\ Untried(next) = {}
        <3>1. pc' = "exhausted" /\ phase' = running /\ tried' = tried
            BY <2>2, <2>3, <2>9 DEF Launch
        <3>2. InFlight' = {}
            <4>1. InFlight' = {q \in Proxy : running[q] # "idle"}
                BY <3>1 DEF InFlight
            <4> QED
                BY <1>4, <2>9, <4>1
        <3>3. Range(plan) \subseteq tried
            BY <1>1, <2>1, <2>9, NothingLeft DEF IInv
        <3>4. ExhaustedMeansTried'
            BY <1>2, <3>1, <3>2, <3>3 DEF ExhaustedMeansTried, Range
        <3>5. Staged'
            BY <1>2, <2>1, <3>1, <3>2 DEF Staged
        <3> QED
            BY <2>5, <2>6, <2>8, <3>4, <3>5 DEF IInv
    <2>10. CASE ~(InFlight = {p} /\ Untried(next) = {})
        <3>1. pc' = "hedge"
            BY <2>1, <2>2, <2>10
        <3>2. Staged' /\ ExhaustedMeansTried'
            BY <1>2, <1>7, <2>1, <3>1 DEF Staged, ExhaustedMeansTried
        <3> QED
            BY <2>5, <2>6, <2>8, <3>2 DEF IInv
    <2> QED
        BY <2>9, <2>10
<1> QED
    BY <1>6, <1>7

\* An answer ends the request and drops the attempts that run.
LEMMA AttemptOkKeeps ==
    ASSUME IInv, NEW p \in Proxy, phase[p] # "idle", pc # "fallback",
           NEW kind \in {"response", "give_up"}, NEW s \in Status \cup {None},
           HealthTyped, AttemptOk(p, kind, s)
    PROVE  IInv'
<1>1. TypeOK
    BY DEF IInv
<1>2. /\ answer' = [kind |-> kind, by |-> p, status |-> s]
      /\ pc' = "answered" /\ phase' = [q \in Proxy |-> "idle"]
    BY DEF AttemptOk
<1>3. TypeOK'
    BY <1>1, <1>2 DEF TypeOK, AttemptOk, HealthTyped, setup, Phases
<1>4. InFlight' = {}
    BY <1>2 DEF InFlight
<1>5. Cardinality(InFlight') = 0
    BY <1>4, FS_EmptySet
<1>6. Staged'
    BY <1>2, <1>4, Running DEF Staged, AttemptOk
<1>7. PassedIsTried' /\ ExhaustedMeansTried'
    BY <1>2 DEF PassedIsTried, ExhaustedMeansTried
<1>8. WithinBudget'
    BY <1>2 DEF IInv, WithinBudget, AttemptOk, Allowance, setup
<1>9. route' = route /\ route.maxParallel \in Nat \ {0} /\ Hedged' = Hedged
    BY <1>1, Bounds DEF AttemptOk, setup, Hedged
<1>10. ParallelWithinLimit'
    BY <1>5, <1>9 DEF ParallelWithinLimit
<1> QED
    BY <1>3, <1>6, <1>7, <1>8, <1>10 DEF IInv

\* Waiting on, for a body or the end of the delay.
LEMMA AttemptAwaitsKeeps ==
    ASSUME IInv, NEW p \in Proxy, phase[p] # "idle", pc # "fallback",
           NEW what \in Phases \ {"idle"}, NEW s \in Status \cup {None},
           HealthTyped, AttemptAwaits(p, what, s)
    PROVE  IInv'
<1>1. TypeOK /\ (pc = "hedge" \/ pc = "sequential")
    BY Running DEF IInv
<1>2. TypeOK'
    BY <1>1 DEF TypeOK, AttemptAwaits, HealthTyped, setup
<1>3. InFlight' = InFlight
    BY <1>1 DEF InFlight, AttemptAwaits, TypeOK
<1>4. Staged' /\ PassedIsTried' /\ ParallelWithinLimit' /\ ExhaustedMeansTried'
    BY <1>1, <1>3
       DEF IInv, AttemptAwaits, Staged, PassedIsTried, ParallelWithinLimit,
           ExhaustedMeansTried, setup, Hedged
<1>5. WithinBudget'
    BY DEF IInv, WithinBudget, AttemptAwaits, Allowance, setup
<1> QED
    BY <1>2, <1>4, <1>5 DEF IInv

\* Every step of an attempt that a dispatcher has started.
LEMMA AttemptKeeps == ASSUME IInv, NEW p \in Proxy, Attempt(p) PROVE IInv'
<1>1. TypeOK /\ Staged
    BY DEF IInv
<1>2. phase[p] # "idle" /\ pc # "fallback"
    <2>1. pc = "fallback" => phase[p] \in {"idle", "buffering"}
        BY <1>1 DEF Staged
    <2> QED
        BY <2>1
           DEF Attempt, NoResponse, HeadArrives, CaptureBroken, Judged, VerdictSuccess,
               VerdictGiveUp, VerdictRetryOther, VerdictHardFail, VerdictRetrySame,
               Buffered, DelayOver
<1>3. held[p] \in Status \cup {None}
    BY <1>1 DEF TypeOK
<1>4. CASE NoResponse(p)
    <2>1. HealthTyped
        BY <1>1, <1>4, Recorded DEF NoResponse, HealthTyped
    <2> QED
        BY <1>2, <1>4, <2>1, AttemptFailedKeeps DEF NoResponse
<1>5. CASE HeadArrives(p)
    <2>1. HealthTyped
        BY <1>1, <1>5, Recorded DEF HeadArrives, HealthTyped
    <2>2. "capturing" \in Phases \ {"idle"}
        BY DEF Phases
    <2> QED
        BY <1>2, <1>5, <2>1, <2>2, AttemptAwaitsKeeps DEF HeadArrives
<1>6. CASE CaptureBroken(p)
    <2>1. HealthTyped
        BY <1>1, <1>6, Recorded DEF CaptureBroken, HealthTyped
    <2> QED
        BY <1>2, <1>6, <2>1, AttemptFailedKeeps DEF CaptureBroken
<1>7. ASSUME NEW s \in Status, VerdictSuccess(p, s) PROVE IInv'
    <2>1. HealthTyped
        BY <1>1, <1>7, Recorded DEF VerdictSuccess, HealthTyped
    <2> QED
        BY <1>2, <1>7, <2>1, AttemptOkKeeps DEF VerdictSuccess
<1>8. ASSUME NEW s \in Status, VerdictGiveUp(p, s) PROVE IInv'
    <2>1. HealthTyped
        BY <1>1, <1>8, Recorded DEF VerdictGiveUp, HealthTyped
    <2> QED
        BY <1>2, <1>8, <2>1, AttemptOkKeeps DEF VerdictGiveUp
<1>9. ASSUME NEW s \in Status, VerdictRetryOther(p, s) PROVE IInv'
    <2>1. RecordFailure(p, TRUE, FALSE)
        BY <1>9 DEF VerdictRetryOther
    <2>2. HealthTyped
        BY <1>1, <2>1, Recorded DEF HealthTyped
    <2>3. AttemptFailed(p, None) \/ AttemptFailed(p, s) \/ AttemptAwaits(p, "buffering", s)
        BY <1>9 DEF VerdictRetryOther
    <2>4. "buffering" \in Phases \ {"idle"}
        BY DEF Phases
    <2> QED
        BY <1>2, <2>2, <2>3, <2>4, AttemptFailedKeeps, AttemptAwaitsKeeps
<1>10. ASSUME NEW s \in Status, VerdictHardFail(p, s) PROVE IInv'
    <2>1. PICK connect \in BOOLEAN : RecordFailure(p, FALSE, ~route.capture \/ connect)
        BY <1>10 DEF VerdictHardFail
    <2>2. RecordFailure(p, FALSE, TRUE) \/ RecordFailure(p, FALSE, FALSE)
        <3>1. CASE ~route.capture \/ connect
            <4>1. (~route.capture \/ connect) = TRUE
                BY <3>1
            <4> QED
                BY <2>1, <4>1
        <3>2. CASE ~(~route.capture \/ connect)
            <4>1. (~route.capture \/ connect) = FALSE
                BY <3>2
            <4> QED
                BY <2>1, <4>1
        <3> QED
            BY <3>1, <3>2
    <2>3. HealthTyped
        BY <1>1, <2>2, Recorded DEF HealthTyped
    <2> QED
        BY <1>2, <1>10, <2>3, AttemptFailedKeeps DEF VerdictHardFail
<1>11. ASSUME NEW s \in Status, VerdictRetrySame(p, s) PROVE IInv'
    <2>1. HealthTyped
        BY <1>1, <1>11, Recorded DEF VerdictRetrySame, HealthTyped
    <2>2. "sleeping" \in Phases \ {"idle"}
        BY DEF Phases
    <2> QED
        BY <1>2, <1>11, <2>1, <2>2, AttemptAwaitsKeeps DEF VerdictRetrySame
<1>12. CASE Buffered(p)
    <2>1. HealthTyped
        BY <1>1, <1>12, Recorded DEF Buffered, HealthTyped
    <2> QED
        BY <1>2, <1>3, <1>12, <2>1, AttemptFailedKeeps DEF Buffered
<1>13. CASE DelayOver(p)
    <2>1. HealthTyped
        BY <1>1, <1>13, Recorded DEF DelayOver, HealthTyped
    <2> QED
        BY <1>2, <1>13, <2>1, AttemptFailedKeeps DEF DelayOver
<1> QED
    BY <1>4, <1>5, <1>6, <1>7, <1>8, <1>9, <1>10, <1>11, <1>12, <1>13 DEF Attempt

-----------------------------------------------------------------------------
(* When the plan is exhausted.                                             *)

\* What a step that leaves the round alone keeps.
LEMMA RoundKept ==
    ASSUME IInv, route' = route, hardRounds' = hardRounds, attempts' = attempts,
           plan' = plan, next' = next
    PROVE  /\ attempts' <= (Allowance(hardRounds) + route.maxAttempts + 1)'
           /\ Hedged' = Hedged /\ route.maxParallel \in Nat \ {0}
<1>1. route.maxParallel \in Nat \ {0}
    BY Bounds DEF IInv
<1>2. attempts <= Allowance(hardRounds) + route.maxAttempts + 1
    BY DEF IInv, WithinBudget
<1> QED
    BY <1>1, <1>2 DEF Allowance, Hedged

\* The last resort takes proxies that were not tried.
LEMMA TryFatalKeeps == IInv /\ TryFatal => IInv'
<1> SUFFICES ASSUME IInv, TryFatal PROVE IInv'
    OBVIOUS
<1>1. /\ TypeOK /\ pc = "exhausted" /\ InFlight = {} /\ pc' = "fallback"
      /\ route' = route /\ hardRounds' = hardRounds /\ attempts' = attempts
      /\ plan' = plan /\ next' = next /\ tried' = tried /\ phase' = phase /\ forced' = forced
      /\ answer' = answer
    BY DEF IInv, Staged, TryFatal, setup
<1>2. PICK view \in Views : fallback' \in FallbackPool(route, poolAll, poolAny, view, tried)
    BY DEF TryFatal
<1>3. fallback' \in Seq(Proxy) /\ Range(fallback') \cap tried = {}
    BY <1>2, FallbackIsList
<1>4. TypeOK'
    BY <1>1, <1>3 DEF TypeOK, TryFatal, setup, health
<1>5. InFlight' = InFlight
    BY <1>1 DEF InFlight
<1>6. \A p \in Proxy : phase[p] = "idle"
    BY <1>1 DEF InFlight
<1>7. Staged'
    BY <1>1, <1>6 DEF IInv, Staged
<1>8. PassedIsTried' /\ WithinBudget'
    BY <1>1, RoundKept DEF PassedIsTried, WithinBudget
<1>9. ParallelWithinLimit'
    BY <1>1, <1>5, RoundKept DEF IInv, ParallelWithinLimit
<1>10. Range(plan) \subseteq tried
    BY <1>1 DEF IInv, ExhaustedMeansTried
<1>11. ExhaustedMeansTried'
    BY <1>1, <1>3, <1>5, <1>10 DEF ExhaustedMeansTried, Range
<1> QED
    BY <1>4, <1>7, <1>8, <1>9, <1>11 DEF IInv

\* The final answer is one.
LEMMA FinalAnswer ==
    ASSUME GiveFinalAnswer
    PROVE  /\ pc' = "answered" /\ answer'.kind \in {"exhausted", "failure"}
           /\ answer'.by \in Proxy \cup {None} /\ answer'.status \in Status \cup {None}
<1>1. \/ answer' = [kind |-> "exhausted", by |-> None, status |-> None]
      \/ \E s \in Status : answer' = [kind |-> "failure", by |-> None, status |-> s]
    BY DEF GiveFinalAnswer
<1> QED
    BY <1>1 DEF GiveFinalAnswer

\* Another round has the allowance of its own, and the last one is answered with
\* what the plan has led to.
LEMMA AnotherRoundKeeps ==
    ASSUME IInv, NEW forget \in BOOLEAN, AnotherRound(forget) PROVE IInv'
<1>1. /\ TypeOK /\ pc = "exhausted" /\ InFlight = {} /\ forced = None
      /\ answer.kind \notin {"exhausted", "failure"}
      /\ Range(plan) \subseteq tried
    BY DEF IInv, Staged, AnotherRound, ExhaustedMeansTried
<1>2. /\ hardRounds' = hardRounds + 1
      /\ route' = route /\ attempts' = attempts /\ plan' = plan /\ next' = next
      /\ phase' = phase /\ forced' = forced
    BY DEF AnotherRound, setup
<1>3. InFlight' = {}
    BY <1>1, <1>2 DEF InFlight
<1>4. Cardinality(InFlight') = 0
    BY <1>3, FS_EmptySet
<1>5. /\ Allowance(hardRounds)' = Allowance(hardRounds) + route.maxAttempts
      /\ Allowance(hardRounds) \in Nat /\ route.maxAttempts \in Nat \ {0}
      /\ route.maxParallel \in Nat \ {0} /\ attempts \in Nat
    <2>1. hardRounds \in Nat /\ attempts \in Nat
        BY <1>1 DEF TypeOK
    <2>2. Allowance(hardRounds + 1) = Allowance(hardRounds) + route.maxAttempts
        BY <1>1, <2>1, Bounds
    <2>3. Allowance(hardRounds)' = Allowance(hardRounds + 1)
        BY <1>2 DEF Allowance
    <2> QED
        BY <1>1, <2>1, <2>2, <2>3, Bounds
<1>6. ParallelWithinLimit'
    BY <1>2, <1>4, <1>5 DEF ParallelWithinLimit, Hedged
<1>7. attempts <= Allowance(hardRounds) + route.maxAttempts + 1
    BY DEF IInv, WithinBudget
<1>8. /\ attempts' <= Allowance(hardRounds)' + (IF forced' = None THEN 1 ELSE 0)
      /\ attempts' <= Allowance(hardRounds)' + route.maxAttempts' + 1
    <2> DEFINE a == Allowance(hardRounds) + route.maxAttempts
    <2>1. a \in Nat /\ attempts <= a + 1 /\ attempts <= a + route.maxAttempts + 1
        BY <1>5, <1>7
    <2>2. Allowance(hardRounds)' = a /\ forced' = None
        BY <1>1, <1>2, <1>5
    <2> HIDE DEF a
    <2> QED
        BY <1>2, <2>1, <2>2
<1>9. CASE pc' = "answered"
    <2>1. GiveFinalAnswer /\ tried' = tried
        BY <1>9 DEF AnotherRound
    <2>2. TypeOK'
        BY <1>1, <1>2, <2>1, FinalAnswer DEF TypeOK, AnotherRound, setup, health
    <2>3. Staged' /\ PassedIsTried' /\ WithinBudget'
        BY <1>1, <1>2, <1>3, <1>8, <1>9 DEF Staged, PassedIsTried, WithinBudget
    <2>4. ExhaustedMeansTried'
        BY <1>1, <1>2, <1>3, <1>9, <2>1 DEF ExhaustedMeansTried, Range
    <2> QED
        BY <1>6, <2>2, <2>3, <2>4 DEF IInv
<1>10. CASE pc' # "answered"
    <2>1. pc' = "plan" /\ answer' = answer /\ tried' \subseteq Proxy
        BY <1>1, <1>10 DEF AnotherRound, GiveFinalAnswer, TypeOK
    <2>2. TypeOK'
        BY <1>1, <1>2, <2>1 DEF TypeOK, AnotherRound, setup, health
    <2>3. Staged' /\ PassedIsTried' /\ WithinBudget'
        BY <1>1, <1>3, <1>8, <2>1 DEF Staged, PassedIsTried, WithinBudget
    <2>4. ExhaustedMeansTried'
        BY <1>1, <2>1 DEF ExhaustedMeansTried
    <2> QED
        BY <1>6, <2>2, <2>3, <2>4 DEF IInv
<1> QED
    BY <1>9, <1>10

\* The error of the route.
LEMMA ReturnErrorKeeps == IInv /\ ReturnError => IInv'
<1> SUFFICES ASSUME IInv, ReturnError PROVE IInv'
    OBVIOUS
<1>1. /\ TypeOK /\ pc = "exhausted" /\ InFlight = {} /\ forced = None
      /\ pc' = "answered" /\ answer' = [kind |-> "route_error", by |-> None, status |-> None]
      /\ route' = route /\ hardRounds' = hardRounds /\ attempts' = attempts
      /\ plan' = plan /\ next' = next /\ phase' = phase /\ forced' = forced
    BY DEF IInv, Staged, ReturnError, setup
<1>2. TypeOK'
    BY <1>1 DEF TypeOK, ReturnError, setup, health
<1>3. InFlight' = InFlight
    BY <1>1 DEF InFlight
<1>4. Staged' /\ PassedIsTried' /\ WithinBudget' /\ ExhaustedMeansTried'
    BY <1>1, <1>3, RoundKept DEF Staged, PassedIsTried, WithinBudget, ExhaustedMeansTried
<1>5. ParallelWithinLimit'
    BY <1>1, <1>3, RoundKept DEF IInv, ParallelWithinLimit
<1> QED
    BY <1>2, <1>4, <1>5 DEF IInv

\* What a step of the last resort leaves alone.
ResortKept ==
    /\ route' = route /\ hardRounds' = hardRounds /\ attempts' = attempts
    /\ plan' = plan /\ next' = next /\ tried' = tried /\ forced' = forced
    /\ elsewhere' = elsewhere /\ banned' = banned /\ fatal' = fatal /\ fails' = fails

\* The last resort asks the next proxy of its list.
LEMMA TryFallbackKeeps == IInv /\ TryFallback => IInv'
<1> SUFFICES ASSUME IInv, TryFallback PROVE IInv'
    OBVIOUS
<1>1. /\ TypeOK /\ pc = "fallback" /\ InFlight = {} /\ forced = None /\ fallback # <<>>
      /\ answer.kind \notin {"exhausted", "failure"} /\ Range(plan) \subseteq tried
      /\ Range(fallback) \cap tried = {}
    BY DEF IInv, Staged, TryFallback, ExhaustedMeansTried
<1>2. ResortKept /\ fallback' = Tail(fallback) /\ failures' = failures
    BY DEF TryFallback, ResortKept, setup, health
<1> DEFINE p == Head(fallback)
<1>3. /\ p \in Proxy /\ Tail(fallback) \in Seq(Proxy)
      /\ p \in Range(fallback) /\ Range(Tail(fallback)) \subseteq Range(fallback)
    <2>1. fallback \in Seq(Proxy)
        BY <1>1 DEF TypeOK
    <2>2. /\ Tail(fallback) \in Seq(Proxy) /\ p = fallback[1] /\ 1 \in DOMAIN fallback
          /\ Len(fallback) \in Nat /\ Len(Tail(fallback)) = Len(fallback) - 1
          /\ \A i \in 1..Len(Tail(fallback)) : Tail(fallback)[i] = fallback[i + 1]
        BY <1>1, <2>1
    <2>3. \A i \in 1..Len(Tail(fallback)) : i + 1 \in DOMAIN fallback
        BY <2>1, <2>2
    <2>4. Range(Tail(fallback)) \subseteq Range(fallback)
        BY <2>2, <2>3 DEF Range
    <2>5. p \in Range(fallback) /\ p \in Proxy
        BY <2>1, <2>2 DEF Range
    <2> QED
        BY <2>2, <2>4, <2>5
<1>4. \/ pc' = "fallback" /\ phase' = phase /\ held' = held /\ answer' = answer
      \/ /\ pc' = "fallback" /\ answer' = answer
         /\ phase' = [phase EXCEPT ![p] = "buffering"]
         /\ \E s \in Status : held' = [held EXCEPT ![p] = s]
      \/ /\ pc' = "answered" /\ phase' = phase /\ held' = held
         /\ \E s \in Status : answer' = [kind |-> "response", by |-> p, status |-> s]
    BY <1>1 DEF TryFallback
<1> HIDE DEF p
<1>5. TypeOK'
    <2>1. /\ held \in [Proxy -> Status \cup {None}] /\ phase \in [Proxy -> Phases]
          /\ answer.by \in Proxy \cup {None} /\ answer.status \in Status \cup {None}
        BY <1>1 DEF TypeOK
    <2>2. held' \in [Proxy -> Status \cup {None}]
        BY <1>3, <1>4, <2>1
    <2>3. phase' \in [Proxy -> Phases]
        BY <1>3, <1>4, <2>1 DEF Phases
    <2>4. /\ pc' \in {"fallback", "answered"}
          /\ answer'.by \in Proxy \cup {None} /\ answer'.status \in Status \cup {None}
        BY <1>3, <1>4, <2>1
    <2> QED
        BY <1>1, <1>2, <1>3, <2>2, <2>3, <2>4 DEF TypeOK, ResortKept
<1>6. phase \in [Proxy -> Phases] /\ \A q \in Proxy : phase[q] = "idle"
    BY <1>1 DEF InFlight, TypeOK
<1>7. InFlight' \subseteq {p} /\ (pc' = "answered" => InFlight' = {})
    BY <1>4, <1>6 DEF InFlight
<1>8. Staged'
    <2>1. \A q \in Proxy : phase'[q] \in {"idle", "buffering"}
        BY <1>4, <1>6
    <2>2. pc' \in {"fallback", "answered"} /\ forced' = None
        BY <1>1, <1>2, <1>4 DEF ResortKept
    <2>3. answer'.kind \notin {"exhausted", "failure"}
        BY <1>1, <1>4
    <2> QED
        BY <1>7, <2>1, <2>2, <2>3 DEF Staged
<1>9. PassedIsTried' /\ WithinBudget'
    BY <1>2, <1>4, RoundKept DEF PassedIsTried, WithinBudget, ResortKept
<1>10. Cardinality(InFlight') <= 1 /\ Cardinality(InFlight') \in Nat
    <2>1. IsFiniteSet({p}) /\ Cardinality({p}) = 1
        BY FS_Singleton
    <2>2. Cardinality(InFlight') <= Cardinality({p})
        BY <1>7, <2>1, FS_Subset
    <2>3. Cardinality(InFlight') \in Nat
        BY FlightFinite DEF InFlight
    <2> QED
        BY <2>1, <2>2, <2>3
<1>11. ParallelWithinLimit'
    BY <1>2, <1>10, RoundKept DEF ParallelWithinLimit, ResortKept
<1>12. ExhaustedMeansTried'
    <2>1. /\ plan' = plan /\ tried' = tried
          /\ Range(fallback') \subseteq Range(fallback) /\ InFlight' \subseteq Range(fallback)
        BY <1>2, <1>3, <1>7 DEF ResortKept
    <2> QED
        BY <1>1, <2>1 DEF ExhaustedMeansTried, Range
<1> QED
    BY <1>5, <1>8, <1>9, <1>11, <1>12 DEF IInv

\* The body a proxy of the last resort failed with is read.
LEMMA FallbackBufferedKeeps ==
    ASSUME IInv, NEW p \in Proxy, FallbackBuffered(p) PROVE IInv'
<1>1. /\ TypeOK /\ pc = "fallback" /\ pc' = pc /\ fallback' = fallback /\ answer' = answer
      /\ phase[p] # "idle" /\ phase' = [phase EXCEPT ![p] = "idle"]
    BY DEF IInv, FallbackBuffered
<1>2. ResortKept
    BY DEF FallbackBuffered, ResortKept, setup, health
<1>3. held' \in [Proxy -> Status \cup {None}] /\ failures' \in [Status -> Nat]
    <2>1. held \in [Proxy -> Status \cup {None}] /\ failures \in [Status -> Nat]
        BY <1>1 DEF TypeOK
    <2>2. held' = [held EXCEPT ![p] = None]
        BY DEF FallbackBuffered
    <2>3. failures' = [failures EXCEPT ![held[p]] = @ + 1]
        BY DEF FallbackBuffered
    <2>4. held[p] \in Status \cup {None}
        BY <2>1
    <2>5. failures' \in [Status -> Nat]
        <3>1. PICK s \in Status \cup {None} : s = held[p]
            BY <2>4
        <3>2. failures' = [failures EXCEPT ![s] = failures[s] + 1]
            BY <2>3, <3>1
        <3>3. CASE s \in Status
            BY <2>1, <3>2, <3>3
        <3>4. CASE s = None
            <4>1. s \notin Status
                BY <3>4, DispatchAssumption
            <4>2. failures' = failures
                BY <2>1, <3>2, <4>1, Zenon
            <4> QED
                BY <2>1, <4>2
        <3> QED
            BY <3>3, <3>4
    <2> QED
        BY <2>1, <2>2, <2>5
<1>4. TypeOK'
    BY <1>1, <1>2, <1>3 DEF TypeOK, ResortKept, Phases
<1>5. phase \in [Proxy -> Phases]
    BY <1>1 DEF TypeOK
<1>6. InFlight' = {q \in Proxy : [phase EXCEPT ![p] = "idle"][q] # "idle"}
    BY <1>1 DEF InFlight
<1>7. /\ InFlight' \subseteq InFlight /\ Cardinality(InFlight') = Cardinality(InFlight) - 1
      /\ Cardinality(InFlight) \in Nat
    BY <1>1, <1>5, <1>6, OneLess, FlightFinite DEF InFlight
<1>8. Staged'
    BY <1>1, <1>2, <1>5 DEF IInv, Staged, ResortKept
<1>9. PassedIsTried' /\ WithinBudget'
    BY <1>1, <1>2, RoundKept DEF PassedIsTried, WithinBudget, ResortKept
<1>10. ParallelWithinLimit'
    BY <1>2, <1>7, RoundKept DEF IInv, ParallelWithinLimit, ResortKept
<1>11. ExhaustedMeansTried'
    BY <1>1, <1>2, <1>7 DEF IInv, ExhaustedMeansTried, ResortKept, Range
<1> QED
    BY <1>4, <1>8, <1>9, <1>10, <1>11 DEF IInv

\* The last resort is at its end.
LEMMA FallbackExhaustedKeeps == IInv /\ FallbackExhausted => IInv'
<1> SUFFICES ASSUME IInv, FallbackExhausted PROVE IInv'
    OBVIOUS
<1>1. /\ TypeOK /\ pc = "fallback" /\ InFlight = {} /\ forced = None
      /\ GiveFinalAnswer /\ phase' = phase /\ fallback' = fallback
      /\ Range(plan) \subseteq tried
    BY DEF IInv, Staged, FallbackExhausted, ExhaustedMeansTried
<1>2. ResortKept
    BY DEF FallbackExhausted, ResortKept, setup, health
<1>3. TypeOK'
    BY <1>1, <1>2, FinalAnswer DEF TypeOK, ResortKept, FallbackExhausted
<1>4. InFlight' = InFlight
    BY <1>1 DEF InFlight
<1>5. Staged' /\ PassedIsTried' /\ WithinBudget'
    BY <1>1, <1>2, <1>4, FinalAnswer, RoundKept
       DEF Staged, PassedIsTried, WithinBudget, ResortKept
<1>6. ParallelWithinLimit'
    BY <1>2, <1>4, RoundKept DEF IInv, ParallelWithinLimit, ResortKept
<1>7. ExhaustedMeansTried'
    BY <1>1, <1>2, <1>4, FinalAnswer DEF ExhaustedMeansTried, ResortKept, Range
<1> QED
    BY <1>3, <1>5, <1>6, <1>7 DEF IInv

-----------------------------------------------------------------------------
(* The client and the others.                                              *)

\* Nothing is left of a request whose client has gone.
LEMMA ClientGoneKeeps == IInv /\ ClientGone => IInv'
<1> SUFFICES ASSUME IInv, ClientGone PROVE IInv'
    OBVIOUS
<1>1. /\ TypeOK /\ pc # "answered" /\ pc' = "gone" /\ plan' = <<>> /\ next' = 1
      /\ tried' = {} /\ fallback' = <<>> /\ attempts' = 0 /\ hardRounds' = 0
      /\ forced' = None /\ route' = route /\ answer' = answer
      /\ phase' = [p \in Proxy |-> "idle"]
    BY DEF IInv, ClientGone, Over, setup
<1>2. answer.kind \notin {"exhausted", "failure"}
    BY <1>1 DEF IInv, Staged
<1>3. TypeOK'
    BY <1>1 DEF TypeOK, ClientGone, setup, health, Phases
<1>4. InFlight' = {}
    BY <1>1 DEF InFlight
<1>5. Cardinality(InFlight') = 0
    BY <1>4, FS_EmptySet
<1>6. Staged' /\ PassedIsTried' /\ ExhaustedMeansTried'
    BY <1>1, <1>2, <1>4 DEF Staged, PassedIsTried, ExhaustedMeansTried
<1>7. route.maxParallel \in Nat \ {0} /\ route.maxAttempts \in Nat
    BY <1>1, Bounds
<1>8. Allowance(hardRounds)' \in Nat
    <2>1. Allowance(hardRounds)' = Allowance(0)
        BY <1>1 DEF Allowance
    <2> QED
        BY <1>1, <2>1, Bounds
<1>9. WithinBudget'
    BY <1>1, <1>7, <1>8 DEF WithinBudget
<1>10. ParallelWithinLimit'
    BY <1>1, <1>5, <1>7 DEF ParallelWithinLimit, Hedged
<1> QED
    BY <1>3, <1>6, <1>9, <1>10 DEF IInv

\* The others change the health of proxies only.
LEMMA ElsewhereKeeps == ASSUME IInv, NEW p \in Proxy, Elsewhere(p) PROVE IInv'
<1>1. TypeOK
    BY DEF IInv
<1>2. /\ route' = route /\ hardRounds' = hardRounds /\ attempts' = attempts
      /\ plan' = plan /\ next' = next /\ tried' = tried /\ forced' = forced
      /\ pc' = pc /\ phase' = phase /\ answer' = answer /\ fallback' = fallback
    BY DEF Elsewhere, setup
<1>3. elsewhere' \in 0..MaxElsewhere
    BY <1>1, DispatchAssumption DEF Elsewhere, TypeOK
<1>4. TypeOK'
    <2>1. PICK b \in BOOLEAN, f \in BOOLEAN, n \in {0, FailStreak} :
            /\ banned' = [banned EXCEPT ![p] = b]
            /\ fatal' = [fatal EXCEPT ![p] = f]
            /\ fails' = [fails EXCEPT ![p] = n]
        BY DEF Elsewhere
    <2>2. n \in 0..FailStreak
        BY HealthAssumption
    <2>3. HealthTyped
        BY <1>1, <2>1, <2>2 DEF TypeOK, HealthTyped
    <2> QED
        BY <1>1, <1>2, <1>3, <2>3 DEF TypeOK, HealthTyped, Elsewhere
<1>5. InFlight' = InFlight
    BY <1>2 DEF InFlight
<1>6. Staged' /\ PassedIsTried' /\ WithinBudget'
    BY <1>2, <1>5 DEF IInv, Staged, PassedIsTried, WithinBudget, Allowance, Hedged
<1>7. ParallelWithinLimit' /\ ExhaustedMeansTried'
    BY <1>2, <1>5 DEF IInv, ParallelWithinLimit, ExhaustedMeansTried, Hedged, Range
<1> QED
    BY <1>4, <1>6, <1>7 DEF IInv

-----------------------------------------------------------------------------
\* The invariant is kept by every step.
LEMMA StepKeeps == IInv /\ [Next]_vars => IInv'
<1> SUFFICES ASSUME IInv, [Next]_vars PROVE IInv'
    OBVIOUS
<1>1. CASE Prompt
    <2>1. AnotherRound(FALSE) \/ AnotherRound(TRUE) => IInv'
        BY AnotherRoundKeeps
    <2>2. \A p \in Proxy : Attempt(p) => IInv'
        BY AttemptKeeps
    <2> QED
        BY <1>1, <2>1, <2>2, MakePlanKeeps, NextCandidateKeeps, StartHedgeKeeps,
           HedgeTimerKeeps, TryFatalKeeps, ReturnErrorKeeps, TryFallbackKeeps,
           FallbackExhaustedKeeps
           DEF Prompt, WaitProbe, RetryAll
<1>2. CASE BodyEnds
    BY <1>2, AttemptKeeps, FallbackBufferedKeeps DEF BodyEnds
<1>3. CASE ClientGone
    BY <1>3, ClientGoneKeeps
<1>4. CASE \E p \in Proxy : Elsewhere(p)
    BY <1>4, ElsewhereKeeps
<1>5. CASE UNCHANGED vars
    BY <1>5
       DEF vars, setup, health, IInv, TypeOK, Staged, PassedIsTried, WithinBudget,
           ParallelWithinLimit, ExhaustedMeansTried, Allowance, Hedged, InFlight, Range
<1> QED
    BY <1>1, <1>2, <1>3, <1>4, <1>5 DEF Next

\* The inductive invariant holds of every behaviour of a request.
THEOREM Inductive == Spec => []IInv
<1>1. IInv /\ [Next]_vars => IInv'
    BY StepKeeps
<1> QED
    BY <1>1, Initially, PTL DEF Spec

\* dispatch/mod.rs keeps its locals well formed: plan, cursor, responses and
\* counters have their types.
THEOREM TypeCorrect == Spec => []TypeOK
<1>1. IInv => TypeOK
    BY DEF IInv
<1> QED
    BY <1>1, Inductive, PTL

\* dispatch_hedged never runs more attempts than max_parallel, dispatch_sequential
\* never more than one.
THEOREM ParallelBounded == Spec => []ParallelWithinLimit
<1>1. IInv => ParallelWithinLimit
    BY DEF IInv
<1> QED
    BY <1>1, Inductive, PTL

\* max_attempts bounds what run starts in all its rounds together.
THEOREM AttemptsBounded == Spec => []AttemptBudget
<1>1. IInv => AttemptBudget
    <2> SUFFICES ASSUME IInv PROVE AttemptBudget
        OBVIOUS
    <2>1. TypeOK /\ hardRounds \in Nat
        BY DEF IInv, TypeOK
    <2>2. attempts <= Allowance(hardRounds) + route.maxAttempts + 1
        BY DEF IInv, WithinBudget
    <2>3. Allowance(hardRounds + 1) = Allowance(hardRounds) + route.maxAttempts
        BY <2>1, Bounds
    <2>4. attempts <= Allowance(hardRounds + 1) + 1
        BY <2>2, <2>3
    <2> QED
        BY <2>4 DEF AttemptBudget, Allowance
<1> QED
    BY <1>1, Inductive, PTL

\* run reaches on_exhausted, the last resort and the final failure only when the
\* whole plan was tried, and repeats none of it in the last resort.
THEOREM ExhaustionIsTrue == Spec => []ExhaustedMeansTried
<1>1. IInv => ExhaustedMeansTried
    BY DEF IInv
<1> QED
    BY <1>1, Inductive, PTL

\* The health of a proxy changes by an attempt that waits for its response or its
\* delay, and by nothing else of the request: no loser of a race, no request that
\* is over and no last resort records anything.
THEOREM OnlyRunningAttemptsRecord == Spec => RecordsOnlyWhileRunning
<1> DEFINE Recording ==
        elsewhere' = elsewhere =>
            \A p \in Proxy :
                <<banned[p], fatal[p], fails[p]>>' # <<banned[p], fatal[p], fails[p]>> =>
                    ~Over /\ phase[p] \in {"sending", "capturing", "sleeping"}
<1>1. ASSUME IInv, NEW q \in Proxy, Attempt(q) PROVE Recording
    <2>1. UNCHANGED health \/ phase[q] \in {"sending", "capturing", "sleeping"}
        BY <1>1
           DEF Attempt, NoResponse, HeadArrives, CaptureBroken, Judged, VerdictSuccess,
               VerdictGiveUp, VerdictRetryOther, VerdictHardFail, VerdictRetrySame,
               Buffered, DelayOver, RecordNothing
    <2>2. \A p \in Proxy \ {q} :
             banned'[p] = banned[p] /\ fatal'[p] = fatal[p] /\ fails'[p] = fails[p]
        <3>1. TypeOK
            BY <1>1 DEF IInv
        <3>2. \/ RecordSuccess(q) \/ RecordNothing
              \/ \E ban, globalFatal : RecordFailure(q, ban, globalFatal)
            BY <1>1
               DEF Attempt, NoResponse, HeadArrives, CaptureBroken, VerdictSuccess,
                   VerdictGiveUp, VerdictRetryOther, VerdictHardFail, VerdictRetrySame,
                   Buffered, DelayOver
        <3> QED
            BY <3>1, <3>2 DEF TypeOK, RecordSuccess, RecordNothing, RecordFailure, health
    <2>3. phase[q] # "idle" => ~Over
        BY <1>1 DEF IInv, Staged, InFlight, Over
    <2> QED
        BY <2>1, <2>2, <2>3 DEF health
<1>2. ASSUME NEW q \in Proxy, IInv, Elsewhere(q) PROVE elsewhere' # elsewhere
    BY <1>2 DEF Elsewhere, IInv, TypeOK
<1>3. ASSUME UNCHANGED health PROVE Recording
    BY <1>3 DEF health
<1>4. IInv /\ [Next]_vars => [Recording]_vars
    <2> SUFFICES ASSUME IInv, Next PROVE Recording
        BY DEF vars
    <2>1. CASE \E p \in Proxy : Attempt(p)
        BY <1>1, <2>1
    <2>2. CASE \E p \in Proxy : Elsewhere(p)
        BY <1>2, <2>2
    <2>3. CASE UNCHANGED health
        BY <1>3, <2>3
    <2>4. \/ \E p \in Proxy : Attempt(p)
          \/ \E p \in Proxy : Elsewhere(p)
          \/ UNCHANGED health
        BY DEF Next, Prompt, BodyEnds, MakePlan, NextCandidate, StartHedge, HedgeTimer,
               TryFatal, WaitProbe, RetryAll, AnotherRound, ReturnError, TryFallback,
               FallbackBuffered, FallbackExhausted, ClientGone
    <2> QED
        BY <2>1, <2>2, <2>3, <2>4
<1> QED
    BY <1>4, Inductive, PTL DEF Spec, RecordsOnlyWhileRunning
=============================================================================
