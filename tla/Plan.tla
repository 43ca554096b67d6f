-------------------------------- MODULE Plan --------------------------------
(***************************************************************************)
(* How a route turns the proxy list into the ordered list of proxies one   *)
(* request will try (build_plan, order) and into the last-resort list      *)
(* (fallback_pool).  intermediate-proxy/src/route/state.rs.                *)
(*                                                                         *)
(* A view is what the code reads of every proxy at the moment it plans:    *)
(*   [tags : Proxy -> SUBSET Tag, tier : Proxy -> Tiers,                   *)
(*    latency : Proxy -> Nat]                                              *)
(* A route record has the fields of RouteDef the plan depends on:          *)
(*   [poolAll, poolAny, prefer, exclude : SUBSET Tag, selector,            *)
(*    preferNonReserve : BOOLEAN, maxAttempts : Nat \ {0}]                 *)
(* The pool tags of a request may be overridden, so they are parameters.   *)
(***************************************************************************)
EXTENDS Health, Sequences, SequencesExt, FiniteSets

CONSTANTS
    Snapshot        \* the proxy list, in file order

\* parse_proxies keeps one entry per url.
ASSUME PlanAssumption ==
    /\ Snapshot \in Seq(Range(Snapshot))
    /\ \A i, j \in DOMAIN Snapshot : Snapshot[i] = Snapshot[j] => i = j

Proxy == Range(Snapshot)

Selectors == {"best_latency", "hedge", "random", "round_robin", "sticky_by_header"}

-----------------------------------------------------------------------------
TagMatch(tags, all, any) ==
    /\ all \subseteq tags
    /\ any # {} => any \cap tags # {}

IsExcluded(tags, exclude) == exclude \cap tags # {}

IsReserve(tags) == "reserve" \in tags

\* The tags of the route admit the proxy.
Eligible(route, all, any, tags) ==
    ~IsExcluded(tags, route.exclude) /\ TagMatch(tags, all, any)

IsDown(tier) == tier \in {Banned, Fatal}

-----------------------------------------------------------------------------
(* Lists here have no duplicates.  Sorting is described by its result: the  *)
(* set of the lists it can leave, which has exactly one member.            *)

\* p comes before q in the list.
Precedes(s, p, q) == \E m, n \in DOMAIN s : m < n /\ s[m] = p /\ s[n] = q

\* The elements of the list that are in S, in its order.
Filter(s, S) ==
    {t \in SetToSeqs(Range(s) \cap S) :
        \A m, n \in DOMAIN t : m < n => Precedes(s, t[m], t[n])}

\* slice::sort_by_key: ascending by key, equal keys keep their order.
StableSort(s, key) ==
    {t \in SetToSeqs(Range(s)) :
        \A m, n \in DOMAIN t : m < n =>
            \/ key[t[m]] < key[t[n]]
            \/ key[t[m]] = key[t[n]] /\ Precedes(s, t[m], t[n])}

SortEach(lists, key) == UNION {StableSort(s, key) : s \in lists}

\* Mutant of RotateLeft: clamps at the end instead of wrapping around.
RotateLeftClamped(s, k) == [i \in DOMAIN s |-> s[IF i + k > Len(s) THEN Len(s) ELSE i + k]]

RotateLeft(s, k) == [i \in DOMAIN s |-> s[((i - 1 + k) % Len(s)) + 1]]

\* false < true
Rank(b) == IF b THEN 1 ELSE 0

\* An unmeasured proxy sorts as if it answered in 1 ms.
LatKey(latency) == IF latency = 0 THEN 1 ELSE latency
LatencyKeys(view) == [p \in Proxy |-> LatKey(view.latency[p])]

\* Mutant of ByTierAndLatency: the two keys swapped.
ByLatencyAndTier(view, lists) == SortEach(SortEach(lists, view.tier), LatencyKeys(view))

\* Sorted by tier, within a tier by latency.
ByTierAndLatency(view, lists) == SortEach(SortEach(lists, LatencyKeys(view)), view.tier)

\* The orders the selector can produce.  One, except for random: a shuffle and
\* a stable sort by tier.  turn is the route's round-robin cursor, hash what the
\* sticky header's value hashes to; a list of one is never rotated.
Orders(route, view, live, turn, hash) ==
    LET ranked == ByTierAndLatency(view, Filter(Snapshot, live))
        n == Cardinality(live)
    IN  CASE route.selector = "random" -> SortEach(SetToSeqs(live), view.tier)
          [] route.selector = "round_robin" /\ n > 1 ->
               {RotateLeft(s, turn % n) : s \in ranked}
          [] route.selector = "sticky_by_header" /\ n > 1 ->
               {RotateLeft(s, hash % n) : s \in ranked}
          [] OTHER -> ranked

\* The proxies the plan is made of.
Live(route, all, any, view) ==
    {p \in Proxy : Eligible(route, all, any, view.tags[p]) /\ ~IsDown(view.tier[p])}

\* Sort keys of the last two sorts: reserve proxies behind, preferred in front.
ReserveKeys(view) == [p \in Proxy |-> Rank(IsReserve(view.tags[p]))]
PreferKeys(route, view) == [p \in Proxy |-> Rank(route.prefer \cap view.tags[p] = {})]

ReserveLast(route, view, lists) ==
    IF route.preferNonReserve THEN SortEach(lists, ReserveKeys(view)) ELSE lists

PreferredFirst(route, view, lists) ==
    IF route.prefer = {} THEN lists ELSE SortEach(lists, PreferKeys(route, view))

\* live.truncate(max_attempts)
Truncate(route, lists) ==
    {SubSeq(s, 1, IF Len(s) < route.maxAttempts THEN Len(s) ELSE route.maxAttempts) :
        s \in lists}

\* Mutant of Arrange: cuts to max_attempts before it sorts reserves back.
ArrangeCutFirst(route, view, lists) ==
    PreferredFirst(route, view, ReserveLast(route, view, Truncate(route, lists)))

\* Reserve proxies last if the route says so, then preferred ones first, then
\* the cut to max_attempts.
Arrange(route, view, lists) ==
    Truncate(route, PreferredFirst(route, view, ReserveLast(route, view, lists)))

\* build_plan: the plans a request can be given.
BuildPlans(route, all, any, view, turn, hash) ==
    Arrange(route, view, Orders(route, view, Live(route, all, any, view), turn, hash))

\* Mutant of NextTurn: the cursor stays.
NextTurnStuck(route, all, any, view, turn) == turn

\* The round-robin cursor moves only when there is something to rotate.
NextTurn(route, all, any, view, turn) ==
    IF route.selector = "round_robin" /\ Cardinality(Live(route, all, any, view)) > 1
    THEN turn + 1 ELSE turn

\* The proxies of the fallback pool.
LastResort(route, all, any, view, tried) ==
    {p \in Proxy \ tried : Eligible(route, all, any, view.tags[p]) /\ IsDown(view.tier[p])}

\* Mutant of FallbackPool: an unmeasured proxy counts as the fastest.
FallbackPoolUnmeasuredFirst(route, all, any, view, tried) ==
    SortEach(Filter(Snapshot, LastResort(route, all, any, view, tried)), view.latency)

\* fallback_pool: the banned and fatal proxies not tried yet, fastest first and
\* the unmeasured ones last.
FallbackPool(route, all, any, view, tried) ==
    SortEach(Filter(Snapshot, LastResort(route, all, any, view, tried)),
             [p \in Proxy |-> IF view.latency[p] = 0 THEN Forever ELSE view.latency[p]])
=============================================================================
