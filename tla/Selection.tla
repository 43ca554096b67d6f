----------------------------- MODULE Selection ------------------------------
(***************************************************************************)
(* One route planning one request after the other while the health and the *)
(* tags of the proxies change between them (Plan says what a plan is).     *)
(***************************************************************************)
EXTENDS Plan

CONSTANTS
    Route,          \* the route definitions considered
    TagSet,         \* the tag lists a line of the proxy file can carry
    Standing,       \* the <<tier, latency>> a proxy can be seen with
    Hash,           \* what sticky header values hash to
    MaxTurn         \* plans after which the round-robin cursor is not followed

ASSUME SelectionAssumption ==
    /\ \A r \in Route : r.maxAttempts \in Nat \ {0} /\ r.selector \in Selectors
    /\ Standing \subseteq Tiers \X Nat
    \* no average of response times comes near u64::MAX milliseconds
    /\ \A at \in Standing : at[2] < Forever
    /\ Hash \subseteq Nat
    /\ MaxTurn \in Nat

VARIABLES
    route,          \* the route
    view,           \* tags, tier and latency of every proxy
    turn,           \* RouteDef.cursor
    planned,        \* has a request been planned on this view
    plan,           \* its plan
    firsts          \* history: first proxies of the last plans on this view

vars == <<route, view, turn, planned, plan, firsts>>

-----------------------------------------------------------------------------
LiveSet == Live(route, route.poolAll, route.poolAny, view)

Init ==
    /\ route \in Route
    /\ \E tags \in [Proxy -> TagSet], at \in Standing :
         view = [tags |-> tags,
                 tier |-> [p \in Proxy |-> at[1]],
                 latency |-> [p \in Proxy |-> at[2]]]
    /\ turn = 0
    /\ planned = FALSE
    /\ plan = <<>>
    /\ firsts = <<>>

\* A request is planned.
Request ==
    /\ turn < MaxTurn
    /\ \E hash \in Hash :
         plan' \in BuildPlans(route, route.poolAll, route.poolAny, view, turn, hash)
    /\ turn' = NextTurn(route, route.poolAll, route.poolAny, view, turn)
    /\ planned' = TRUE
    /\ firsts' = IF plan' = <<>> THEN <<>>
                 ELSE LET all == Append(firsts, Head(plan'))
                          n == Cardinality(LiveSet)
                      IN  SubSeq(all, IF Len(all) > n THEN Len(all) - n + 1 ELSE 1, Len(all))
    /\ UNCHANGED <<route, view>>

Forget == planned' = FALSE /\ plan' = <<>> /\ firsts' = <<>> /\ UNCHANGED <<route, turn>>

\* A response, a ban, its expiry or a probe changes where a proxy stands.
Observe(p) ==
    /\ \E at \in Standing :
         view' = [view EXCEPT !.tier[p] = at[1], !.latency[p] = at[2]]
    /\ Forget

\* A reload of the proxy file gives a live proxy other tags (Entry.set_tags).
SetTags(p) ==
    /\ \E tags \in TagSet : view' = [view EXCEPT !.tags[p] = tags]
    /\ Forget

Next == Request \/ \E p \in Proxy : Observe(p) \/ SetTags(p)

Spec == Init /\ [][Next]_vars

-----------------------------------------------------------------------------
InPlan == Range(plan)
ReserveOf(p) == IsReserve(view.tags[p])
Preferred(p) == route.prefer \cap view.tags[p] # {}

\* The proxies of the same standing with the tags: selector order decides.
SameGroup(p, q) ==
    /\ Preferred(p) <=> Preferred(q)
    /\ route.preferNonReserve => (ReserveOf(p) <=> ReserveOf(q))

TypeOK ==
    /\ route \in Route
    /\ view \in [tags : [Proxy -> TagSet], tier : [Proxy -> Tiers],
                 latency : [Proxy -> Nat]]
    /\ turn \in 0..MaxTurn
    /\ planned \in BOOLEAN
    /\ plan \in Seq(Proxy) /\ firsts \in Seq(Proxy)

\* Sorting, rotating and floating lose no proxy and double none: the plan is
\* as long as the live pool and max_attempts allow, of distinct live proxies.
PlanIsFull ==
    planned =>
        /\ InPlan \subseteq LiveSet
        /\ Cardinality(InPlan) = Len(plan)
        /\ Len(plan) = route.maxAttempts \/ InPlan = LiveSet

\* Within a group of proxies with the same claim on the front, the selectors
\* that rank never put a worse tier before a better one, nor drop the better
\* one from the plan to keep the worse.
BetterTierFirst ==
    (planned /\ route.selector \in {"best_latency", "hedge", "random"}) =>
        \A p, q \in LiveSet :
            (SameGroup(p, q) /\ view.tier[p] < view.tier[q] /\ q \in InPlan) =>
                \E i, j \in DOMAIN plan : plan[i] = p /\ plan[j] = q /\ i < j

\* prefer_non_reserve: whatever the selector did, a reserve proxy is planned
\* only after every live proxy that is no reserve, unless it is preferred.
ReserveAfterAllOthers ==
    (planned /\ route.preferNonReserve) =>
        \A p, q \in LiveSet :
            (~ReserveOf(p) /\ ReserveOf(q) /\ ~Preferred(q) /\ q \in InPlan) =>
                \E i, j \in DOMAIN plan : plan[i] = p /\ plan[j] = q /\ i < j

\* Round robin: while nothing changes and no tag reorders the list, as many
\* requests in a row as there are live proxies start on different proxies.
RoundRobinIsFair ==
    (/\ route.selector = "round_robin"
     /\ route.preferNonReserve => \A p \in LiveSet : ~ReserveOf(p)
     /\ \A p, q \in LiveSet : Preferred(p) <=> Preferred(q))
    => Cardinality(Range(firsts)) = Len(firsts)

\* The last resort covers exactly what the plan cannot: an eligible proxy is
\* live or in the fallback pool, never both, and measured ones come first.
FallbackIsTheRest ==
    LET eligible == {p \in Proxy : Eligible(route, route.poolAll, route.poolAny, view.tags[p])}
    IN  \A fallback \in FallbackPool(route, route.poolAll, route.poolAny, view, {}) :
          /\ Range(fallback) = eligible \ LiveSet
          /\ \A i, j \in DOMAIN fallback :
                (i < j /\ view.latency[fallback[i]] = 0) => view.latency[fallback[j]] = 0
=============================================================================
