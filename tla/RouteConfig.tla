----------------------------- MODULE RouteConfig -----------------------------
(***************************************************************************)
(* What the service makes of the table routes.lua returns                  *)
(* (intermediate-proxy/src/route/config.rs).  Lists of tags are sets;      *)
(* names, urls and headers are left out.                                   *)
(***************************************************************************)
EXTENDS Matcher, Integers

CONSTANTS
    U16, U32,       \* the number of values of a u16 and of a u32
    BadRegex,       \* a text that is no regular expression
    NoProbe

ASSUME RouteConfigAssumption == U16 \in Nat \ {0} /\ U32 \in Nat \ {0}

SelectorNames == {"best_latency", "round_robin", "random", "hedge", "sticky_by_header"}

\* The table without a key.
NoKeys == [k \in {} |-> k]

Get(t, k, default) == IF k \in DOMAIN t THEN t[k] ELSE default

\* get_u64, get_usize: Lua numbers are cast, which saturates below.
Number(t, k, default) == IF Get(t, k, default) < 0 THEN 0 ELSE Get(t, k, default)

\* The numbers of a table of settings.
HasNumbers(t) ==
    /\ \A k \in {"max_attempts", "timeout_ms", "slow_ms", "fail_streak",
                "attempt_backoff_ms", "capture_body_bytes", "default_ban_ms"} \cap DOMAIN t :
          t[k] \in Int
    /\ "hedge" \in DOMAIN t =>
          \A k \in {"max_parallel", "delay_ms"} \cap DOMAIN t.hedge : t.hedge[k] \in Int

AtLeastOne(n) == IF n = 0 THEN 1 ELSE n

-----------------------------------------------------------------------------
\* Mutant of Hedge: the lower bound is forgotten.
HedgeUnbounded(t, default) ==
    IF "hedge" \in DOMAIN t
    THEN [max_parallel |-> Number(t.hedge, "max_parallel", default.max_parallel),
          delay_ms |-> Number(t.hedge, "delay_ms", default.delay_ms)]
    ELSE default

\* parse_hedge: field by field.
Hedge(t, default) ==
    IF "hedge" \in DOMAIN t
    THEN [max_parallel |->
              AtLeastOne(Number(t.hedge, "max_parallel", default.max_parallel)),
          delay_ms |-> Number(t.hedge, "delay_ms", default.delay_ms)]
    ELSE default

\* parse_selector: an unknown name is no name.
Selector(t, default) ==
    IF Get(t, "selector", "") \in SelectorNames THEN t.selector ELSE default

\* The settings that a route has of its own or from the defaults.
Settings(t, default) ==
    [max_attempts |-> AtLeastOne(Number(t, "max_attempts", default.max_attempts)),
     timeout_ms |-> Number(t, "timeout_ms", default.timeout_ms),
     slow_ms |-> Number(t, "slow_ms", default.slow_ms),
     fail_streak |-> Number(t, "fail_streak", default.fail_streak) % U32,
     attempt_backoff_ms |-> Number(t, "attempt_backoff_ms", default.attempt_backoff_ms),
     capture_body_bytes |-> Number(t, "capture_body_bytes", default.capture_body_bytes),
     default_ban_ms |-> Number(t, "default_ban_ms", default.default_ban_ms),
     prefer_non_reserve |-> Get(t, "prefer_non_reserve", default.prefer_non_reserve),
     prefer_tags |-> Get(t, "prefer_tags", default.prefer_tags),
     exclude_tags |-> Get(t, "exclude_tags", default.exclude_tags),
     selector |-> Selector(t, default.selector),
     hedge |-> Hedge(t, default.hedge)]

\* The literals of parse_defaults.
Literals ==
    [max_attempts |-> 5, timeout_ms |-> 10000, slow_ms |-> 3000, fail_streak |-> 2,
     attempt_backoff_ms |-> 0, capture_body_bytes |-> 0, default_ban_ms |-> 300000,
     prefer_non_reserve |-> TRUE, prefer_tags |-> {}, exclude_tags |-> {},
     selector |-> "best_latency", hedge |-> [max_parallel |-> 4, delay_ms |-> 700]]

\* parse_defaults, with or without a table of defaults.
Defaults(c) == Settings(Get(c, "defaults", NoKeys), Literals)

\* parse_probe: there is none without a url.
Probe(t) ==
    IF "probe" \in DOMAIN t /\ "url" \in DOMAIN t.probe
    THEN [interval_ms |-> Number(t.probe, "interval_ms", 600000),
          ok_statuses |-> {n % U16 : n \in Get(t.probe, "ok_statuses", {200})},
          has_classify |-> "classify" \in DOMAIN t.probe]
    ELSE NoProbe

\* RouteDef of the i-th route: its id is its place.
ParseRoute(t, i, defaults) ==
    LET pool == Get(t, "pool", NoKeys) IN
    [id |-> i, matcher |-> ParseMatcher(t.match),
     pool_all_tags |-> Get(pool, "tags", {}), pool_any_tags |-> Get(pool, "any_tags", {}),
     settings |-> Settings(t, defaults),
     hooks |-> {"on_request", "on_response", "on_exhausted"} \cap DOMAIN t,
     probe |-> Probe(t)]

-----------------------------------------------------------------------------
\* Every route has a match table, and its regular expressions are such.
IsConfig(c) ==
    /\ "routes" \in DOMAIN c /\ c.routes # <<>>
    /\ \A i \in DOMAIN c.routes :
          /\ "match" \in DOMAIN c.routes[i]
          /\ Get(c.routes[i].match, "host_regex", {}) # BadRegex
          /\ Get(c.routes[i].match, "path_regex", {}) # BadRegex

\* parse_router_config of a table that is a configuration.
ParseRouterConfig(c) ==
    [i \in DOMAIN c.routes |-> ParseRoute(c.routes[i], i, Defaults(c))]

\* RouterConfig.candidates: the routes whose static matcher accepts x.
Candidates(routes, x) == {i \in DOMAIN routes : MatchesStatic(routes[i].matcher, x)}
=============================================================================
