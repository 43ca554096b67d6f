----------------------------- MODULE MCDispatch -----------------------------
(* Instances of Dispatch for TLC.                                          *)
EXTENDS Dispatch

Def(selector, max, maxParallel, capture, hook) ==
    [poolAll |-> {}, poolAny |-> {}, prefer |-> {}, exclude |-> {"ipv6"},
     selector |-> selector, preferNonReserve |-> TRUE, maxAttempts |-> max,
     capture |-> capture, hook |-> hook, maxParallel |-> maxParallel]

MCSnapshot == <<"a", "b", "c">>

MCTags == [p \in Range(MCSnapshot) |-> CASE p = "a" -> {"anon"} [] p = "b" -> {"reserve", "anon"} [] OTHER -> {}]

\* Both sequential selectors that rotate or rank, streaming without a hook and
\* capturing for one, and a hedged plan of three with two attempts in parallel.
Routes ==
    {Def("best_latency", 2, 1, FALSE, FALSE), Def("round_robin", 2, 1, TRUE, TRUE),
     Def("hedge", 3, 2, FALSE, TRUE)}
=============================================================================
