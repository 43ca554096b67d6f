---------------------------- MODULE MCSelection -----------------------------
(* Instance of Selection for TLC: three proxies, one route per selector.   *)
EXTENDS Selection

Def(selector, prefer, exclude, nonReserve, max) ==
    [poolAll |-> {}, poolAny |-> {}, prefer |-> prefer, exclude |-> exclude,
     selector |-> selector, preferNonReserve |-> nonReserve, maxAttempts |-> max]

MCRoute ==
    { Def("best_latency", {}, {}, TRUE, 2),
      Def("random", {"ipv6"}, {}, TRUE, 3),
      Def("hedge", {}, {"ipv6"}, FALSE, 2),
      [Def("hedge", {}, {}, TRUE, 3) EXCEPT !.poolAny = {"ipv6", "anon"}],
      Def("round_robin", {}, {}, TRUE, 3),
      Def("round_robin", {"ipv6"}, {}, FALSE, 2),
      Def("sticky_by_header", {}, {}, TRUE, 2) }

MCSnapshot == <<"a", "b", "c">>

MCTagSet == {{}, {"reserve"}, {"ipv6"}}

MCStanding == {<<Healthy, 0>>, <<Healthy, 2>>, <<Failed, 1>>, <<Banned, 0>>, <<Fatal, 1>>}
=============================================================================
