--------------------------- MODULE MCRouteHealth ----------------------------
(* Instance of RouteHealth for TLC: two tasks, three operations.           *)
EXTENDS RouteHealth, TLC

CONSTANTS w1, w2

WorkerSym == Permutations(Worker)
=============================================================================
