---------------------------- MODULE MCHealthPlans ----------------------------
(***************************************************************************)
(* The health of a (route, proxy) pair and the plans that requests make    *)
(* from where proxies stand, checked in one run: a behaviour is one of     *)
(* RouteHealth or one of Selection, chosen at the start, and the other     *)
(* does not move.  So their states add up instead of multiplying.          *)
(***************************************************************************)
EXTENDS MCSelection, MCRouteHealth

VARIABLE part

HealthPlansInit ==
    /\ part \in {"health", "plans"}
    /\ Init /\ PairInit
    /\ part = "health" => route = CHOOSE r \in Route : TRUE
    /\ part = "health" => view = [tags |-> [p \in Proxy |-> {}],
                                  tier |-> [p \in Proxy |-> Healthy],
                                  latency |-> [p \in Proxy |-> 0]]

HealthPlansNext ==
    \/ part = "health" /\ PairNext /\ UNCHANGED <<part, vars>>
    \/ part = "plans" /\ Next /\ UNCHANGED <<part, pairVars>>

HealthPlansSpec == HealthPlansInit /\ [][HealthPlansNext]_<<part, vars, pairVars>>
=============================================================================
