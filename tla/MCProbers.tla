----------------------------- MODULE MCProbers ------------------------------
(* Instances of Probers for TLC.                                           *)
EXTENDS Probers, TLC

CONSTANTS p1, p2, r1, t1, t2

OneRoutePairs == << <<r1, p1>>, <<r1, p2>> >>

TwoProxies == <<p1, p2>>

TaskSym == Permutations(Task)
=============================================================================
