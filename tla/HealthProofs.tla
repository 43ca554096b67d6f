---------------------------- MODULE HealthProofs ----------------------------
(***************************************************************************)
(* Proofs about the two modules that build on Health.                      *)
(*                                                                         *)
(* Probers, for any routes, proxies and permits: types, the conservation   *)
(* of permits, the bound on probes in flight and that on their number over *)
(* time.                                                                   *)
(*                                                                         *)
(* RouteHealth, for any number of tasks, any latencies and ban             *)
(* lengths, and any interleaving of their accesses.                        *)
(***************************************************************************)
EXTENDS Probers, RouteHealth, SequenceTheorems, FiniteSetTheorems, TLAPS

-----------------------------------------------------------------------------
(* Probers.                                                                *)

\* The tasks that f keeps busy; RouteProbes and FatalProbes are such sets.
Busy(f) == {t \in Task : f[t] # None}

\* What was launched for a pair, and what is about to be, is paid for by its
\* last stamp.
Paid ==
    \A rp \in RoutePair :
        spent[rp] + (IF routeWants = rp THEN Interval ELSE 0) <= lastProbe[rp] + Interval

IInv == TypeOK /\ PermitsAreConserved /\ Paid

-----------------------------------------------------------------------------
(* Handing a probe to a free task, and its end, change the number of busy  *)
(* tasks by one.                                                           *)

\* The busy tasks are finitely many: a task set is finite.
LEMMA BusyIsFinite ==
    ASSUME NEW f
    PROVE  IsFiniteSet(Busy(f)) /\ Cardinality(Busy(f)) \in Nat
<1>1. IsFiniteSet(Task)
    BY ProbersAssumption
<1>2. Busy(f) \subseteq Task
    BY DEF Busy
<1>3. IsFiniteSet(Busy(f))
    BY <1>1, <1>2, FS_Subset
<1> QED
    BY <1>3, FS_CardinalityType

\* A probe handed to a free task makes one more busy task.
LEMMA TaskStarts ==
    ASSUME NEW S, NEW f \in [Task -> S], NEW t \in Task \ Busy(f), NEW x, x # None
    PROVE  Cardinality(Busy([f EXCEPT ![t] = x])) = Cardinality(Busy(f)) + 1
<1>1. Busy([f EXCEPT ![t] = x]) = Busy(f) \cup {t}
    BY DEF Busy
<1>2. t \notin Busy(f)
    OBVIOUS
<1> QED
    BY <1>1, <1>2, BusyIsFinite, FS_AddElement

\* The end of a probe makes one busy task less.
LEMMA TaskEnds ==
    ASSUME NEW S, NEW f \in [Task -> S], NEW t \in Task, f[t] # None
    PROVE  Cardinality(Busy([f EXCEPT ![t] = None])) = Cardinality(Busy(f)) - 1
<1>1. Busy([f EXCEPT ![t] = None]) = Busy(f) \ {t}
    BY DEF Busy
<1>2. t \in Busy(f)
    BY DEF Busy
<1> QED
    BY <1>1, <1>2, BusyIsFinite, FS_RemoveElement

-----------------------------------------------------------------------------
\* Initially every permit is free and no task runs.
LEMMA InitIInv == Init => IInv
<1> SUFFICES ASSUME Init PROVE IInv
    OBVIOUS
<1> USE ProbersAssumption, HealthAssumption
<1>1. TypeOK
    BY DEF Init, TypeOK, LongAgo
<1>2. RouteProbes = {} /\ FatalProbes = {}
    BY DEF Init, RouteProbes, FatalProbes
<1>3. Cardinality(RouteProbes) = 0 /\ Cardinality(FatalProbes) = 0
    BY <1>2, FS_EmptySet
<1>4. PermitsAreConserved
    BY <1>3 DEF Init, PermitsAreConserved
<1>5. Paid
    BY DEF Init, Paid, LongAgo, RoutePair
<1> QED
    BY <1>1, <1>4, <1>5 DEF IInv

-----------------------------------------------------------------------------
(* Types.  A step keeps the permits natural numbers because it takes one   *)
(* only when one is free.                                                  *)

\* What the actions of the environment assign has the type of the field.
LEMMA ForeverIsNat ==
    /\ Forever \in Nat
    /\ \A t \in Nat : BanExpiry(t, BanMs) \in Nat
BY ProbersAssumption, HealthAssumption DEF BanExpiry

\* The route prober keeps the types: the clock of the tick is never ahead of
\* the clock, and no stamp is ahead of the clock of the tick.
LEMMA RouteProberType == TypeOK /\ RouteProber => TypeOK'
<1> SUFFICES ASSUME TypeOK, RouteProber PROVE TypeOK'
    OBVIOUS
<1> USE ProbersAssumption DEF TypeOK, LongAgo
<1>1. CASE RouteSleep
    BY <1>1 DEF RouteSleep, state, fatalLoop, world
<1>2. CASE RouteTick
    BY <1>2 DEF RouteTick, RoutePair, state, fatalLoop, world
<1>3. CASE LookAtPair
    <2>1. routeWalk' \in Seq(RoutePair) /\ Head(routeWalk) \in RoutePair
        BY <1>3, HeadTailProperties DEF LookAtPair
    <2>2. lastProbe' \in [RoutePair -> LongAgo..tickNow]
        <3>1. tickNow \in LongAgo..tickNow
            OBVIOUS
        <3> HIDE DEF LongAgo
        <3> QED
            BY <1>3, <2>1, <3>1 DEF LookAtPair
    <2>3. routeWants' \in RoutePair \cup {None}
        BY <1>3, <2>1 DEF LookAtPair
    <2> QED
        BY <1>3, <2>1, <2>2, <2>3 DEF LookAtPair, state, fatalLoop, world
<1>4. CASE LaunchRouteProbe
    <2>1. routeWants \in RoutePair /\ spent[routeWants] + Interval \in Nat
        BY <1>4 DEF LaunchRouteProbe
    <2>2. spent' \in [RoutePair -> Nat]
        BY <1>4, <2>1 DEF LaunchRouteProbe
    <2>3. routePermits' \in Nat
        BY <1>4 DEF LaunchRouteProbe
    <2>4. routeProbe' \in [Task -> RoutePair \cup {None}]
        BY <1>4, <2>1 DEF LaunchRouteProbe
    <2> QED
        BY <1>4, <2>2, <2>3, <2>4 DEF LaunchRouteProbe, state, fatalLoop, world
<1> QED
    BY <1>1, <1>2, <1>3, <1>4 DEF RouteProber

\* The transport prober keeps the types.
LEMMA TransportProberType == TypeOK /\ TransportProber => TypeOK'
<1> SUFFICES ASSUME TypeOK, TransportProber PROVE TypeOK'
    OBVIOUS
<1> USE ProbersAssumption DEF TypeOK
<1>1. CASE FatalTick
    BY <1>1 DEF FatalTick, state, routeLoop, world
<1>2. CASE LookAtProxy
    BY <1>2 DEF LookAtProxy, state, routeLoop, world
<1>3. CASE LaunchFatalProbe
    BY <1>3 DEF LaunchFatalProbe, FatalProbes, state, routeLoop, world
<1> QED
    BY <1>1, <1>2, <1>3 DEF TransportProber

\* The end of a probe keeps the types.
LEMMA ProbeEndType ==
    ASSUME TypeOK, NEW t \in Task, RouteProbeEnds(t) \/ EndFatalProbe(t)
    PROVE  TypeOK'
<1> USE DEF TypeOK
<1>1. CASE ProbeOk(t)
    BY <1>1 DEF ProbeOk, EndRouteProbe, RoutePair, fatalLoop, world
<1>2. CASE ProbeInVain(t)
    BY <1>2 DEF ProbeInVain, EndRouteProbe, state, fatalLoop, world
<1>3. CASE ProbeGivesUp(t)
    <2>1. until' \in [RoutePair -> Nat]
        BY <1>3, ForeverIsNat DEF ProbeGivesUp
    <2> QED
        BY <1>3, <2>1 DEF ProbeGivesUp, EndRouteProbe, fatalLoop, world
<1>4. CASE EndFatalProbe(t)
    BY <1>4 DEF EndFatalProbe, routeLoop, world
<1> QED
    BY <1>1, <1>2, <1>3, <1>4 DEF RouteProbeEnds

\* Requests, the network and the clock keep the types.
LEMMA OthersType == TypeOK /\ (Environment \/ ClockTick) => TypeOK'
<1> SUFFICES ASSUME TypeOK, Environment \/ ClockTick PROVE TypeOK'
    OBVIOUS
<1> USE DEF TypeOK, Event, routeLoop, fatalLoop
<1>1. CASE ClockTick
    BY <1>1 DEF ClockTick, state, world
<1>2. ASSUME NEW rp \in RoutePair, RequestBans(rp) PROVE TypeOK'
    <2>1. BanExpiry(now, BanMs) \in Nat
        BY ForeverIsNat
    <2>2. until' \in [RoutePair -> Nat]
        BY <1>2, <2>1 DEF RequestBans
    <2> QED
        BY <1>2, <2>2 DEF RequestBans
<1>3. ASSUME NEW rp \in RoutePair, RequestSucceeds(rp) PROVE TypeOK'
    BY <1>3 DEF RequestSucceeds
<1>4. ASSUME NEW p \in Proxy, RequestMarksFatal(p) PROVE TypeOK'
    BY <1>4 DEF RequestMarksFatal
<1>5. ASSUME NEW p \in Proxy, NetworkChanges(p) PROVE TypeOK'
    BY <1>5 DEF NetworkChanges, state
<1> QED
    BY <1>1, <1>2, <1>3, <1>4, <1>5 DEF Environment

\* Every step keeps the types.
LEMMA NextType == TypeOK /\ [Next]_vars => TypeOK'
<1> SUFFICES ASSUME TypeOK, [Next]_vars PROVE TypeOK'
    OBVIOUS
<1>1. CASE UNCHANGED vars
    BY <1>1 DEF vars, state, routeLoop, fatalLoop, world, TypeOK
<1> QED
    BY <1>1, RouteProberType, TransportProberType, ProbeEndType, OthersType DEF Next

-----------------------------------------------------------------------------
(* Permits.                                                                *)

\* Every step that changes a permit counter starts or ends one probe of the
\* same prober.
LEMMA NextPermits == IInv /\ [Next]_vars => PermitsAreConserved'
<1> SUFFICES ASSUME IInv, [Next]_vars PROVE PermitsAreConserved'
    OBVIOUS
<1> USE ProbersAssumption
<1>1. /\ RouteProbes = Busy(routeProbe) /\ RouteProbes' = Busy(routeProbe')
      /\ FatalProbes = Busy(fatalProbe) /\ FatalProbes' = Busy(fatalProbe')
    BY DEF RouteProbes, FatalProbes, Busy
<1>2. /\ routePermits \in Nat /\ fatalPermits \in Nat
      /\ routeProbe \in [Task -> RoutePair \cup {None}]
      /\ fatalProbe \in [Task -> Proxy \cup {None}]
    BY DEF IInv, TypeOK
<1>3. /\ routePermits + Cardinality(Busy(routeProbe)) = Cap
      /\ fatalPermits + Cardinality(Busy(fatalProbe)) = Cap
    BY <1>1 DEF IInv, PermitsAreConserved
<1>4. Cardinality(Busy(routeProbe)) \in Nat /\ Cardinality(Busy(fatalProbe)) \in Nat
    BY BusyIsFinite
<1>5. SUFFICES /\ routePermits' + Cardinality(Busy(routeProbe')) = Cap
               /\ fatalPermits' + Cardinality(Busy(fatalProbe')) = Cap
    BY <1>1 DEF PermitsAreConserved
<1>6. CASE LaunchRouteProbe
    <2>1. PICK t \in Task \ Busy(routeProbe) :
              routeProbe' = [routeProbe EXCEPT ![t] = routeWants]
        BY <1>1, <1>6 DEF LaunchRouteProbe
    <2>2. Cardinality(Busy(routeProbe')) = Cardinality(Busy(routeProbe)) + 1
        BY <1>2, <1>6, <2>1, TaskStarts DEF LaunchRouteProbe
    <2> QED
        BY <1>2, <1>3, <1>4, <1>6, <2>2 DEF LaunchRouteProbe, fatalLoop
<1>7. ASSUME NEW t \in Task, RouteProbeEnds(t)
      PROVE  /\ routePermits' + Cardinality(Busy(routeProbe')) = Cap
             /\ fatalPermits' + Cardinality(Busy(fatalProbe')) = Cap
    <2>1. EndRouteProbe(t)
        BY <1>7 DEF RouteProbeEnds, ProbeOk, ProbeInVain, ProbeGivesUp
    <2>2. Cardinality(Busy(routeProbe')) = Cardinality(Busy(routeProbe)) - 1
        BY <1>2, <2>1, TaskEnds DEF EndRouteProbe
    <2> QED
        BY <1>2, <1>3, <1>4, <2>1, <2>2 DEF EndRouteProbe, fatalLoop
<1>8. CASE LaunchFatalProbe
    <2>1. PICK t \in Task \ Busy(fatalProbe) :
              fatalProbe' = [fatalProbe EXCEPT ![t] = fatalWants]
        BY <1>1, <1>8 DEF LaunchFatalProbe
    <2>2. Cardinality(Busy(fatalProbe')) = Cardinality(Busy(fatalProbe)) + 1
        BY <1>2, <1>8, <2>1, TaskStarts DEF LaunchFatalProbe
    <2> QED
        BY <1>2, <1>3, <1>4, <1>8, <2>2 DEF LaunchFatalProbe, routeLoop
<1>9. ASSUME NEW t \in Task, EndFatalProbe(t)
      PROVE  /\ routePermits' + Cardinality(Busy(routeProbe')) = Cap
             /\ fatalPermits' + Cardinality(Busy(fatalProbe')) = Cap
    <2>1. Cardinality(Busy(fatalProbe')) = Cardinality(Busy(fatalProbe)) - 1
        BY <1>2, <1>9, TaskEnds DEF EndFatalProbe
    <2> QED
        BY <1>2, <1>3, <1>4, <1>9, <2>1 DEF EndFatalProbe, routeLoop
<1>10. CASE UNCHANGED <<routePermits, routeProbe, fatalPermits, fatalProbe>>
    BY <1>3, <1>10
<1>11. ASSUME ClockTick \/ RouteSleep \/ RouteTick \/ LookAtPair \/ FatalTick
              \/ LookAtProxy
       PROVE  UNCHANGED <<routePermits, routeProbe, fatalPermits, fatalProbe>>
    BY <1>11 DEF ClockTick, RouteSleep, RouteTick, LookAtPair, FatalTick, LookAtProxy,
                 routeLoop, fatalLoop
<1>12. ASSUME Environment \/ UNCHANGED vars
       PROVE  UNCHANGED <<routePermits, routeProbe, fatalPermits, fatalProbe>>
    BY <1>12 DEF Environment, RequestBans, RequestSucceeds, RequestMarksFatal,
                 NetworkChanges, Event, vars, routeLoop, fatalLoop
<1> QED
    BY <1>6, <1>7, <1>8, <1>9, <1>10, <1>11, <1>12
    DEF Next, RouteProber, TransportProber

-----------------------------------------------------------------------------
(* Launches.                                                               *)

\* A stamp is at least the interval behind the one before, and a launch uses up
\* what its stamp has granted.
LEMMA NextPaid == IInv /\ [Next]_vars => Paid'
<1> SUFFICES ASSUME IInv, [Next]_vars PROVE Paid'
    OBVIOUS
<1> USE ProbersAssumption
<1>1. /\ spent \in [RoutePair -> Nat] /\ tickNow \in Nat /\ now \in Nat
      /\ lastProbe \in [RoutePair -> Int]
      /\ routeWants \in RoutePair \cup {None} /\ routeWalk \in Seq(RoutePair)
    BY DEF IInv, TypeOK, LongAgo
<1>2. None \notin RoutePair
    BY DEF RoutePair
<1>3. CASE LookAtPair
    <2>1. Head(routeWalk) \in RoutePair
        BY <1>1, <1>3 DEF LookAtPair
    <2>2. CASE Due(Head(routeWalk))
        <3>1. /\ lastProbe' = [lastProbe EXCEPT ![Head(routeWalk)] = tickNow]
              /\ routeWants' = Head(routeWalk) /\ routeWants = None /\ spent' = spent
              /\ tickNow - lastProbe[Head(routeWalk)] >= Interval
            BY <1>3, <2>2 DEF LookAtPair, Due
        <3>2. ASSUME NEW rp \in RoutePair
              PROVE  spent'[rp] + (IF routeWants' = rp THEN Interval ELSE 0)
                         <= lastProbe'[rp] + Interval
            <4>1. /\ spent[rp] \in Nat /\ lastProbe[rp] \in Int
                  /\ spent[rp] <= lastProbe[rp] + Interval
                <5>1. rp # routeWants
                    BY <1>2, <3>1
                <5>2. spent[rp] + (IF routeWants = rp THEN Interval ELSE 0)
                          <= lastProbe[rp] + Interval
                    BY DEF IInv, Paid
                <5>3. spent[rp] \in Nat /\ lastProbe[rp] \in Int
                    BY <1>1
                <5> QED
                    BY <5>1, <5>2, <5>3
            <4>2. CASE rp = Head(routeWalk)
                <5>1. lastProbe'[rp] = tickNow /\ routeWants' = rp /\ spent' = spent
                    BY <1>1, <3>1, <4>2
                <5>2. spent[rp] <= tickNow
                    BY <1>1, <3>1, <4>1, <4>2
                <5> QED
                    BY <1>1, <4>1, <5>1, <5>2
            <4>3. CASE rp # Head(routeWalk)
                BY <1>1, <3>1, <4>1, <4>3
            <4> QED
                BY <4>2, <4>3
        <3> QED
            BY <3>2 DEF Paid
    <2>3. CASE ~Due(Head(routeWalk))
        BY <1>3, <2>3 DEF LookAtPair, IInv, Paid
    <2> QED
        BY <2>2, <2>3
<1>4. CASE LaunchRouteProbe
    <2>1. /\ routeWants \in RoutePair /\ routeWants' = None /\ lastProbe' = lastProbe
          /\ spent' = [spent EXCEPT ![routeWants] = @ + Interval]
        BY <1>1, <1>4 DEF LaunchRouteProbe
    <2>2. ASSUME NEW rp \in RoutePair
          PROVE  spent'[rp] + (IF routeWants' = rp THEN Interval ELSE 0)
                     <= lastProbe'[rp] + Interval
        <3>1. /\ spent[rp] \in Nat /\ lastProbe[rp] \in Int
              /\ spent[rp] + (IF routeWants = rp THEN Interval ELSE 0)
                     <= lastProbe[rp] + Interval
            BY <1>1 DEF IInv, Paid
        <3>2. CASE rp = routeWants
            BY <1>1, <1>2, <2>1, <3>1, <3>2
        <3>3. CASE rp # routeWants
            BY <1>1, <1>2, <2>1, <3>1, <3>3
        <3> QED
            BY <3>2, <3>3
    <2> QED
        BY <2>2 DEF Paid
<1>5. ASSUME UNCHANGED <<spent, routeWants, lastProbe>>
      PROVE  Paid'
    BY <1>5 DEF IInv, Paid
<1>6. ASSUME ClockTick \/ RouteSleep \/ RouteTick \/ TransportProber \/ Environment
                \/ UNCHANGED vars
      PROVE  UNCHANGED <<spent, routeWants, lastProbe>>
    BY <1>6 DEF ClockTick, RouteSleep, RouteTick, TransportProber, FatalTick, LookAtProxy,
                LaunchFatalProbe, Environment, RequestBans, RequestSucceeds,
                RequestMarksFatal, NetworkChanges, Event, vars, routeLoop
<1>7. ASSUME NEW t \in Task, RouteProbeEnds(t) \/ EndFatalProbe(t)
      PROVE  UNCHANGED <<spent, routeWants, lastProbe>>
    BY <1>7 DEF RouteProbeEnds, ProbeOk, ProbeInVain, ProbeGivesUp, EndRouteProbe,
                EndFatalProbe, routeLoop
<1> QED
    BY <1>3, <1>4, <1>5, <1>6, <1>7 DEF Next, RouteProber

-----------------------------------------------------------------------------
\* The inductive invariant: types, permits and launches.
THEOREM Inductive == Spec => []IInv
<1>1. IInv /\ [Next]_vars => IInv'
    BY NextType, NextPermits, NextPaid DEF IInv
<1> QED
    BY InitIInv, <1>1, PTL DEF Spec

\* Every field of the two loops keeps its type; the stamp of a pair is never
\* ahead of the clock its tick read, nor that ahead of the clock.
THEOREM TypeCorrect == Spec => []TypeOK
<1>1. IInv => TypeOK
    BY DEF IInv
<1> QED
    BY Inductive, <1>1, PTL

\* The permits of run_route_prober and run_transport_prober: no interleaving of
\* the loops and the tasks they spawn loses one or makes one.
THEOREM PermitsConserved == Spec => []PermitsAreConserved
<1>1. IInv => PermitsAreConserved
    BY DEF IInv
<1> QED
    BY Inductive, <1>1, PTL

\* The interval of a probe (config: interval_ms) bounds the number of its
\* launches, however long each waits for its permit.
THEOREM LaunchesBounded == Spec => []ProbesFollowTheInterval
<1>1. IInv => ProbesFollowTheInterval
    <2> SUFFICES ASSUME IInv, NEW rp \in RoutePair PROVE spent[rp] <= now + Interval
        BY DEF ProbesFollowTheInterval
    <2>1. /\ lastProbe[rp] \in Int /\ tickNow \in Int /\ now \in Int
          /\ lastProbe[rp] <= tickNow /\ tickNow <= now /\ spent[rp] \in Nat
        BY ProbersAssumption DEF IInv, TypeOK, LongAgo
    <2> QED
        BY <2>1, ProbersAssumption DEF IInv, Paid
<1> QED
    BY Inductive, <1>1, PTL

\* The two semaphores together bound the probes in flight by twice
\* max_concurrent.
THEOREM ProbesBounded == Spec => []ProbesWithinTwiceCap
<1>1. IInv => ProbesWithinTwiceCap
    <2> SUFFICES ASSUME IInv PROVE ProbesWithinTwiceCap
        OBVIOUS
    <2>1. RouteProbes = Busy(routeProbe) /\ FatalProbes = Busy(fatalProbe)
        BY DEF RouteProbes, FatalProbes, Busy
    <2>2. Cardinality(RouteProbes) \in Nat /\ Cardinality(FatalProbes) \in Nat
        BY <2>1, BusyIsFinite
    <2> QED
        BY <2>2, ProbersAssumption
        DEF IInv, TypeOK, PermitsAreConserved, ProbesWithinTwiceCap
<1> QED
    BY Inductive, <1>1, PTL

-----------------------------------------------------------------------------
(* RouteHealth.  Its invariants speak of the shared fields; they are kept  *)
(* because of what the tasks carry in their registers and still have to    *)
(* do.  The inductive invariant says that too: every operand and every     *)
(* register already obeys the bound that the field it will be stored in    *)
(* obeys.                                                                  *)

\* There is a reason in sn for a proxy to be slow.
SlowReason(sn) == sn \cap {"slow_sample", "cold_failure"} # {}

\* The accesses that tasks may still have to make when sn has been reported.
SoundAccess(sn) ==
    {a \in AccessType :
        /\ a.op = "load_avg" /\ a.v > SlowMs => "slow_sample" \in sn
        /\ a.op = "load_avg_failed" /\ a.v > SlowMs + 1 => "slow_sample" \in sn
        /\ a.op = "read_clock" => a.v <= MaxBan
        /\ a.op = "store_forever" => "give_up_route" \in sn}

TodoSound == todo \in [Worker -> Seq(SoundAccess(seen))]

RegistersSound ==
    \A w \in Worker :
        /\ Within(newAvg[w], samples)
        /\ newAvg[w] > SlowMs => SlowReason(seen)
        /\ newUntil[w] <= clock + MaxBan

FieldsSound == AvgWithinSamples /\ SlowNeedsEvidence /\ BanWithinHorizon

PairIInv == PairTypeOK /\ TodoSound /\ RegistersSound /\ FieldsSound

-----------------------------------------------------------------------------
(* Arithmetic of the average and of the expiry.                            *)

\* blend_latency stays between its arguments, the division included.
LEMMA BlendBetween ==
    ASSUME NEW a \in Nat, NEW v \in Nat
    PROVE  /\ BlendLatency(a, v) \in Nat
           /\ a = 0 => BlendLatency(a, v) = v
           /\ \A lo \in Nat : a # 0 /\ lo <= a /\ lo <= v => lo <= BlendLatency(a, v)
           /\ \A hi \in Nat : a # 0 /\ a <= hi /\ v <= hi => BlendLatency(a, v) <= hi
BY DEF BlendLatency

\* A sample blended into an average that lies within the samples gives one that
\* lies within them and the new sample.
LEMMA BlendWithin ==
    ASSUME NEW a \in Nat, NEW v \in Nat, NEW S \in SUBSET Nat, Within(a, S)
    PROVE  BlendLatency(a, v) \in Nat /\ Within(BlendLatency(a, v), S \cup {v})
<1> DEFINE b == BlendLatency(a, v)
<1>1. /\ b \in Nat
      /\ a = 0 => b = v
      /\ \A lo \in Nat : a # 0 /\ lo <= a /\ lo <= v => lo <= b
      /\ \A hi \in Nat : a # 0 /\ a <= hi /\ v <= hi => b <= hi
    BY BlendBetween
<1> HIDE DEF b
<1>2. \E s, t \in S \cup {v} : s <= b /\ b <= t
    <2>1. CASE a = 0
        BY <1>1, <2>1
    <2>2. CASE a # 0
        <3>1. PICK s \in S, t \in S : s <= a /\ a <= t
            BY <2>2 DEF Within
        <3>2. \E lo \in S \cup {v} : lo <= b
            <4>1. CASE s <= v
                BY <1>1, <2>2, <3>1, <4>1
            <4>2. CASE v < s
                BY <1>1, <2>2, <3>1, <4>2
            <4> QED
                BY <4>1, <4>2
        <3>3. \E hi \in S \cup {v} : b <= hi
            <4>1. CASE v <= t
                BY <1>1, <2>2, <3>1, <4>1
            <4>2. CASE t < v
                BY <1>1, <2>2, <3>1, <4>2
            <4> QED
                BY <4>1, <4>2
        <3> QED
            BY <3>2, <3>3
    <2> QED
        BY <2>1, <2>2
<1> QED
    BY <1>1, <1>2 DEF Within, b

\* What lies within the samples does so when there are more.
LEMMA WithinMore ==
    ASSUME NEW a, NEW S, NEW T, S \subseteq T, Within(a, S)
    PROVE  Within(a, T)
BY DEF Within

\* A measured average that is not slow stays so under samples up to slow_ms + 1:
\* the division rounds down.
LEMMA BlendRoundsDown ==
    ASSUME NEW a \in Nat, NEW s \in Nat, a # 0, a <= SlowMs, s <= SlowMs + 1
    PROVE  BlendLatency(a, s) <= SlowMs
BY HealthAssumption DEF BlendLatency

\* ban_for asks for no more than now + ms, saturated or not.
LEMMA ExpiryWithin ==
    ASSUME NEW t \in Nat, NEW ms \in Nat
    PROVE  BanExpiry(t, ms) \in Nat /\ BanExpiry(t, ms) <= t + ms
BY HealthAssumption DEF BanExpiry

-----------------------------------------------------------------------------
(* Sequences of accesses.                                                  *)

\* A function keeps its values when the range is taken larger.
LEMMA LargerRange ==
    ASSUME NEW D, NEW R, NEW S, R \subseteq S, NEW f \in [D -> R]
    PROVE  f \in [D -> S]
OBVIOUS

\* Nor does a sequence of elements of R become another one.
LEMMA LargerElements ==
    ASSUME NEW R, NEW S, R \subseteq S
    PROVE  Seq(R) \subseteq Seq(S)
BY SeqDef

\* What is sound stays sound when more has been reported.
LEMMA SoundGrows ==
    ASSUME NEW sn, NEW more, sn \subseteq more
    PROVE  Seq(SoundAccess(sn)) \subseteq Seq(SoundAccess(more))
<1>1. SoundAccess(sn) \subseteq SoundAccess(more)
    BY DEF SoundAccess
<1> QED
    BY <1>1, LargerElements

\* Accesses without an operand that matters are sound.
LEMMA PlainIsSound ==
    ASSUME NEW sn,
           NEW op \in AccessNames \ {"load_avg", "load_avg_failed", "read_clock",
                                     "store_forever"}
    PROVE  Do(op) \in SoundAccess(sn)
BY DEF Do, Access, SoundAccess, AccessType

\* observe_success makes sound accesses.
LEMMA ObserveSuccessSound ==
    ASSUME NEW sn, NEW l \in Sample, SlowEvidence(l) \subseteq sn
    PROVE  ObserveSuccessSteps(l) \in Seq(SoundAccess(sn))
<1>1. Access("load_avg", l) \in SoundAccess(sn)
    BY RouteHealthAssumption, HealthAssumption
    DEF Access, SoundAccess, AccessType, AccessNames, SlowEvidence
<1>2. \A op \in {"zero_fails", "inc_succs", "store_avg"} : Do(op) \in SoundAccess(sn)
    BY PlainIsSound DEF AccessNames
<1> HIDE DEF SoundAccess
<1>3. <<Do("zero_fails"), Do("inc_succs")>> \in Seq(SoundAccess(sn))
    BY <1>2
<1>4. BlendSteps("load_avg", l) \in Seq(SoundAccess(sn))
    BY <1>1, <1>2 DEF BlendSteps
<1> QED
    BY <1>3, <1>4, ConcatProperties DEF ObserveSuccessSteps

\* observe_failure makes sound accesses, with a latency or without.
LEMMA ObserveFailureSound ==
    ASSUME NEW sn, NEW l \in Sample \cup {NoSample},
           l # NoSample => SlowEvidence(l) \subseteq sn
    PROVE  ObserveFailureSteps(l) \in Seq(SoundAccess(sn))
<1>1. \A op \in {"zero_succs", "inc_fails", "store_avg"} : Do(op) \in SoundAccess(sn)
    BY PlainIsSound DEF AccessNames
<1>2. <<Do("zero_succs"), Do("inc_fails")>> \in Seq(SoundAccess(sn))
    BY <1>1
<1>3. CASE l = NoSample
    BY <1>2, <1>3, ConcatProperties DEF ObserveFailureSteps
<1>4. CASE l # NoSample
    <2>1. Access("load_avg_failed", FailureSample(l)) \in SoundAccess(sn)
        BY <1>4, RouteHealthAssumption, HealthAssumption
        DEF Access, SoundAccess, AccessType, AccessNames, SlowEvidence, FailureSample
    <2>2. BlendSteps("load_avg_failed", FailureSample(l)) \in Seq(SoundAccess(sn))
        BY <1>1, <2>1 DEF BlendSteps
    <2> QED
        BY <1>2, <1>4, <2>2, ConcatProperties DEF ObserveFailureSteps
<1> QED
    BY <1>3, <1>4

-----------------------------------------------------------------------------
(* The steps of the specification.                                         *)

\* Nothing is measured, banned or under way initially.
LEMMA PairInitIInv == PairInit => PairIInv
<1> SUFFICES ASSUME PairInit PROVE PairIInv
    OBVIOUS
<1>1. PairTypeOK
    <2>1. <<>> \in Seq(AccessType)
        OBVIOUS
    <2>2. todo \in [Worker -> Seq(AccessType)]
        BY <2>1 DEF PairInit
    <2> QED
        BY <2>2 DEF PairInit, PairTypeOK
<1>2. TodoSound
    <2>1. <<>> \in Seq(SoundAccess(seen))
        OBVIOUS
    <2> QED
        BY <2>1 DEF PairInit, TodoSound
<1>3. RegistersSound
    BY HealthAssumption, RouteHealthAssumption DEF PairInit, RegistersSound, Within
<1>4. FieldsSound
    BY HealthAssumption, RouteHealthAssumption
    DEF PairInit, FieldsSound, AvgWithinSamples, Within, SlowNeedsEvidence, BanWithinHorizon
<1> QED
    BY <1>1, <1>2, <1>3, <1>4 DEF PairIInv

\* Time passing shortens what is left of a ban.
LEMMA TickKeeps == PairIInv /\ Tick => PairIInv'
<1> SUFFICES ASSUME PairIInv, Tick PROVE PairIInv'
    OBVIOUS
<1> USE DEF PairIInv, Tick, shared, local
<1>1. PairTypeOK'
    BY DEF PairTypeOK
<1>2. TodoSound'
    BY DEF TodoSound
<1>3. RegistersSound'
    BY RouteHealthAssumption DEF RegistersSound, PairTypeOK
<1>4. FieldsSound'
    BY RouteHealthAssumption
    DEF FieldsSound, AvgWithinSamples, SlowNeedsEvidence, BanWithinHorizon, PairTypeOK
<1> QED
    BY <1>1, <1>2, <1>3, <1>4

\* Starting an operation whose accesses are sound given what it reports.
LEMMA CallKeeps ==
    ASSUME PairIInv, NEW w \in Worker, NEW steps, NEW evidence \in SUBSET Evidence,
           Call(w, steps, evidence), steps \in Seq(SoundAccess(seen \cup evidence))
    PROVE  PairIInv'
<1> USE DEF PairIInv, Call, shared, local
<1>1. TodoSound'
    <2>1. Seq(SoundAccess(seen)) \subseteq Seq(SoundAccess(seen'))
        BY SoundGrows
    <2> HIDE DEF SoundAccess
    <2>2. todo \in [Worker -> Seq(SoundAccess(seen'))]
        BY <2>1 DEF TodoSound
    <2>3. todo' = [todo EXCEPT ![w] = steps] /\ steps \in Seq(SoundAccess(seen'))
        OBVIOUS
    <2> QED
        BY <2>2, <2>3 DEF TodoSound
<1>2. PairTypeOK'
    <2>1. SoundAccess(seen') \subseteq AccessType
        BY DEF SoundAccess
    <2>2. Seq(SoundAccess(seen')) \subseteq Seq(AccessType)
        BY <2>1, LargerElements
    <2>3. todo' \in [Worker -> Seq(SoundAccess(seen'))]
        BY <1>1 DEF TodoSound
    <2> HIDE DEF Call, PairIInv
    <2>4. todo' \in [Worker -> Seq(AccessType)]
        BY <2>2, <2>3, LargerRange
    <2> USE DEF Call, PairIInv
    <2> QED
        BY <2>4 DEF PairTypeOK
<1>3. RegistersSound'
    BY DEF RegistersSound, SlowReason
<1>4. FieldsSound'
    BY DEF FieldsSound, AvgWithinSamples, SlowNeedsEvidence, BanWithinHorizon
<1> QED
    BY <1>1, <1>2, <1>3, <1>4

\* Every operation starts with sound accesses.
LEMMA BeginKeeps ==
    ASSUME PairIInv, NEW w \in Worker, Begin(w)
    PROVE  PairIInv'
<1> DEFINE Sound(evidence) == Seq(SoundAccess(seen \cup evidence))
<1>1. \A l \in Sample : SlowEvidence(l) \in SUBSET Evidence
    BY DEF SlowEvidence, Evidence
<1>2. \A l \in Sample, e \in SUBSET Evidence : SlowEvidence(l) \subseteq e =>
          ObserveSuccessSteps(l) \in Sound(e) /\ ObserveFailureSteps(l) \in Sound(e)
    BY ObserveSuccessSound, ObserveFailureSound
<1>3. \A e \in SUBSET Evidence : ObserveFailureSteps(NoSample) \in Sound(e)
    BY ObserveFailureSound
<1>4. \A e \in SUBSET Evidence,
         op \in {"zero_until", "zero_fails", "clear_fatal", "set_fatal", "store_until"} :
          Do(op) \in SoundAccess(seen \cup e)
    BY PlainIsSound DEF AccessNames
<1>5. \A e \in SUBSET Evidence : ClearBanSteps \in Sound(e)
    <2> SUFFICES ASSUME NEW e \in SUBSET Evidence PROVE ClearBanSteps \in Sound(e)
        OBVIOUS
    <2>1. /\ Do("zero_until") \in SoundAccess(seen \cup e)
          /\ Do("zero_fails") \in SoundAccess(seen \cup e)
        BY <1>4
    <2> QED
        BY <2>1 DEF ClearBanSteps
<1>6. \A e \in SUBSET Evidence, g \in BOOLEAN : MarkFatalSteps(g) \in Sound(e)
    <2> SUFFICES ASSUME NEW e \in SUBSET Evidence
                 PROVE  \A g \in BOOLEAN : MarkFatalSteps(g) \in Sound(e)
        OBVIOUS
    <2>1. Do("set_fatal") \in SoundAccess(seen \cup e)
        BY <1>4
    <2>2. /\ <<Do("set_fatal")>> \in Seq(SoundAccess(seen \cup e))
          /\ <<>> \in Seq(SoundAccess(seen \cup e))
        BY <2>1
    <2> QED
        BY <2>2 DEF MarkFatalSteps
<1>7. \A e \in SUBSET Evidence, ms \in BanLengths : BanForSteps(ms) \in Sound(e)
    <2> SUFFICES ASSUME NEW e \in SUBSET Evidence, NEW ms \in BanLengths
                 PROVE  BanForSteps(ms) \in Sound(e)
        OBVIOUS
    <2>1. Access("read_clock", ms) \in SoundAccess(seen \cup e)
        BY RouteHealthAssumption DEF Access, SoundAccess, AccessType, AccessNames
    <2> QED
        BY <1>4, <2>1 DEF BanForSteps
<1> HIDE DEF Sound
<1>8. ASSUME NEW e \in SUBSET Evidence, NEW s \in Sound(e), NEW t \in Sound(e)
      PROVE  s \o t \in Sound(e)
    BY ConcatProperties DEF Sound
<1>9. ASSUME NEW e \in SUBSET Evidence, NEW s \in Sound(e), Call(w, s, e)
      PROVE  PairIInv'
    BY <1>9, CallKeeps DEF Sound
<1>19. <<Do("clear_fatal")>> \in Sound({})
    <2>1. Do("clear_fatal") \in SoundAccess(seen \cup {})
        BY <1>4
    <2> QED
        BY <2>1 DEF Sound
<1>10. CASE Success(w)
    BY <1>1, <1>2, <1>5, <1>8, <1>9, <1>10 DEF Success, RecordSuccessSteps
<1>11. CASE RecoverySuccess(w)
    BY <1>1, <1>2, <1>9, <1>11 DEF RecoverySuccess
<1>12. CASE TransportError(w)
    <2>1. PICK c \in BOOLEAN :
              Call(w, ObserveFailureSteps(NoSample) \o MarkFatalSteps(c), {})
        BY <1>12 DEF TransportError
    <2> QED
        BY <1>3, <1>6, <1>8, <1>9, <2>1
<1>13. CASE RetryOther(w)
    BY <1>1, <1>2, <1>7, <1>8, <1>9, <1>13 DEF RetryOther
<1>14. CASE SoftFailure(w)
    BY <1>1, <1>2, <1>9, <1>14 DEF SoftFailure
<1>15. CASE HardFail(w)
    <2>1. PICK l \in Sample, streaming \in BOOLEAN, c \in BOOLEAN :
              Call(w, ObserveFailureSteps(l) \o MarkFatalSteps(streaming \/ c),
                   SlowEvidence(l))
        BY <1>15 DEF HardFail
    <2> DEFINE e == SlowEvidence(l)
    <2>2. e \in SUBSET Evidence
        BY <1>1
    <2> HIDE DEF e
    <2>3. ObserveFailureSteps(l) \in Sound(e)
        BY <1>2, <2>2 DEF e
    <2>4. MarkFatalSteps(streaming \/ c) \in Sound(e)
        BY <1>6, <2>2
    <2> QED
        BY <1>8, <1>9, <2>1, <2>2, <2>3, <2>4 DEF e
<1>16. CASE ProbeRestores(w)
    <2>1. <<Do("clear_fatal")>> \in Sound({})
        BY <1>19
    <2> QED
        BY <1>5, <1>8, <1>9, <1>16, <2>1 DEF ProbeRestores
<1>17. CASE ProbeGiveUp(w)
    <2>1. Do("store_forever") \in SoundAccess(seen \cup {"give_up_route"})
        BY DEF Do, Access, SoundAccess, AccessType, AccessNames
    <2>2. <<Do("store_forever")>> \in Sound({"give_up_route"})
        BY <2>1 DEF Sound
    <2>3. {"give_up_route"} \in SUBSET Evidence
        BY DEF Evidence
    <2> QED
        BY <1>9, <1>17, <2>2, <2>3 DEF ProbeGiveUp
<1>18. CASE TransportReply(w)
    <2>1. <<Do("clear_fatal")>> \in Sound({})
        BY <1>19
    <2> QED
        BY <1>9, <1>18, <2>1 DEF TransportReply
<1> QED
    BY <1>10, <1>11, <1>12, <1>13, <1>14, <1>15, <1>16, <1>17, <1>18 DEF Begin

-----------------------------------------------------------------------------
(* One access of a task.                                                   *)

\* The next access is sound, and so is what remains after it.
LEMMA MakeSound ==
    ASSUME PairIInv, NEW w \in Worker, NEW op, Make(w, op), seen \subseteq seen'
    PROVE  /\ Head(todo[w]) \in SoundAccess(seen)
           /\ Head(todo[w]).op = op
           /\ TodoSound'
           /\ todo' \in [Worker -> Seq(AccessType)]
           /\ UNCHANGED <<clock, ops>>
<1>1. todo \in [Worker -> Seq(SoundAccess(seen))]
    BY DEF PairIInv, TodoSound
<1>2. todo[w] \in Seq(SoundAccess(seen)) /\ todo[w] # <<>>
    BY <1>1 DEF Make
<1>3. Head(todo[w]) \in SoundAccess(seen) /\ Tail(todo[w]) \in Seq(SoundAccess(seen))
    BY <1>2, HeadTailProperties
<1>4. todo' \in [Worker -> Seq(SoundAccess(seen))]
    BY <1>1, <1>3 DEF Make
<1>5. Seq(SoundAccess(seen)) \subseteq Seq(SoundAccess(seen'))
    BY SoundGrows
<1>6. TodoSound'
    BY <1>4, <1>5, LargerRange DEF TodoSound
<1>7. Seq(SoundAccess(seen)) \subseteq Seq(AccessType)
    <2>1. SoundAccess(seen) \subseteq AccessType
        BY DEF SoundAccess
    <2> QED
        BY <2>1, LargerElements
<1>8. todo' \in [Worker -> Seq(AccessType)]
    BY <1>4, <1>7, LargerRange
<1> QED
    BY <1>3, <1>6, <1>8 DEF Make

\* What an access leaves alone keeps its invariants.
LEMMA UntouchedSound ==
    ASSUME PairIInv, UNCHANGED clock, seen \subseteq seen', samples \subseteq samples'
    PROVE  /\ UNCHANGED local => RegistersSound'
           /\ UNCHANGED avg => AvgWithinSamples' /\ SlowNeedsEvidence'
           /\ UNCHANGED bannedUntil => BanWithinHorizon'
<1> USE DEF PairIInv
<1>1. UNCHANGED local => RegistersSound'
    BY WithinMore DEF local, RegistersSound, SlowReason
<1>2. UNCHANGED avg => AvgWithinSamples' /\ SlowNeedsEvidence'
    BY WithinMore DEF FieldsSound, AvgWithinSamples, SlowNeedsEvidence
<1>3. UNCHANGED bannedUntil => BanWithinHorizon'
    BY DEF FieldsSound, BanWithinHorizon
<1> QED
    BY <1>1, <1>2, <1>3

\* Accesses to the failure and success counters and to the global flag.
LEMMA PlainStepKeeps ==
    ASSUME PairIInv, NEW w \in Worker,
           ZeroFails(w) \/ IncFails(w) \/ ZeroSuccs(w) \/ IncSuccs(w)
               \/ SetFatal(w) \/ ClearFatal(w)
    PROVE  PairIInv'
<1>1. PICK op : Make(w, op)
    BY DEF ZeroFails, IncFails, ZeroSuccs, IncSuccs, SetFatal, ClearFatal
<1>2. UNCHANGED <<bannedUntil, avg, local, samples, seen>>
    BY DEF ZeroFails, IncFails, ZeroSuccs, IncSuccs, SetFatal, ClearFatal
<1>3. fails' \in Nat /\ succs' \in Nat /\ transportFatal' \in BOOLEAN
    <2>1. fails \in Nat /\ succs \in Nat /\ transportFatal \in BOOLEAN
        BY DEF PairIInv, PairTypeOK
    <2>2. fails' \in Nat /\ succs' \in Nat
        BY <2>1 DEF ZeroFails, IncFails, ZeroSuccs, IncSuccs, SetFatal, ClearFatal
    <2>3. transportFatal' \in BOOLEAN
        BY <2>1, Zenon DEF ZeroFails, IncFails, ZeroSuccs, IncSuccs, SetFatal, ClearFatal
    <2> QED
        BY <2>2, <2>3
<1>4. TodoSound' /\ todo' \in [Worker -> Seq(AccessType)] /\ UNCHANGED <<clock, ops>>
    BY <1>1, <1>2, MakeSound
<1>5. PairTypeOK'
    BY <1>2, <1>3, <1>4 DEF PairIInv, PairTypeOK, local
<1>6. RegistersSound' /\ FieldsSound'
    BY <1>2, <1>4, UntouchedSound DEF FieldsSound
<1> QED
    BY <1>4, <1>5, <1>6 DEF PairIInv

\* blend_latency computes an average within the samples, and a slow one only
\* from a slow sample, from a slow average, or as the first measurement.
LEMMA LoadAvgKeeps ==
    ASSUME PairIInv, NEW w \in Worker, LoadAvg(w)
    PROVE  PairIInv'
<1> DEFINE a == Head(todo[w])
<1>1. PICK op \in {"load_avg", "load_avg_failed"} :
          /\ Make(w, op)
          /\ op = "load_avg" => seen' = seen
          /\ op = "load_avg_failed" =>
                seen' = seen \cup IF avg = 0 THEN {"cold_failure"} ELSE {}
    BY DEF LoadAvg
<1>2. seen \subseteq seen' /\ seen' \subseteq Evidence
    BY <1>1 DEF PairIInv, PairTypeOK, Evidence
<1>3. /\ a \in SoundAccess(seen) /\ a.op = op
      /\ TodoSound' /\ todo' \in [Worker -> Seq(AccessType)] /\ UNCHANGED <<clock, ops>>
    BY <1>1, <1>2, MakeSound
<1>4. UNCHANGED <<bannedUntil, avg, fails, succs, transportFatal, newUntil>>
    BY DEF LoadAvg, shared
<1>5. a.v \in Nat /\ samples' = samples \cup {a.v}
    BY <1>1, <1>3 DEF SoundAccess, AccessType, LoadAvg, Operand
<1>6. /\ avg \in Nat /\ samples \subseteq Nat /\ Within(avg, samples)
      /\ avg > SlowMs => SlowReason(seen)
    BY DEF PairIInv, PairTypeOK, FieldsSound, AvgWithinSamples, SlowNeedsEvidence,
           SlowReason
<1> DEFINE b == BlendLatency(avg, a.v)
<1>7. b \in Nat /\ Within(b, samples')
    BY <1>5, <1>6, BlendWithin
<1>8. b > SlowMs => SlowReason(seen')
    <2>1. CASE avg > SlowMs \/ "slow_sample" \in seen
        BY <1>2, <1>6, <2>1 DEF SlowReason
    <2>2. CASE avg <= SlowMs /\ "slow_sample" \notin seen
        <3>1. a.v <= SlowMs + 1 /\ (op = "load_avg" => a.v <= SlowMs)
            BY <1>1, <1>3, <1>5, <2>2, HealthAssumption DEF SoundAccess
        <3>2. CASE avg # 0
            BY <1>5, <1>6, <1>7, <2>2, <3>1, <3>2, BlendRoundsDown, HealthAssumption
        <3>3. CASE avg = 0 /\ op = "load_avg"
            BY <1>5, <3>1, <3>3, HealthAssumption DEF BlendLatency
        <3>4. CASE avg = 0 /\ op = "load_avg_failed"
            BY <1>1, <3>4 DEF SlowReason
        <3> QED
            BY <1>1, <3>2, <3>3, <3>4
    <2> QED
        BY <1>6, <2>1, <2>2, HealthAssumption
<1>9. newAvg' = [newAvg EXCEPT ![w] = b]
    BY DEF LoadAvg, Operand
<1>10. PairTypeOK'
    <2> HIDE DEF b
    <2>1. samples' \subseteq Nat
        BY <1>5, <1>6
    <2> QED
        BY <1>2, <1>3, <1>4, <1>7, <1>9, <2>1 DEF PairIInv, PairTypeOK
<1>11. RegistersSound'
    <2>1. newAvg \in [Worker -> Nat] /\ RegistersSound
        BY DEF PairIInv, PairTypeOK
    <2>2. SlowReason(seen) => SlowReason(seen')
        BY <1>2 DEF SlowReason
    <2> HIDE DEF b
    <2>3. \A w2 \in Worker : Within(newAvg[w2], samples')
        BY <1>5, <2>1, WithinMore DEF RegistersSound
    <2> QED
        BY <1>3, <1>4, <1>7, <1>8, <1>9, <2>1, <2>2, <2>3 DEF RegistersSound
<1>12. FieldsSound'
    BY <1>2, <1>3, <1>4, <1>5, UntouchedSound DEF FieldsSound
<1> QED
    BY <1>3, <1>10, <1>11, <1>12 DEF PairIInv

\* The computed average lands: it was within the bounds when it was computed,
\* and what has been reported since stays reported.
LEMMA StoreAvgKeeps ==
    ASSUME PairIInv, NEW w \in Worker, StoreAvg(w)
    PROVE  PairIInv'
<1>1. /\ Make(w, "store_avg") /\ avg' = newAvg[w]
      /\ UNCHANGED <<bannedUntil, fails, succs, transportFatal, local, samples, seen>>
    BY DEF StoreAvg
<1>2. TodoSound' /\ todo' \in [Worker -> Seq(AccessType)] /\ UNCHANGED <<clock, ops>>
    BY <1>1, MakeSound
<1>3. /\ newAvg[w] \in Nat /\ Within(newAvg[w], samples)
      /\ newAvg[w] > SlowMs => SlowReason(seen)
    BY DEF PairIInv, PairTypeOK, RegistersSound
<1>4. PairTypeOK'
    BY <1>1, <1>2, <1>3 DEF PairIInv, PairTypeOK, local
<1>5. RegistersSound' /\ BanWithinHorizon'
    BY <1>1, <1>2, UntouchedSound
<1>6. AvgWithinSamples' /\ SlowNeedsEvidence'
    BY <1>1, <1>3 DEF AvgWithinSamples, SlowNeedsEvidence, SlowReason
<1> QED
    BY <1>2, <1>4, <1>5, <1>6 DEF PairIInv, FieldsSound

\* The expiry is computed from the clock of now.
LEMMA ReadClockKeeps ==
    ASSUME PairIInv, NEW w \in Worker, ReadClock(w)
    PROVE  PairIInv'
<1> DEFINE a == Head(todo[w])
<1>1. Make(w, "read_clock") /\ UNCHANGED <<shared, newAvg, samples, seen>>
    BY DEF ReadClock
<1>2. /\ a \in SoundAccess(seen) /\ a.op = "read_clock"
      /\ TodoSound' /\ todo' \in [Worker -> Seq(AccessType)] /\ UNCHANGED <<clock, ops>>
    BY <1>1, MakeSound
<1>3. a.v \in Nat /\ a.v <= MaxBan /\ clock \in Nat
    BY <1>2 DEF SoundAccess, AccessType, PairIInv, PairTypeOK
<1> DEFINE e == BanExpiry(clock, a.v)
<1>4. e \in Nat /\ e <= clock + MaxBan
    <2>1. e \in Nat /\ e <= clock + a.v
        BY <1>3, ExpiryWithin
    <2> QED
        BY <1>3, <2>1, RouteHealthAssumption
<1>5. newUntil' = [newUntil EXCEPT ![w] = e]
    BY DEF ReadClock, Operand
<1> HIDE DEF e
<1>6. PairTypeOK'
    BY <1>1, <1>2, <1>4, <1>5 DEF PairIInv, PairTypeOK, shared
<1>7. RegistersSound'
    <2>1. newUntil \in [Worker -> Nat] /\ RegistersSound
        BY DEF PairIInv, PairTypeOK
    <2> QED
        BY <1>1, <1>2, <1>4, <1>5, <2>1 DEF RegistersSound
<1>8. FieldsSound'
    BY <1>1, <1>2, UntouchedSound DEF FieldsSound, shared
<1> QED
    BY <1>2, <1>6, <1>7, <1>8 DEF PairIInv

\* An expiry stored late is measured from a later clock: it has less to run.
LEMMA UntilStepKeeps ==
    ASSUME PairIInv, NEW w \in Worker, StoreUntil(w) \/ StoreForever(w) \/ ZeroUntil(w)
    PROVE  PairIInv'
<1>1. PICK op \in {"store_until", "store_forever", "zero_until"} :
          /\ Make(w, op)
          /\ op = "store_until" => bannedUntil' = newUntil[w]
          /\ op = "store_forever" => bannedUntil' = Forever
          /\ op = "zero_until" => bannedUntil' = 0
    BY DEF StoreUntil, StoreForever, ZeroUntil
<1>2. UNCHANGED <<fails, succs, avg, transportFatal, local, samples, seen>>
    BY DEF StoreUntil, StoreForever, ZeroUntil
<1>3. /\ Head(todo[w]) \in SoundAccess(seen) /\ Head(todo[w]).op = op
      /\ TodoSound' /\ todo' \in [Worker -> Seq(AccessType)] /\ UNCHANGED <<clock, ops>>
    BY <1>1, <1>2, MakeSound
<1>4. newUntil[w] \in Nat /\ newUntil[w] <= clock + MaxBan /\ clock \in Nat
    BY DEF PairIInv, PairTypeOK, RegistersSound
<1>5. bannedUntil' \in Nat
    BY <1>1, <1>4, HealthAssumption
<1>6. PairTypeOK'
    BY <1>2, <1>3, <1>5 DEF PairIInv, PairTypeOK, local
<1>7. RegistersSound' /\ AvgWithinSamples' /\ SlowNeedsEvidence'
    BY <1>2, <1>3, UntouchedSound
<1>8. BanWithinHorizon'
    <2>1. CASE op = "store_forever"
        <3>1. "give_up_route" \in seen
            BY <1>3, <2>1 DEF SoundAccess
        <3> QED
            BY <1>1, <1>2, <2>1, <3>1 DEF BanWithinHorizon
    <2>2. CASE op # "store_forever"
        BY <1>1, <1>3, <1>4, <2>2, RouteHealthAssumption DEF BanWithinHorizon
    <2> QED
        BY <2>1, <2>2
<1> QED
    BY <1>3, <1>6, <1>7, <1>8 DEF PairIInv, FieldsSound

-----------------------------------------------------------------------------
\* The inductive invariant: the bounds on the fields, on the registers that
\* will be stored in them, and on the operands still to be used.
THEOREM PairInductive == PairSpec => []PairIInv
<1>1. PairIInv /\ [PairNext]_pairVars => PairIInv'
    <2> SUFFICES ASSUME PairIInv, [PairNext]_pairVars PROVE PairIInv'
        OBVIOUS
    <2>1. CASE UNCHANGED pairVars
        BY <2>1 DEF pairVars, PairIInv, PairTypeOK, TodoSound, RegistersSound, FieldsSound,
                    AvgWithinSamples, SlowNeedsEvidence, BanWithinHorizon
    <2>2. CASE Tick
        BY <2>2, TickKeeps
    <2>3. ASSUME NEW w \in Worker, Begin(w) PROVE PairIInv'
        BY <2>3, BeginKeeps
    <2>4. ASSUME NEW w \in Worker, Step(w) PROVE PairIInv'
        BY <2>4, PlainStepKeeps, LoadAvgKeeps, StoreAvgKeeps, ReadClockKeeps,
           UntilStepKeeps
        DEF Step
    <2> QED
        BY <2>1, <2>2, <2>3, <2>4 DEF PairNext
<1> QED
    BY PairInitIInv, <1>1, PTL DEF PairSpec

\* The fields of RouteState and the registers of every task keep their types.
THEOREM PairTypeCorrect == PairSpec => []PairTypeOK
<1>1. PairIInv => PairTypeOK
    BY DEF PairIInv
<1> QED
    BY PairInductive, <1>1, PTL

\* blend_latency as a load and a later store: whatever is lost or late, a measured
\* average lies between two of the samples that were blended in, for any number of
\* tasks and samples of any size.
THEOREM AverageBounded == PairSpec => []AvgWithinSamples
<1>1. PairIInv => AvgWithinSamples
    BY DEF PairIInv, FieldsSound
<1> QED
    BY PairInductive, <1>1, PTL

\* Failed responses that answer within slow_ms never make a measured proxy slow.
THEOREM SlowIsEarned == PairSpec => []SlowNeedsEvidence
<1>1. PairIInv => SlowNeedsEvidence
    BY DEF PairIInv, FieldsSound
<1> QED
    BY PairInductive, <1>1, PTL

\* ban_for with a clock read long ago: no ban is ever longer than the longest
\* one asked for, and a ban for good comes from give_up_route.
THEOREM BanBounded == PairSpec => []BanWithinHorizon
<1>1. PairIInv => BanWithinHorizon
    BY DEF PairIInv, FieldsSound
<1> QED
    BY PairInductive, <1>1, PTL
=============================================================================
