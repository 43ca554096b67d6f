------------------------------ MODULE Probers -------------------------------
(***************************************************************************)
(* The two background loops that bring proxies back                        *)
(* (intermediate-proxy/src/route/prober.rs).  The route prober walks the   *)
(* (route, proxy) pairs every second and probes the ones that are banned   *)
(* or fatal; the transport prober walks the fatal proxies.  Each loop      *)
(* takes a permit of its own semaphore and hands the probe to a task,      *)
(* which gives the permit back when it ends.                               *)
(*                                                                         *)
(* The walk reads the clock and the list once; what it read is old by the  *)
(* time a permit is free.  Requests ban, mark and restore proxies all the  *)
(* while.  Whole operations of RouteState are one step here (see           *)
(* RouteHealth for their interleaving).                                    *)
(***************************************************************************)
EXTENDS Health, Sequences, SequencesExt, FiniteSets

CONSTANTS
    Route,          \* routes with a probe
    Proxy,          \* the proxies
    Pairs,          \* the pairs in walking order: by route, then by proxy
    List,           \* the proxies in walking order
    Classify,       \* the routes whose probe has a classify function
    Interval,       \* probe.interval_ms, in clock units
    BanMs,          \* length of a request's ban
    Cap,            \* max(1, MAX_CONCURRENT_PROBES)
    Task,           \* names for probe tasks; more than Cap of them
    Horizon,        \* the last instant of the clock
    MaxEvents,      \* what requests and the network do in a behaviour
    None

ASSUME ProbersAssumption ==
    /\ IsFiniteSet(Task) /\ Cardinality(Task) > Cap
    /\ Cap \in Nat \ {0}
    /\ Interval \in Nat /\ BanMs \in Nat /\ Horizon \in Nat /\ MaxEvents \in Nat
    /\ Classify \subseteq Route
    /\ Pairs \in Seq(Route \X Proxy) /\ List \in Seq(Proxy)
    /\ None \notin Route \X Proxy /\ None \notin Proxy

VARIABLES
    now,            \* now_ms()
    until,          \* until[r, p]: banned_until_ms
    fatal,          \* fatal[p]: transport_fatal
    lastProbe,      \* lastProbe[r, p]: last_probe_ms
    routeWalk,      \* pairs the route prober has still to look at in this tick
    tickNow,        \* the clock as the route prober read it at the tick
    routeWake,      \* when its one-second sleep ends
    routeWants,     \* the pair it waits for a permit for
    routePermits,   \* free permits of its semaphore
    routeProbe,     \* routeProbe[t]: the pair task t probes
    spent,          \* history: spent[r, p]: Interval for every probe launched
    fatalWalk,      \* the same three for the transport prober
    fatalWants,
    fatalPermits,
    fatalProbe,     \* fatalProbe[t]: the proxy task t probes
    reachable,      \* network: the proxies that answer
    events          \* history: events so far

state == <<until, fatal>>
routeLoop == <<lastProbe, routeWalk, tickNow, routeWake, routeWants, routePermits,
              routeProbe, spent>>
fatalLoop == <<fatalWalk, fatalWants, fatalPermits, fatalProbe>>
world == <<reachable, events>>
vars == <<now, state, routeLoop, fatalLoop, world>>

RoutePair == Route \X Proxy

\* last_probe_ms starts at 0, the epoch; the clock here starts with the process.
LongAgo == -Interval

-----------------------------------------------------------------------------
RouteProbes == {t \in Task : routeProbe[t] # None}
FatalProbes == {t \in Task : fatalProbe[t] # None}

Init ==
    /\ now = 0
    /\ until = [rp \in RoutePair |-> 0]
    /\ fatal = [p \in Proxy |-> FALSE]
    /\ lastProbe = [rp \in RoutePair |-> LongAgo]
    /\ routeWalk = <<>> /\ tickNow = 0 /\ routeWake = 1 /\ routeWants = None
    /\ routePermits = Cap
    /\ routeProbe = [t \in Task |-> None] /\ spent = [rp \in RoutePair |-> 0]
    /\ fatalWalk = <<>> /\ fatalWants = None
    /\ fatalPermits = Cap
    /\ fatalProbe = [t \in Task |-> None]
    /\ reachable = Proxy
    /\ events = 0

\* A walk that waits for no permit is over within one unit of the clock.
RouteProberBusy ==
    \/ routeWants = None /\ routeWalk # <<>>
    \/ routeWants # None /\ routePermits > 0
    \/ routeWants = None /\ routeWalk = <<>> /\ routeWake <= tickNow

ClockTick ==
    /\ now < Horizon
    /\ ~RouteProberBusy
    /\ now' = now + 1
    /\ UNCHANGED <<state, routeLoop, fatalLoop, world>>

-----------------------------------------------------------------------------
(* The route prober.                                                       *)

\* It sleeps from the end of one walk to the next (routeWake is ahead of
\* tickNow while it does).
RouteSleep ==
    /\ routeWalk = <<>> /\ routeWants = None
    /\ routeWake <= tickNow
    /\ routeWake' = now + 1
    /\ UNCHANGED <<now, state, lastProbe, routeWalk, tickNow, routeWants,
                   routePermits, routeProbe, spent, fatalLoop, world>>

\* The sleep is over: config, list and clock are read for the whole walk.
RouteTick ==
    /\ routeWake > tickNow
    /\ now >= routeWake
    /\ routeWalk' = Pairs
    /\ tickNow' = now
    /\ UNCHANGED <<now, state, lastProbe, routeWake, routeWants, routePermits,
                   routeProbe, spent, fatalLoop, world>>

\* The pair is banned (by the clock of the tick) or fatal, it is not banned for
\* good on a route without classifier, and its interval has elapsed.
Due(rp) ==
    /\ fatal[rp[2]] \/ IsBanned(until[rp], tickNow)
    /\ until[rp] = Forever => rp[1] \in Classify
    /\ tickNow - lastProbe[rp] >= Interval

\* Mutant of LookAtPair: the pair is not stamped.
LookAtPairUnstamped ==
    /\ routeWalk # <<>> /\ routeWants = None
    /\ routeWalk' = Tail(routeWalk)
    /\ routeWants' = IF Due(Head(routeWalk)) THEN Head(routeWalk) ELSE None
    /\ UNCHANGED <<now, state, lastProbe, tickNow, routeWake, routePermits, routeProbe,
                   spent, fatalLoop, world>>

\* Next pair: passed over, or stamped and then waiting for a permit.
LookAtPair ==
    /\ routeWalk # <<>> /\ routeWants = None
    /\ routeWalk' = Tail(routeWalk)
    /\ LET rp == Head(routeWalk) IN
       IF Due(rp)
       THEN /\ lastProbe' = [lastProbe EXCEPT ![rp] = tickNow]
            /\ routeWants' = rp
       ELSE UNCHANGED <<lastProbe, routeWants>>
    /\ UNCHANGED <<now, state, tickNow, routeWake, routePermits, routeProbe,
                   spent, fatalLoop, world>>

\* A permit is there: the probe goes to a task.
LaunchRouteProbe ==
    /\ routeWants # None
    /\ routePermits > 0
    /\ routePermits' = routePermits - 1
    /\ \E t \in Task \ RouteProbes : routeProbe' = [routeProbe EXCEPT ![t] = routeWants]
    /\ spent' = [spent EXCEPT ![routeWants] = @ + Interval]
    /\ routeWants' = None
    /\ UNCHANGED <<now, state, lastProbe, routeWalk, tickNow, routeWake, fatalLoop, world>>

\* Mutant of EndRouteProbe: the permit is lost.
EndRouteProbeKeepsPermit(t) ==
    /\ routeProbe[t] # None
    /\ routeProbe' = [routeProbe EXCEPT ![t] = None]
    /\ UNCHANGED <<now, lastProbe, routeWalk, tickNow, routeWake, routeWants,
                   routePermits, spent, fatalLoop, world>>

\* The task of a route probe ends; its permit is dropped with it.
EndRouteProbe(t) ==
    /\ routeProbe[t] # None
    /\ routeProbe' = [routeProbe EXCEPT ![t] = None]
    /\ routePermits' = routePermits + 1
    /\ UNCHANGED <<now, lastProbe, routeWalk, tickNow, routeWake, routeWants,
                   spent, fatalLoop, world>>

\* Verdict ok: clear_ban, and the global flag too.
ProbeOk(t) ==
    /\ EndRouteProbe(t)
    /\ routeProbe[t][2] \in reachable
    /\ until' = [until EXCEPT ![routeProbe[t]] = 0]
    /\ fatal' = [fatal EXCEPT ![routeProbe[t][2]] = FALSE]

\* Verdict still_banned, or no reply: nothing, not even a longer ban.
ProbeInVain(t) == EndRouteProbe(t) /\ UNCHANGED state

\* Verdict give_up_route, which only a classifier returns.
ProbeGivesUp(t) ==
    /\ EndRouteProbe(t)
    /\ routeProbe[t][2] \in reachable
    /\ routeProbe[t][1] \in Classify
    /\ until' = [until EXCEPT ![routeProbe[t]] = Forever]
    /\ UNCHANGED fatal

-----------------------------------------------------------------------------
(* The transport prober.                                                   *)

FatalTick ==
    /\ fatalWalk = <<>> /\ fatalWants = None
    /\ fatalWalk' = List
    /\ UNCHANGED <<now, state, routeLoop, fatalWants, fatalPermits, fatalProbe, world>>

LookAtProxy ==
    /\ fatalWalk # <<>> /\ fatalWants = None
    /\ fatalWalk' = Tail(fatalWalk)
    /\ fatalWants' = IF fatal[Head(fatalWalk)] THEN Head(fatalWalk) ELSE None
    /\ UNCHANGED <<now, state, routeLoop, fatalPermits, fatalProbe, world>>

LaunchFatalProbe ==
    /\ fatalWants # None
    /\ fatalPermits > 0
    /\ fatalPermits' = fatalPermits - 1
    /\ \E t \in Task \ FatalProbes : fatalProbe' = [fatalProbe EXCEPT ![t] = fatalWants]
    /\ fatalWants' = None
    /\ UNCHANGED <<now, state, routeLoop, fatalWalk, world>>

\* Mutant of EndFatalProbe: the permit is lost.
EndFatalProbeKeepsPermit(t) ==
    /\ fatalProbe[t] # None
    /\ fatal' = [fatal EXCEPT ![fatalProbe[t]] = @ /\ fatalProbe[t] \notin reachable]
    /\ fatalProbe' = [fatalProbe EXCEPT ![t] = None]
    /\ UNCHANGED <<now, until, routeLoop, fatalWalk, fatalWants, fatalPermits, world>>

\* Any reply clears the flag; no reply leaves it.
EndFatalProbe(t) ==
    /\ fatalProbe[t] # None
    /\ fatal' = [fatal EXCEPT ![fatalProbe[t]] = @ /\ fatalProbe[t] \notin reachable]
    /\ fatalProbe' = [fatalProbe EXCEPT ![t] = None]
    /\ fatalPermits' = fatalPermits + 1
    /\ UNCHANGED <<now, until, routeLoop, fatalWalk, fatalWants, world>>

-----------------------------------------------------------------------------
(* Requests and the network.                                               *)

Event ==
    /\ events < MaxEvents
    /\ events' = events + 1
    /\ UNCHANGED <<now, routeLoop, fatalLoop>>

RequestBans(rp) ==
    /\ Event
    /\ until' = [until EXCEPT ![rp] = BanExpiry(now, BanMs)]
    /\ UNCHANGED <<fatal, reachable>>

\* record_success clears the ban of its route, not the flag.
RequestSucceeds(rp) ==
    /\ Event
    /\ until' = [until EXCEPT ![rp] = 0]
    /\ UNCHANGED <<fatal, reachable>>

RequestMarksFatal(p) ==
    /\ Event
    /\ fatal' = [fatal EXCEPT ![p] = TRUE]
    /\ UNCHANGED <<until, reachable>>

NetworkChanges(p) ==
    /\ Event
    /\ reachable' = IF p \in reachable THEN reachable \ {p} ELSE reachable \cup {p}
    /\ UNCHANGED state

-----------------------------------------------------------------------------
RouteProber == RouteSleep \/ RouteTick \/ LookAtPair \/ LaunchRouteProbe

TransportProber == FatalTick \/ LookAtProxy \/ LaunchFatalProbe

RouteProbeEnds(t) == ProbeOk(t) \/ ProbeInVain(t) \/ ProbeGivesUp(t)

Environment ==
    \/ \E rp \in RoutePair : RequestBans(rp) \/ RequestSucceeds(rp)
    \/ \E p \in Proxy : RequestMarksFatal(p) \/ NetworkChanges(p)

Next ==
    \/ ClockTick
    \/ RouteProber \/ TransportProber
    \/ \E t \in Task : RouteProbeEnds(t) \/ EndFatalProbe(t)
    \/ Environment

Spec == Init /\ [][Next]_vars

\* The loops are tasks of the runtime and every probe has a timeout.
FairSpec ==
    /\ Spec
    /\ WF_vars(RouteProber) /\ WF_vars(TransportProber)
    /\ \A t \in Task : WF_vars(RouteProbeEnds(t)) /\ WF_vars(EndFatalProbe(t))

-----------------------------------------------------------------------------
TypeOK ==
    /\ now \in Nat /\ tickNow \in 0..now
    /\ until \in [RoutePair -> Nat]
    /\ fatal \in [Proxy -> BOOLEAN]
    /\ routeWake \in Nat
    /\ lastProbe \in [RoutePair -> LongAgo..tickNow]
    /\ routeWalk \in Seq(RoutePair) /\ fatalWalk \in Seq(Proxy)
    /\ routeWants \in RoutePair \cup {None} /\ fatalWants \in Proxy \cup {None}
    /\ routePermits \in Nat /\ fatalPermits \in Nat
    /\ routeProbe \in [Task -> RoutePair \cup {None}]
    /\ fatalProbe \in [Task -> Proxy \cup {None}]
    /\ spent \in [RoutePair -> Nat]
    /\ reachable \subseteq Proxy
    /\ events \in Nat

\* No permit is lost or made: every way a probe ends gives its own one back, so
\* a prober that waits for a permit waits for a probe that is running.
PermitsAreConserved ==
    /\ routePermits + Cardinality(RouteProbes) = Cap
    /\ fatalPermits + Cardinality(FatalProbes) = Cap

\* MAX_CONCURRENT_PROBES bounds the probes of each prober, so twice as many of
\* both.
ProbesWithinTwiceCap ==
    Cardinality(RouteProbes) + Cardinality(FatalProbes) <= 2 * Cap

\* The interval of a probe bounds how many are launched for a pair, from the
\* start to any moment: one is stamped with its tick before it waits for a
\* permit, so two may follow each other closely, but the delay of one is not
\* made up for by further ones.
ProbesFollowTheInterval == \A rp \in RoutePair : spent[rp] <= now + Interval

\* The route prober always comes to the end of its walk, however many probes
\* hang until their timeout.
RouteWalkEnds == []<>(routeWalk = <<>> /\ routeWants = None)

\* README: the transport prober restores a fatal proxy when it answers again.
ReachableIsRestored ==
    \A p \in Proxy : <>[](p \in reachable) => <>[](~fatal[p])
=============================================================================
