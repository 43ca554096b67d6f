------------------------------ MODULE Dispatch ------------------------------
(***************************************************************************)
(* One request from the moment its route is chosen to its answer           *)
(* (intermediate-proxy/src/dispatch/mod.rs, run): plan, try the proxies of *)
(* the plan one after the other or hedged, and when the plan is exhausted  *)
(* do what the route says: last resort, another round, or an error.        *)
(*                                                                         *)
(* The health of the proxies is that of the request's route; it is reduced *)
(* to what a plan tells apart: banned or not, globally fatal or not, the   *)
(* failures in a row up to fail_streak, and any latency.  Other requests,  *)
(* the probers and the clock change it at any moment (Elsewhere).          *)
(* The awaits of the code are the points between two actions.  At any of   *)
(* them the client may disconnect, which drops the request.                *)
(***************************************************************************)
EXTENDS Plan

CONSTANTS
    Tags,               \* tags of every proxy
    RouteDef,           \* the routes considered: a Plan route with the fields
                        \*   capture : BOOLEAN   (capture_body_bytes > 0)
                        \*   hook : BOOLEAN      (on_response is defined)
                        \*   maxParallel : Nat \ {0}   (max(1, hedge.max_parallel))
    Override,           \* override_pool tag sets on_request may return
    Status,             \* statuses of responses
    Latency,            \* average latencies a proxy can have when planned
    MaxHardAttempts,    \* MAX_HARD_ATTEMPTS
    StartDown,          \* the proxies that may be banned or fatal at the start
    MaxElsewhere,       \* changes of health from elsewhere in a behaviour
    None

ASSUME DispatchAssumption ==
    /\ \A r \in RouteDef : r.maxAttempts \in Nat \ {0} /\ r.maxParallel \in Nat \ {0}
    /\ MaxHardAttempts \in Nat /\ MaxElsewhere \in Nat
    /\ Status \subseteq Nat /\ None \notin Proxy /\ None \notin Status

VARIABLES
    route,          \* the route of the request
    poolAll,        \* required tags: the route's or the override's
    poolAny,        \* any-of tags: the route's, none when overridden
    forced,         \* force_proxy of on_request, until it is used
    banned,         \* banned[p]: banned on this route now
    fatal,          \* fatal[p]: Entry.transport_fatal
    fails,          \* fails[p]: consecutive_failures, no further than fail_streak
    pc,             \* where run stands
    plan,           \* the plan of this round
    next,           \* index of the next candidate of the plan
    tried,          \* urls this request has tried since the last retry_all
    phase,          \* phase[p]: what the attempt on p awaits
    held,           \* held[p]: status of the response whose body is read
    failures,       \* failures[s]: buffered failed responses with status s
    fallback,       \* rest of the last-resort list
    hardRounds,     \* hard_rounds
    answer,         \* the response
    attempts,       \* history: attempts started from plans
    elsewhere       \* history: changes of health by others

health == <<banned, fatal, fails>>
setup == <<route, poolAll, poolAny>>
vars == <<setup, forced, health, pc, plan, next, tried, phase, held, failures,
          fallback, hardRounds, answer, attempts, elsewhere>>

Phases == {"idle", "sending", "capturing", "sleeping", "buffering"}

NoAnswer == [kind |-> "none", by |-> None, status |-> None]

Over == pc \in {"answered", "gone"}

Verdicts == {"success", "return_as_is", "retry_other", "hard_fail", "retry_same", "give_up"}

\* default_verdict: of a route without on_response.
DefaultVerdict(s) ==
    CASE s = 403 -> "return_as_is"
      [] s \in {421, 429} \/ s >= 500 -> "retry_other"
      [] OTHER -> "success"

\* The statuses the last resort passes over.
IsFailure(s) == s \in {403, 421, 429} \/ s \in 500..599

-----------------------------------------------------------------------------
InFlight == {p \in Proxy : phase[p] # "idle"}

Hedged == route.selector = "hedge"

\* The plan depends on the cursor, or on the header.
Rotates == route.selector \in {"round_robin", "sticky_by_header"}

\* What a plan made now can see of the proxies; any of them may be slow.
Views ==
    {[tags |-> Tags,
      tier |-> [p \in Proxy |-> EntryTier(fatal[p], banned[p], fails[p], latency[p])],
      latency |-> latency] : latency \in [Proxy -> Latency]}

Init ==
    /\ route \in RouteDef
    \* on_request runs once, before the first plan
    /\ \/ poolAll = route.poolAll /\ poolAny = route.poolAny
       \/ poolAll \in Override /\ poolAny = {}
    /\ forced \in Proxy \cup {None}
    /\ banned \in [Proxy -> BOOLEAN] /\ fatal \in [Proxy -> BOOLEAN]
    /\ \A p \in Proxy : banned[p] \/ fatal[p] => p \in StartDown
    /\ fails = [p \in Proxy |-> 0]
    /\ pc = "plan"
    /\ plan = <<>> /\ next = 1 /\ tried = {}
    /\ phase = [p \in Proxy |-> "idle"]
    /\ held = [p \in Proxy |-> None]
    /\ failures = [s \in Status |-> 0]
    /\ fallback = <<>>
    /\ hardRounds = 0
    /\ answer = NoAnswer
    /\ attempts = 0 /\ elsewhere = 0

-----------------------------------------------------------------------------
\* record_success: consecutive_failures and the ban are reset, not the flag.
RecordSuccess(p) ==
    /\ fails' = [fails EXCEPT ![p] = 0]
    /\ banned' = [banned EXCEPT ![p] = FALSE]
    /\ UNCHANGED fatal

\* record_failure: one more failure, maybe a ban, maybe the global flag.
RecordFailure(p, ban, globalFatal) ==
    /\ fails' = [fails EXCEPT ![p] = IF @ < FailStreak THEN @ + 1 ELSE @]
    /\ banned' = [banned EXCEPT ![p] = @ \/ ban]
    /\ fatal' = [fatal EXCEPT ![p] = @ \/ globalFatal]

RecordNothing == UNCHANGED health

-----------------------------------------------------------------------------
\* Positions of the plan, from n on, whose proxy this request has not tried.
Untried(n) == {i \in n..Len(plan) : plan[i] \notin tried}

\* launch of dispatch_hedged: skip the proxies tried already, start the next
\* one.  "running" is the phase function without the attempt that just ended.
Launch(running) ==
    IF Untried(next) = {}
    THEN /\ next' = Len(plan) + 1
         /\ phase' = running
         /\ UNCHANGED <<tried, attempts>>
    ELSE LET i == CHOOSE i \in Untried(next) : \A j \in Untried(next) : i <= j
         IN  /\ next' = i + 1
             /\ tried' = tried \cup {plan[i]}
             /\ phase' = [running EXCEPT ![plan[i]] = "sending"]
             /\ attempts' = attempts + 1

\* The top of run's loop: build_plan, the forced proxy in front (once, whatever
\* its health and tags; an unknown url is ignored), then the dispatcher.
MakePlan ==
    /\ pc = "plan"
    /\ \E view \in Views, turn \in IF Rotates THEN DOMAIN Snapshot ELSE {1} :
         \E built \in BuildPlans(route, poolAll, poolAny, view, turn, turn) :
            plan' = (IF forced = None THEN <<>> ELSE <<forced>>) \o built
    /\ forced' = None
    /\ next' = 1
    /\ pc' = CASE plan' = <<>> -> "exhausted"
               [] plan' # <<>> /\ Hedged -> "start_hedge"
               [] OTHER -> "sequential"
    /\ UNCHANGED <<setup, health, tried, phase, held, failures, fallback,
                   hardRounds, answer, attempts, elsewhere>>

\* dispatch_sequential: the next candidate, tried before or not.
NextCandidate ==
    /\ pc = "sequential"
    /\ InFlight = {}
    /\ IF next > Len(plan)
       THEN /\ pc' = "exhausted"
            /\ UNCHANGED <<tried, next, phase, attempts>>
       ELSE /\ tried' = tried \cup {plan[next]}
            /\ phase' = [phase EXCEPT ![plan[next]] = "sending"]
            /\ next' = next + 1
            /\ attempts' = attempts + 1
            /\ UNCHANGED pc
    /\ UNCHANGED <<setup, forced, health, plan, held, failures, fallback,
                   hardRounds, answer, elsewhere>>

\* dispatch_hedged starts with one attempt, if any candidate is untried.
StartHedge ==
    /\ pc = "start_hedge"
    /\ Launch(phase)
    /\ pc' = IF Untried(next) = {} THEN "exhausted" ELSE "hedge"
    /\ UNCHANGED <<setup, forced, health, plan, held, failures, fallback,
                   hardRounds, answer, elsewhere>>

\* Mutant of HedgeTimer: one attempt too many.
HedgeTimerOneMore ==
    /\ pc = "hedge"
    /\ InFlight # {}
    /\ Cardinality(InFlight) <= route.maxParallel
    /\ Launch(phase)
    /\ UNCHANGED <<setup, forced, health, pc, plan, held, failures, fallback,
                   hardRounds, answer, elsewhere>>

\* The hedge timer: one more attempt in parallel, up to max_parallel.
HedgeTimer ==
    /\ pc = "hedge"
    /\ InFlight # {}
    /\ Cardinality(InFlight) < route.maxParallel
    /\ Launch(phase)
    /\ UNCHANGED <<setup, forced, health, pc, plan, held, failures, fallback,
                   hardRounds, answer, elsewhere>>

-----------------------------------------------------------------------------
\* Mutant of AttemptFailed: a hedged dispatch stops when nothing is left to
\* launch, whether or not attempts are running.
AttemptFailedStopsEarly(p, s) ==
    /\ failures' = IF s = None THEN failures ELSE [failures EXCEPT ![s] = @ + 1]
    /\ held' = [held EXCEPT ![p] = None]
    /\ IF Hedged
       THEN /\ Launch([phase EXCEPT ![p] = "idle"])
            /\ pc' = IF Untried(next) = {} THEN "exhausted" ELSE pc
       ELSE /\ phase' = [phase EXCEPT ![p] = "idle"]
            /\ UNCHANGED <<pc, next, tried, attempts>>
    /\ UNCHANGED <<setup, forced, plan, fallback, hardRounds, answer, elsewhere>>

\* AttemptErr::Next: the attempt on p failed, with a buffered response of
\* status s unless s = None.  A hedged dispatch replaces it at once and is
\* exhausted when nothing is left in flight.
AttemptFailed(p, s) ==
    /\ failures' = IF s = None THEN failures ELSE [failures EXCEPT ![s] = @ + 1]
    /\ held' = [held EXCEPT ![p] = None]
    /\ IF Hedged
       THEN /\ Launch([phase EXCEPT ![p] = "idle"])
            /\ pc' = IF InFlight = {p} /\ Untried(next) = {} THEN "exhausted" ELSE pc
       ELSE /\ phase' = [phase EXCEPT ![p] = "idle"]
            /\ UNCHANGED <<pc, next, tried, attempts>>
    /\ UNCHANGED <<setup, forced, plan, fallback, hardRounds, answer, elsewhere>>

\* Mutant of AttemptOk: the attempts that lost the race go on.
AttemptOkKeepsLosers(p, kind, s) ==
    /\ pc' = "answered"
    /\ answer' = [kind |-> kind, by |-> p, status |-> s]
    /\ phase' = [phase EXCEPT ![p] = "idle"]
    /\ UNCHANGED <<setup, forced, plan, next, tried, held, failures, fallback,
                   hardRounds, attempts, elsewhere>>

\* AttemptOk: the request is answered; hedged attempts still running are dropped.
AttemptOk(p, kind, s) ==
    /\ pc' = "answered"
    /\ answer' = [kind |-> kind, by |-> p, status |-> s]
    /\ phase' = [q \in Proxy |-> "idle"]
    /\ held' = [q \in Proxy |-> None]
    /\ UNCHANGED <<setup, forced, plan, next, tried, failures, fallback,
                   hardRounds, attempts, elsewhere>>

\* The attempt on p waits on.
AttemptAwaits(p, what, s) ==
    /\ phase' = [phase EXCEPT ![p] = what]
    /\ held' = [held EXCEPT ![p] = s]
    /\ UNCHANGED <<setup, forced, pc, plan, next, tried, failures, fallback,
                   hardRounds, answer, attempts, elsewhere>>

\* No response: a connect-class error marks the proxy fatal, a timeout or a
\* later error does not.
NoResponse(p) ==
    /\ phase[p] = "sending"
    /\ \E connect \in BOOLEAN : RecordFailure(p, FALSE, connect)
    /\ AttemptFailed(p, None)

\* A route that inspects bodies reads the whole response before it judges it.
HeadArrives(p) ==
    /\ phase[p] = "sending"
    /\ route.capture
    /\ RecordNothing
    /\ \E s \in Status : AttemptAwaits(p, "capturing", s)

\* The body breaks off while it is read.
CaptureBroken(p) ==
    /\ phase[p] = "capturing"
    /\ RecordFailure(p, FALSE, FALSE)
    /\ AttemptFailed(p, None)

\* The response on p, of status s, is judged, as one of vs.
Judged(p, s, vs) ==
    /\ IF route.capture THEN phase[p] = "capturing" /\ s = held[p] ELSE phase[p] = "sending"
    /\ vs \cap (IF route.hook THEN Verdicts ELSE {DefaultVerdict(s)}) # {}

VerdictSuccess(p, s) ==
    /\ Judged(p, s, {"success", "return_as_is"})
    /\ RecordSuccess(p)
    /\ AttemptOk(p, "response", s)

\* retry_other_proxy: recorded with a ban; an HTML page is not kept, a captured
\* body is at hand, any other body is read first.
VerdictRetryOther(p, s) ==
    /\ Judged(p, s, {"retry_other"})
    /\ RecordFailure(p, TRUE, FALSE)
    /\ \/ AttemptFailed(p, None)
       \/ route.capture /\ AttemptFailed(p, s)
       \/ ~route.capture /\ AttemptAwaits(p, "buffering", s)

\* buffer_failed has read what it keeps of the body, the end or an error.
Buffered(p) ==
    /\ pc # "fallback"
    /\ phase[p] = "buffering"
    /\ RecordNothing
    /\ AttemptFailed(p, held[p])

\* hard_fail: the streaming path marks the proxy fatal, the capture path only
\* for a reason that reads like a connect error.
VerdictHardFail(p, s) ==
    /\ Judged(p, s, {"hard_fail"})
    /\ \E connect \in BOOLEAN : RecordFailure(p, FALSE, ~route.capture \/ connect)
    /\ AttemptFailed(p, None)

\* retry_same_proxy: sleeps, and only then records the failure.
VerdictRetrySame(p, s) ==
    /\ Judged(p, s, {"retry_same"})
    /\ RecordNothing
    /\ AttemptAwaits(p, "sleeping", None)

DelayOver(p) ==
    /\ phase[p] = "sleeping"
    /\ RecordFailure(p, FALSE, FALSE)
    /\ AttemptFailed(p, None)

\* give_up answers from the hook and records nothing.
VerdictGiveUp(p, s) ==
    /\ Judged(p, s, {"give_up"})
    /\ RecordNothing
    /\ AttemptOk(p, "give_up", None)

Attempt(p) ==
    \/ NoResponse(p) \/ HeadArrives(p) \/ CaptureBroken(p)
    \/ \E s \in Status : \/ VerdictSuccess(p, s) \/ VerdictGiveUp(p, s)
                        \/ VerdictRetryOther(p, s) \/ VerdictHardFail(p, s)
                        \/ VerdictRetrySame(p, s)
    \/ Buffered(p) \/ DelayOver(p)

-----------------------------------------------------------------------------
\* build_most_common: a status that failed most often, otherwise 502.
GiveFinalAnswer ==
    /\ pc' = "answered"
    /\ IF \A s \in Status : failures[s] = 0
       THEN answer' = [kind |-> "exhausted", by |-> None, status |-> None]
       ELSE \E s \in Status :
              /\ \A t \in Status : failures[t] <= failures[s]
              /\ answer' = [kind |-> "failure", by |-> None, status |-> s]

\* on_exhausted: try_fatal (also without a hook, and when the hook fails).
TryFatal ==
    /\ pc = "exhausted"
    /\ \E view \in Views :
         fallback' \in FallbackPool(route, poolAll, poolAny, view, tried)
    /\ pc' = "fallback"
    /\ UNCHANGED <<setup, forced, health, plan, next, tried, phase, held, failures,
                   hardRounds, answer, attempts, elsewhere>>

\* Mutant of AnotherRound: the rounds are not counted.
AnotherRoundUncounted(forget) ==
    /\ pc = "exhausted"
    /\ pc' = "plan"
    /\ tried' = IF forget THEN {} ELSE tried
    /\ UNCHANGED <<setup, forced, health, plan, next, phase, held, failures,
                   fallback, hardRounds, answer, attempts, elsewhere>>

\* wait_probe and retry_all: another round unless this was the last; only
\* retry_all forgets what was tried.
AnotherRound(forget) ==
    /\ pc = "exhausted"
    /\ hardRounds' = hardRounds + 1
    /\ IF hardRounds' >= MaxHardAttempts
       THEN GiveFinalAnswer /\ UNCHANGED tried
       ELSE /\ pc' = "plan"
            /\ tried' = IF forget THEN {} ELSE tried
            /\ UNCHANGED answer
    /\ UNCHANGED <<setup, forced, health, plan, next, phase, held, failures,
                   fallback, attempts, elsewhere>>

WaitProbe == AnotherRound(FALSE)

RetryAll == AnotherRound(TRUE)

ReturnError ==
    /\ pc = "exhausted"
    /\ pc' = "answered"
    /\ answer' = [kind |-> "route_error", by |-> None, status |-> None]
    /\ UNCHANGED <<setup, forced, health, plan, next, tried, phase, held, failures,
                   fallback, hardRounds, attempts, elsewhere>>

\* try_fatal: the next proxy of the list.  It does not respond or sends a page
\* of HTML, fails with a status and a body to keep, or its response is the
\* answer; nothing is recorded about it.
TryFallback ==
    /\ pc = "fallback"
    /\ InFlight = {}
    /\ fallback # <<>>
    /\ fallback' = Tail(fallback)
    /\ LET p == Head(fallback) IN
       \/ UNCHANGED <<pc, phase, held, answer>>
       \/ \E s \in Status :
            IF IsFailure(s)
            THEN /\ phase' = [phase EXCEPT ![p] = "buffering"]
                 /\ held' = [held EXCEPT ![p] = s]
                 /\ UNCHANGED <<pc, answer>>
            ELSE /\ pc' = "answered"
                 /\ answer' = [kind |-> "response", by |-> p, status |-> s]
                 /\ UNCHANGED <<phase, held>>
    /\ UNCHANGED <<setup, forced, health, plan, next, tried, failures, hardRounds,
                   attempts, elsewhere>>

\* The body it failed with is read.
FallbackBuffered(p) ==
    /\ pc = "fallback"
    /\ phase[p] = "buffering"
    /\ failures' = [failures EXCEPT ![held[p]] = @ + 1]
    /\ phase' = [phase EXCEPT ![p] = "idle"]
    /\ held' = [held EXCEPT ![p] = None]
    /\ UNCHANGED <<setup, forced, health, pc, plan, next, tried, fallback, hardRounds,
                   answer, attempts, elsewhere>>

FallbackExhausted ==
    /\ pc = "fallback"
    /\ InFlight = {}
    /\ fallback = <<>>
    /\ GiveFinalAnswer
    /\ UNCHANGED <<setup, forced, health, plan, next, tried, phase, held, failures,
                   fallback, hardRounds, attempts, elsewhere>>

-----------------------------------------------------------------------------
\* The client disconnects: the request is dropped where it waits, with its
\* attempts and all it knows.
ClientGone ==
    /\ ~Over
    /\ pc' = "gone"
    /\ phase' = [p \in Proxy |-> "idle"]
    /\ held' = [p \in Proxy |-> None]
    /\ forced' = None /\ plan' = <<>> /\ next' = 1 /\ tried' = {}
    /\ failures' = [s \in Status |-> 0]
    /\ fallback' = <<>> /\ hardRounds' = 0 /\ attempts' = 0
    /\ UNCHANGED <<setup, health, answer, elsewhere>>

\* Another request, a prober or the clock changes the health of p.
Elsewhere(p) ==
    /\ ~Over
    /\ elsewhere < MaxElsewhere
    /\ elsewhere' = elsewhere + 1
    /\ \E b, f \in BOOLEAN, n \in {0, FailStreak} :
         /\ banned' = [banned EXCEPT ![p] = b]
         /\ fatal' = [fatal EXCEPT ![p] = f]
         /\ fails' = [fails EXCEPT ![p] = n]
    /\ UNCHANGED <<setup, forced, pc, plan, next, tried, phase, held, failures,
                   fallback, hardRounds, answer, attempts>>

\* The attempt on p waits for a body.
OnBody(p) == phase[p] \in {"capturing", "buffering"}

\* What the runtime, the clock and a timeout bring about.
Prompt ==
    \/ MakePlan
    \/ NextCandidate \/ StartHedge \/ HedgeTimer
    \/ \E p \in Proxy : ~OnBody(p) /\ Attempt(p)
    \/ TryFatal \/ WaitProbe \/ RetryAll \/ ReturnError
    \/ TryFallback \/ FallbackExhausted

\* What only an upstream brings about: no timeout covers the wait for a body.
BodyEnds == \E p \in Proxy : OnBody(p) /\ (Attempt(p) \/ FallbackBuffered(p))

Next == Prompt \/ BodyEnds \/ ClientGone \/ \E p \in Proxy : Elsewhere(p)

Spec == Init /\ [][Next]_vars

\* The task of the request is polled again and again, timers fire, and a send
\* ends by its timeout.  Nothing is assumed of the bodies.
FairSpec == Spec /\ WF_vars(Prompt)

-----------------------------------------------------------------------------
TypeOK ==
    /\ route \in RouteDef
    /\ forced \in Proxy \cup {None}
    /\ banned \in [Proxy -> BOOLEAN] /\ fatal \in [Proxy -> BOOLEAN]
    /\ fails \in [Proxy -> 0..FailStreak]
    /\ pc \in {"plan", "sequential", "start_hedge", "hedge", "exhausted",
               "fallback", "answered", "gone"}
    /\ plan \in Seq(Proxy) /\ next \in 1..(Len(plan) + 1)
    /\ tried \subseteq Proxy
    /\ phase \in [Proxy -> Phases] /\ held \in [Proxy -> Status \cup {None}]
    /\ failures \in [Status -> Nat]
    /\ fallback \in Seq(Proxy)
    /\ hardRounds \in Nat
    /\ answer.by \in Proxy \cup {None} /\ answer.status \in Status \cup {None}
    /\ attempts \in Nat /\ elsewhere \in 0..MaxElsewhere

\* The code runs at most max_parallel attempts at a time when it hedges, and
\* one at a time when it does not: a failed attempt is replaced, the timer adds
\* one only below the limit.
ParallelWithinLimit ==
    Cardinality(InFlight) <= IF Hedged THEN route.maxParallel ELSE 1

\* However the rounds go, a request starts no more attempts from plans than
\* max_attempts in each round, and one more for a forced proxy.
AttemptBudget ==
    attempts <= (hardRounds + 1) * route.maxAttempts + 1

\* The route's on_exhausted policy, the last resort and the failure answer come
\* only when every candidate of the plan was tried and no attempt is running;
\* the last resort repeats no proxy that was tried.
ExhaustedMeansTried ==
    /\ (pc \in {"exhausted", "fallback"} \/ answer.kind \in {"exhausted", "failure"}) =>
           Range(plan) \subseteq tried /\ InFlight \cap tried = {}
    /\ pc = "fallback" => (Range(fallback) \cup InFlight) \cap tried = {}

\* This request changes the health of a proxy only by an attempt on it that is
\* still waiting for its response or its delay: not when the attempt lost the
\* race or the client left, not while a failed body is buffered, not in the last
\* resort, never after the answer.
RecordsOnlyWhileRunning ==
    [][elsewhere' = elsewhere =>
         \A p \in Proxy :
            <<banned[p], fatal[p], fails[p]>>' # <<banned[p], fatal[p], fails[p]>> =>
                ~Over /\ phase[p] \in {"sending", "capturing", "sleeping"}]_vars

\* MAX_HARD_ATTEMPTS ends the rounds a route asks for, and every wait but that
\* for a body ends: a request that is never answered waits for bodies only, as
\* many as it may have in flight or with nothing left to launch beside them.
OnlyBodiesHoldTheAnswer ==
    <>[](Over \/ /\ InFlight # {}
                 /\ \A p \in InFlight : OnBody(p)
                 /\ pc = "hedge" => \/ Cardinality(InFlight) >= route.maxParallel
                                   \/ Untried(next) = {})
=============================================================================
