---------------------------- MODULE RouteHealth -----------------------------
(***************************************************************************)
(* One (route, proxy) pair under concurrency.  The request tasks and the   *)
(* two probers run on a multi-threaded runtime and share RouteState, whose *)
(* fields are separate relaxed atomics: record_success, record_failure and *)
(* a probe's verdict are not atomic, they are the accesses below, one after*)
(* the other, and the accesses of several tasks interleave freely.         *)
(*                                                                         *)
(* The reporting counters (success_count, error_count, last_*_ms, the text *)
(* of last_error_reason) decide nothing and are left out.                  *)
(*                                                                         *)
(* The specification is PairSpec: no name of it is one of Probers, so that *)
(* HealthProofs can extend both.                                           *)
(***************************************************************************)
EXTENDS Health, Sequences

CONSTANTS
    Worker,         \* the tasks: requests in flight and spawned probes
    Sample,         \* the latencies a response can have, in ms
    BanLengths,     \* the ban lengths the verdicts of the route ask for
    MaxBan,         \* the largest of them
    LastInstant,    \* the last instant of the clock
    MaxOps          \* operations started in a behaviour

ASSUME RouteHealthAssumption ==
    /\ Sample \subseteq Nat
    /\ MaxBan \in Nat /\ BanLengths \subseteq 0..MaxBan
    /\ LastInstant \in Nat
    /\ MaxOps \in Nat

VARIABLES
    clock,          \* now_ms()
    bannedUntil,    \* banned_until_ms
    fails,          \* consecutive_failures
    succs,          \* consecutive_successes
    avg,            \* avg_latency_ms
    transportFatal, \* Entry.transport_fatal
    todo,           \* todo[w]: accesses worker w has still to make, in order
    newAvg,         \* newAvg[w]: average w has computed and not yet stored
    newUntil,       \* newUntil[w]: expiry w has computed and not yet stored
    ops,            \* operations started
    samples,        \* history: the samples blended into the average so far
    seen            \* history: what the operations started so far reported

shared == <<bannedUntil, fails, succs, avg, transportFatal>>
local == <<newAvg, newUntil>>
pairVars == <<clock, bannedUntil, fails, succs, avg, transportFatal,
              todo, newAvg, newUntil, ops, samples, seen>>

\* What seen can hold: a response slower than slow_ms; a failed response that
\* was the first measurement; a ban for good.
Evidence == {"slow_sample", "cold_failure", "give_up_route"}

-----------------------------------------------------------------------------
\* An access and its operand: the latency blended in or the length of the ban.
Access(op, v) == [op |-> op, v |-> v]
Do(op) == Access(op, 0)

\* blend_latency: a load and, computed from it, a store.
BlendSteps(load, sample) == <<Access(load, sample), Do("store_avg")>>

\* ban_for: reads the clock, then stores the expiry.
BanForSteps(ms) == <<Access("read_clock", ms), Do("store_until")>>

ClearBanSteps == <<Do("zero_until"), Do("zero_fails")>>

ObserveSuccessSteps(latency) ==
    <<Do("zero_fails"), Do("inc_succs")>> \o BlendSteps("load_avg", latency)

\* Mutant of ObserveFailureSteps: blends an absent latency too.
ObserveFailureStepsAlwaysBlend(latency) ==
    <<Do("zero_succs"), Do("inc_fails")>> \o BlendSteps("load_avg_failed", latency)

\* A failure blends a latency in only when there is one (Option<u64>).
ObserveFailureSteps(latency) ==
    <<Do("zero_succs"), Do("inc_fails")>> \o
    (IF latency = NoSample THEN <<>>
     ELSE BlendSteps("load_avg_failed", FailureSample(latency)))

RecordSuccessSteps(latency) == ObserveSuccessSteps(latency) \o ClearBanSteps

MarkFatalSteps(globalFatal) == IF globalFatal THEN <<Do("set_fatal")>> ELSE <<>>

-----------------------------------------------------------------------------
PairInit ==
    /\ clock = 0
    /\ bannedUntil = 0 /\ fails = 0 /\ succs = 0 /\ avg = 0
    /\ transportFatal = FALSE
    /\ todo = [w \in Worker |-> <<>>]
    /\ newAvg = [w \in Worker |-> 0]
    /\ newUntil = [w \in Worker |-> 0]
    /\ ops = 0
    /\ samples = {} /\ seen = {}

Tick ==
    /\ clock < LastInstant
    /\ clock' = clock + 1
    /\ UNCHANGED <<shared, todo, local, ops, samples, seen>>

\* An idle worker calls an operation: it has these accesses to make.
Call(w, steps, evidence) ==
    /\ todo[w] = <<>>
    /\ ops < MaxOps
    /\ ops' = ops + 1
    /\ todo' = [todo EXCEPT ![w] = steps]
    /\ seen' = seen \cup evidence
    /\ UNCHANGED <<clock, shared, local, samples>>

SlowEvidence(l) == IF l > SlowMs THEN {"slow_sample"} ELSE {}

\* Verdicts success and return_as_is.
Success(w) == \E l \in Sample :
    Call(w, RecordSuccessSteps(l), SlowEvidence(l))

\* Another proxy resumed a broken stream: observe_success without clear_ban.
RecoverySuccess(w) == \E l \in Sample :
    Call(w, ObserveSuccessSteps(l), SlowEvidence(l))

\* No response: fatal when the error is connect-class, not fatal when it is
\* another transport error or the request timed out.
TransportError(w) == \E connect \in BOOLEAN :
    Call(w, ObserveFailureSteps(NoSample) \o MarkFatalSteps(connect), {})

\* Verdict retry_other_proxy: a failure with its latency, and a ban.
RetryOther(w) == \E l \in Sample, ms \in BanLengths :
    Call(w, ObserveFailureSteps(l) \o BanForSteps(ms), SlowEvidence(l))

\* Verdict retry_same_proxy, a body that breaks off while it is captured, and a
\* refused stream recovery: a failure with its latency and nothing else.
SoftFailure(w) == \E l \in Sample :
    Call(w, ObserveFailureSteps(l), SlowEvidence(l))

\* Verdict hard_fail: the capture path looks at the reason, the streaming path
\* marks the proxy fatal whatever the reason.
HardFail(w) == \E l \in Sample, streaming \in BOOLEAN, connect \in BOOLEAN :
    Call(w, ObserveFailureSteps(l) \o MarkFatalSteps(streaming \/ connect), SlowEvidence(l))

\* The route prober's verdicts ok and give_up_route (still_banned does nothing).
ProbeRestores(w) == Call(w, ClearBanSteps \o <<Do("clear_fatal")>>, {})

ProbeGiveUp(w) == Call(w, <<Do("store_forever")>>, {"give_up_route"})

\* The transport prober had a reply.
TransportReply(w) == Call(w, <<Do("clear_fatal")>>, {})

-----------------------------------------------------------------------------
\* Worker w makes its next access, which is "op".
Make(w, op) ==
    /\ todo[w] # <<>>
    /\ Head(todo[w]).op = op
    /\ todo' = [todo EXCEPT ![w] = Tail(@)]
    /\ UNCHANGED <<clock, ops>>

Operand(w) == Head(todo[w]).v

ZeroFails(w) ==
    /\ Make(w, "zero_fails")
    /\ fails' = 0
    /\ UNCHANGED <<bannedUntil, succs, avg, transportFatal, local, samples, seen>>

IncFails(w) ==
    /\ Make(w, "inc_fails")
    /\ fails' = fails + 1
    /\ UNCHANGED <<bannedUntil, succs, avg, transportFatal, local, samples, seen>>

ZeroSuccs(w) ==
    /\ Make(w, "zero_succs")
    /\ succs' = 0
    /\ UNCHANGED <<bannedUntil, fails, avg, transportFatal, local, samples, seen>>

IncSuccs(w) ==
    /\ Make(w, "inc_succs")
    /\ succs' = succs + 1
    /\ UNCHANGED <<bannedUntil, fails, avg, transportFatal, local, samples, seen>>

LoadAvg(w) ==
    /\ \/ Make(w, "load_avg") /\ seen' = seen
       \/ /\ Make(w, "load_avg_failed")
          /\ seen' = seen \cup IF avg = 0 THEN {"cold_failure"} ELSE {}
    /\ newAvg' = [newAvg EXCEPT ![w] = BlendLatency(avg, Operand(w))]
    /\ samples' = samples \cup {Operand(w)}
    /\ UNCHANGED <<shared, newUntil>>

StoreAvg(w) ==
    /\ Make(w, "store_avg")
    /\ avg' = newAvg[w]
    /\ UNCHANGED <<bannedUntil, fails, succs, transportFatal, local, samples, seen>>

ReadClock(w) ==
    /\ Make(w, "read_clock")
    /\ newUntil' = [newUntil EXCEPT ![w] = BanExpiry(clock, Operand(w))]
    /\ UNCHANGED <<shared, newAvg, samples, seen>>

StoreUntil(w) ==
    /\ Make(w, "store_until")
    /\ bannedUntil' = newUntil[w]
    /\ UNCHANGED <<fails, succs, avg, transportFatal, local, samples, seen>>

StoreForever(w) ==
    /\ Make(w, "store_forever")
    /\ bannedUntil' = Forever
    /\ UNCHANGED <<fails, succs, avg, transportFatal, local, samples, seen>>

ZeroUntil(w) ==
    /\ Make(w, "zero_until")
    /\ bannedUntil' = 0
    /\ UNCHANGED <<fails, succs, avg, transportFatal, local, samples, seen>>

SetFatal(w) ==
    /\ Make(w, "set_fatal")
    /\ transportFatal' = TRUE
    /\ UNCHANGED <<bannedUntil, fails, succs, avg, local, samples, seen>>

ClearFatal(w) ==
    /\ Make(w, "clear_fatal")
    /\ transportFatal' = FALSE
    /\ UNCHANGED <<bannedUntil, fails, succs, avg, local, samples, seen>>

-----------------------------------------------------------------------------
Begin(w) ==
    \/ Success(w) \/ RecoverySuccess(w)
    \/ TransportError(w) \/ RetryOther(w) \/ SoftFailure(w) \/ HardFail(w)
    \/ ProbeRestores(w) \/ ProbeGiveUp(w) \/ TransportReply(w)

Step(w) ==
    \/ ZeroFails(w) \/ IncFails(w) \/ ZeroSuccs(w) \/ IncSuccs(w)
    \/ LoadAvg(w) \/ StoreAvg(w)
    \/ ReadClock(w) \/ StoreUntil(w) \/ StoreForever(w) \/ ZeroUntil(w)
    \/ SetFatal(w) \/ ClearFatal(w)

PairNext == Tick \/ \E w \in Worker : Begin(w) \/ Step(w)

PairSpec == PairInit /\ [][PairNext]_pairVars

-----------------------------------------------------------------------------
AccessNames == {"zero_fails", "inc_fails", "zero_succs", "inc_succs",
                "load_avg", "load_avg_failed", "store_avg",
                "read_clock", "store_until", "store_forever", "zero_until",
                "set_fatal", "clear_fatal"}

AccessType == [op : AccessNames, v : Nat]

\* Every field and every register keeps its type.
PairTypeOK ==
    /\ clock \in Nat /\ bannedUntil \in Nat /\ fails \in Nat /\ succs \in Nat /\ avg \in Nat
    /\ transportFatal \in BOOLEAN
    /\ todo \in [Worker -> Seq(AccessType)]
    /\ newAvg \in [Worker -> Nat] /\ newUntil \in [Worker -> Nat]
    /\ ops \in Nat
    /\ samples \subseteq Nat /\ seen \subseteq Evidence

\* An average of 0 is none; any other lies between two of the samples of S.
Within(a, S) == a # 0 => \E s, t \in S : s <= a /\ a <= t

\* blend_latency is a load and a store: samples of concurrent tasks are lost and
\* land late, but what is left is never below the smallest nor above the largest
\* sample that was blended in.
AvgWithinSamples == Within(avg, samples)

\* A proxy is slow only if it was: some response took longer than slow_ms, or
\* its first measurement was a failed response.  Failures that answer quickly
\* never make a measured proxy slow, however many there are, because the
\* integer average of slow_ms or less with slow_ms + 1 rounds down.
SlowNeedsEvidence == avg > SlowMs => seen \cap {"slow_sample", "cold_failure"} # {}

\* A ban computed from an old clock and stored late is never longer than the
\* longest ban asked for, counted from now; only give_up_route bans for good.
BanWithinHorizon ==
    \/ bannedUntil <= clock + MaxBan
    \/ bannedUntil = Forever /\ "give_up_route" \in seen
=============================================================================
