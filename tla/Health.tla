------------------------------- MODULE Health -------------------------------
(***************************************************************************)
(* The arithmetic of a proxy's health in intermediate-proxy: tiers, the    *)
(* average latency, and when a ban expires.                                *)
(* (intermediate-proxy/src/proxy/entry.rs, RouteState; route/state.rs,     *)
(* entry_tier.)                                                            *)
(***************************************************************************)
EXTENDS Integers

CONSTANTS
    FailStreak,     \* RouteDef.fail_streak: failures in a row before tier failed
    SlowMs,         \* RouteDef.slow_ms: average latency above which a proxy is slow
    Forever         \* u64::MAX, the expiry of a permanent ban

ASSUME HealthAssumption ==
    /\ FailStreak \in Nat
    /\ SlowMs \in Nat
    /\ Forever \in Nat \ {0}

\* An absent latency sample (Option::None) in record_failure.
NoSample == -1

-----------------------------------------------------------------------------
\* Tier, in the order of the derived Ord.
Healthy == 0
Slow    == 1
Failed  == 2
Banned  == 3
Fatal   == 4

Tiers == Healthy..Fatal

\* Mutants of BlendLatency: the weight of the sample is lost; the average
\* rounds up.
BlendUnweighted(avg, sample) ==
    IF avg = 0 THEN sample ELSE sample + (7 * avg) \div 10

BlendRoundsUp(avg, sample) ==
    IF avg = 0 THEN sample ELSE (3 * sample + 7 * avg + 9) \div 10

\* Integer EWMA with weight 3/10; an average of 0 means "never measured".
BlendLatency(avg, sample) ==
    IF avg = 0 THEN sample ELSE (3 * sample + 7 * avg) \div 10

\* What a failure that got as far as a response blends in: at least slow_ms + 1.
FailureSample(latency) == IF latency > SlowMs THEN latency ELSE SlowMs + 1

\* Mutant of BanExpiry: the ban is one unit longer than asked for.
BanExpiryLate(now, ms) == IF now + ms < Forever THEN now + ms + 1 ELSE Forever

\* The expiry ban_for computes: saturating addition.
BanExpiry(now, ms) == IF now + ms < Forever THEN now + ms ELSE Forever

IsBanned(until, now) == until > now

\* The tier a selector sees (entry_tier); the average latency decides last.
EntryTier(isFatal, isBanned, fails, latency) ==
    CASE isFatal -> Fatal
      [] ~isFatal /\ isBanned -> Banned
      [] ~isFatal /\ ~isBanned /\ fails >= FailStreak -> Failed
      [] ~isFatal /\ ~isBanned /\ fails < FailStreak /\ latency > SlowMs -> Slow
      [] OTHER -> Healthy
=============================================================================
