------------------------------ MODULE DnsCheck ------------------------------
(***************************************************************************)
(* The cache of host lookups that serve asks before it tries any upstream  *)
(* (dns.rs, handler.rs).  Many requests use it at a time; the lookup lies  *)
(* between reading the cache and writing it.                               *)
(*                                                                         *)
(* The resolver answers what was true at some moment of the lookup, or     *)
(* fails.                                                                  *)
(***************************************************************************)
EXTENDS Integers, FiniteSets

CONSTANTS
    Task,           \* requests at a time
    Host,           \* names
    Literal,        \* IP addresses and the empty name, which are not looked up
    FoundTtl,       \* FOUND_TTL
    MissingTtl,     \* MISSING_TTL
    MaxHosts,       \* MAX_HOSTS
    Horizon,        \* the clock stops here
    MaxChanges,     \* hosts that get or lose their address in a behaviour
    None            \* no host

ASSUME DnsCheckAssumption ==
    /\ FoundTtl \in Nat \ {0} /\ MissingTtl \in Nat \ {0}
    /\ MaxHosts \in Nat \ {0} /\ Horizon \in Nat /\ MaxChanges \in Nat
    /\ None \notin Host \cup Literal
    /\ IsFiniteSet(Task) /\ Task # {}

VARIABLES
    now,            \* the clock
    known,          \* DnsCheck.known: for some hosts [result, until]
    pc,             \* idle, lookup, store, insert, answered
    host,           \* what the task asks about, or None
    asked,          \* the clock it has read
    result,         \* what the lookup found, a Result
    missing,        \* its answer: a Result, or unknown
    resolves,       \* environment: the hosts that have an address
    lastTime,       \* history: when each host was last found, and missing
    changes         \* history: hosts that got or lost theirs

table == <<now, known>>
task == <<pc, host, asked, result, missing>>
network == <<resolves, lastTime, changes>>
vars == <<table, task, network>>

\* The boolean of the code: the host has an address, or it has none.
Result == {"found", "missing"}

\* What the resolver can say of a host now.
Truth(h) == IF h \in resolves THEN "found" ELSE "missing"

Never == -(FoundTtl + MissingTtl)

Init ==
    /\ now = 0
    /\ known = [h \in {} |-> 0]
    /\ pc = [t \in Task |-> "idle"]
    /\ host = [t \in Task |-> None]
    /\ asked = [t \in Task |-> 0]
    /\ result = [t \in Task |-> "missing"]
    /\ missing = [t \in Task |-> "unknown"]
    /\ resolves \in SUBSET Host
    /\ lastTime = [h \in Host |-> [r \in Result |-> IF r = Truth(h) THEN 0 ELSE Never]]
    /\ changes = 0

-----------------------------------------------------------------------------
Answer(t, a) ==
    /\ pc' = [pc EXCEPT ![t] = "answered"]
    /\ missing' = [missing EXCEPT ![t] = a]

\* Mutant of Cached: an entry counts for ever.
CachedForEver(h) == h \in DOMAIN known

\* There is an entry that has not run out.
Cached(h) == h \in DOMAIN known /\ known[h].until > now

NotLookedUp(h) == h \in Literal

\* missing reads the clock and the cache.
Ask(t, h) ==
    /\ pc[t] = "idle"
    /\ host' = [host EXCEPT ![t] = h]
    /\ asked' = [asked EXCEPT ![t] = now]
    /\ IF NotLookedUp(h)
       THEN Answer(t, "unknown")
       ELSE IF Cached(h)
       THEN Answer(t, known[h].result)
       ELSE pc' = [pc EXCEPT ![t] = "lookup"] /\ UNCHANGED missing
    /\ UNCHANGED <<table, result, network>>

\* The resolver says what is so, and the lookup ends later.
Lookup(t) ==
    /\ pc[t] = "lookup"
    /\ result' = [result EXCEPT ![t] = Truth(host[t])]
    /\ pc' = [pc EXCEPT ![t] = "store"]
    /\ UNCHANGED <<table, host, asked, missing, network>>

\* The lookup fails, so nothing is known.
LookupFails(t) ==
    /\ pc[t] = "lookup"
    /\ Answer(t, "unknown")
    /\ UNCHANGED <<table, host, asked, result, network>>

\* Mutant of MakeRoom: the table may be full.
MakeRoomLate(t) ==
    /\ pc[t] = "store"
    /\ known' = IF Cardinality(DOMAIN known) > MaxHosts THEN [h \in {} |-> 0] ELSE known
    /\ pc' = [pc EXCEPT ![t] = "insert"]
    /\ UNCHANGED <<now, host, asked, result, missing, network>>

\* A full table is cleared.
MakeRoom(t) ==
    /\ pc[t] = "store"
    /\ known' = IF Cardinality(DOMAIN known) >= MaxHosts THEN [h \in {} |-> 0] ELSE known
    /\ pc' = [pc EXCEPT ![t] = "insert"]
    /\ UNCHANGED <<now, host, asked, result, missing, network>>

Ttl(r) == IF r = "found" THEN FoundTtl ELSE MissingTtl

\* Mutant of Until: the lifetime counts from the end of the lookup.
UntilFromNow(t) == now + Ttl(result[t])

\* The lifetime of what task t has found counts from before the lookup.
Until(t) == asked[t] + Ttl(result[t])

\* The result goes into the table, over whatever is there by now.
Insert(t) ==
    /\ pc[t] = "insert"
    /\ known' = [h \in DOMAIN known \cup {host[t]} |->
                    IF h = host[t] THEN [result |-> result[t], until |-> Until(t)]
                    ELSE known[h]]
    /\ Answer(t, result[t])
    /\ UNCHANGED <<now, host, asked, result, network>>

\* serve answers 502 or goes on; what it knew is gone.
Leave(t) ==
    /\ pc[t] = "answered"
    /\ pc' = [pc EXCEPT ![t] = "idle"]
    /\ missing' = [missing EXCEPT ![t] = "unknown"]
    /\ result' = [result EXCEPT ![t] = "missing"]
    /\ host' = [host EXCEPT ![t] = None] /\ asked' = [asked EXCEPT ![t] = 0]
    /\ UNCHANGED <<table, network>>

ClockTick ==
    /\ now < Horizon
    /\ now' = now + 1
    /\ lastTime' = [h \in Host |-> [lastTime[h] EXCEPT ![Truth(h)] = now + 1]]
    /\ UNCHANGED <<known, task, resolves, changes>>

\* A host gets an address, or loses it.
HostChanges(h) ==
    /\ changes < MaxChanges /\ changes' = changes + 1
    /\ resolves' = IF h \in resolves THEN resolves \ {h} ELSE resolves \cup {h}
    /\ lastTime' = [lastTime EXCEPT ![h] = [@ EXCEPT ![Truth(h)'] = now]]
    /\ UNCHANGED <<table, task>>

Next ==
    \/ \E t \in Task : \/ \E h \in Host \cup Literal : Ask(t, h)
                       \/ Lookup(t) \/ LookupFails(t)
                       \/ MakeRoom(t) \/ Insert(t) \/ Leave(t)
    \/ ClockTick
    \/ \E h \in Host : HostChanges(h)

Spec == Init /\ [][Next]_vars

-----------------------------------------------------------------------------
TypeOK ==
    /\ now \in 0..Horizon
    /\ DOMAIN known \subseteq Host
    /\ \A h \in DOMAIN known :
          known[h].result \in Result /\ known[h].until \in 0..(now + FoundTtl + MissingTtl)
    /\ pc \in [Task -> {"idle", "lookup", "store", "insert", "answered"}]
    /\ host \in [Task -> Host \cup Literal \cup {None}]
    /\ asked \in [Task -> 0..now]
    /\ result \in [Task -> Result]
    /\ missing \in [Task -> Result \cup {"unknown"}]
    /\ resolves \subseteq Host
    /\ lastTime \in [Host -> [Result -> Never..now]]
    /\ changes \in 0..MaxChanges

\* README, "Dead DNS": a request is refused only if its host had no address at
\* some moment of the last MISSING_TTL, however long lookups took and in
\* whatever order their results were stored; a failed lookup refuses nothing.
RefusedOnlyIfMissing ==
    \A t \in Task : missing[t] = "missing" =>
        lastTime[host[t]]["missing"] > asked[t] - MissingTtl

\* A host that has been dead for FOUND_TTL is not passed as resolving.
PassedOnlyIfFound ==
    \A t \in Task : missing[t] = "found" =>
        lastTime[host[t]]["found"] > asked[t] - FoundTtl

\* MAX_HOSTS bounds the table but for the tasks that have passed the check of
\* its size together.
TableIsBounded == Cardinality(DOMAIN known) < MaxHosts + Cardinality(Task)
=============================================================================
