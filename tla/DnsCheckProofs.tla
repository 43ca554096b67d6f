--------------------------- MODULE DnsCheckProofs ---------------------------
(***************************************************************************)
(* Proofs about DnsCheck, for any number of requests and hosts and any     *)
(* lifetimes: an answer from the cache, or from a lookup that took long,   *)
(* is never older than its lifetime, and the table is bounded.             *)
(***************************************************************************)
EXTENDS DnsCheck, FiniteSetTheorems, TLAPS

-----------------------------------------------------------------------------
\* The history is up to date: what is so now was so at this moment.
UpToDate == \A h \in Host : lastTime[h][Truth(h)] = now

\* Only names are looked up.
Looking == \A t \in Task : pc[t] \in {"lookup", "store", "insert"} => host[t] \in Host

\* What a lookup found was so after the clock was read.
Found ==
    \A t \in Task : pc[t] \in {"store", "insert"} => lastTime[host[t]][result[t]] >= asked[t]

\* An entry runs out at the latest when its lifetime has passed since it was so.
Fresh ==
    \A h \in DOMAIN known :
        known[h].until <= lastTime[h][known[h].result] + Ttl(known[h].result)

\* So does an answer.
Right ==
    \A t \in Task : missing[t] # "unknown" =>
        /\ pc[t] = "answered" /\ host[t] \in Host
        /\ lastTime[host[t]][missing[t]] > asked[t] - Ttl(missing[t])

\* The tasks that have checked the size and not yet inserted.
Inserting == {t \in Task : pc[t] = "insert"}

\* With theirs the table has no more entries than the bound allows.
Room ==
    /\ IsFiniteSet(DOMAIN known)
    /\ Cardinality(DOMAIN known) + Cardinality(Inserting) < MaxHosts + Cardinality(Task)

IInv == TypeOK /\ UpToDate /\ Looking /\ Found /\ Fresh /\ Right /\ Room

-----------------------------------------------------------------------------
\* The lifetimes are positive, and the sets of tasks finite.
LEMMA Constants ==
    /\ \A r \in Result : Ttl(r) \in Nat \ {0} /\ Ttl(r) <= FoundTtl + MissingTtl
    /\ "found" \in Result /\ "missing" \in Result /\ "unknown" \notin Result
    /\ Never \in Int /\ Never <= 0
    /\ MaxHosts \in Nat \ {0} /\ Horizon \in Nat /\ MaxChanges \in Nat
    /\ FoundTtl \in Nat /\ MissingTtl \in Nat
BY DnsCheckAssumption DEF Ttl, Result, Never

LEMMA TasksFinite ==
    ASSUME NEW S \in SUBSET Task
    PROVE  IsFiniteSet(S) /\ Cardinality(S) \in Nat /\ Cardinality(S) <= Cardinality(Task)
           /\ Cardinality(Task) \in Nat \ {0}
BY DnsCheckAssumption, FS_Subset, FS_CardinalityType, FS_EmptySet

LEMMA TruthType == ASSUME NEW h PROVE Truth(h) \in Result
BY DEF Truth, Result

\* The initial states satisfy the invariant.
LEMMA Initially == Init => IInv
<1> SUFFICES ASSUME Init PROVE IInv
    OBVIOUS
<1>1. DOMAIN known = {}
    BY DEF Init
<1>2. TypeOK
    BY <1>1, Constants, TruthType DEF Init, TypeOK, Result
<1>3. UpToDate
    BY TruthType DEF Init, UpToDate
<1>4. Looking /\ Found /\ Right
    BY DEF Init, Looking, Found, Right
<1>5. Fresh
    BY <1>1 DEF Fresh
<1>6. Inserting = {}
    BY DEF Init, Inserting
<1>7. Room
    <2>1. Cardinality({}) = 0 /\ IsFiniteSet({})
        BY FS_EmptySet
    <2> QED
        BY <1>1, <1>6, <2>1, TasksFinite, Constants DEF Room
<1> QED
    BY <1>2, <1>3, <1>4, <1>5, <1>7 DEF IInv

-----------------------------------------------------------------------------
\* Time and the hosts: the history only grows, and what tasks and table hold
\* stays right.
LEMMA HistoryGrows ==
    ASSUME IInv, now' \in 0..Horizon, now <= now', UNCHANGED <<known, task>>,
           resolves' \subseteq Host, changes' \in 0..MaxChanges,
           lastTime' \in [Host -> [Result -> Never..now']],
           \A h \in Host, r \in Result : lastTime[h][r] <= lastTime'[h][r],
           UpToDate'
    PROVE  IInv'
<1> USE DEF task
<1>0. now \in Nat /\ now' \in Nat
    BY Constants DEF IInv, TypeOK
<1>1. TypeOK'
    <2>1. asked' \in [Task -> 0..now']
        BY <1>0 DEF IInv, TypeOK
    <2>2. \A h \in DOMAIN known : known[h].until \in 0..(now' + FoundTtl + MissingTtl)
        BY <1>0, Constants DEF IInv, TypeOK
    <2> QED
        BY <2>1, <2>2 DEF IInv, TypeOK
<1> DEFINE Grown(h, r) == lastTime[h][r] \in Int /\ lastTime'[h][r] \in Int
                           /\ lastTime[h][r] <= lastTime'[h][r]
<1>2. \A h \in Host, r \in Result : Grown(h, r)
    BY <1>0, Constants DEF IInv, TypeOK
<1>3. Looking'
    BY DEF IInv, Looking
<1>4. Found'
    <2> SUFFICES ASSUME NEW t \in Task, pc[t] \in {"store", "insert"}
                 PROVE  lastTime'[host[t]][result[t]] >= asked[t]
        BY DEF Found
    <2>1. host[t] \in Host /\ result[t] \in Result /\ asked[t] \in Nat
        BY <1>0 DEF IInv, Looking, TypeOK
    <2>2. lastTime[host[t]][result[t]] >= asked[t]
        BY DEF IInv, Found
    <2> QED
        BY <1>2, <2>1, <2>2
<1>5. Fresh'
    <2> SUFFICES ASSUME NEW h \in DOMAIN known
                 PROVE  known[h].until <= lastTime'[h][known[h].result] + Ttl(known[h].result)
        BY DEF Fresh, Ttl
    <2>1. h \in Host /\ known[h].result \in Result /\ known[h].until \in Int
        BY <1>0, Constants DEF IInv, TypeOK
    <2>2. known[h].until <= lastTime[h][known[h].result] + Ttl(known[h].result)
        BY DEF IInv, Fresh
    <2> QED
        BY <1>2, <2>1, <2>2, Constants
<1>6. Right'
    <2> SUFFICES ASSUME NEW t \in Task, missing[t] # "unknown"
                 PROVE  /\ pc[t] = "answered" /\ host[t] \in Host
                        /\ lastTime'[host[t]][missing[t]] > asked[t] - Ttl(missing[t])
        BY DEF Right, Ttl
    <2>1. missing[t] \in Result /\ asked[t] \in Nat
        BY <1>0 DEF IInv, TypeOK
    <2>2. /\ pc[t] = "answered" /\ host[t] \in Host
          /\ lastTime[host[t]][missing[t]] > asked[t] - Ttl(missing[t])
        BY DEF IInv, Right
    <2> QED
        BY <1>2, <2>1, <2>2, Constants
<1>7. Room'
    BY DEF IInv, Room, Inserting
<1> QED
    BY <1>1, <1>3, <1>4, <1>5, <1>6, <1>7 DEF IInv

LEMMA ClockTickKeeps == ASSUME IInv, ClockTick PROVE IInv'
<1>0. now \in Nat /\ now' = now + 1 /\ now' \in 0..Horizon
    BY Constants DEF IInv, TypeOK, ClockTick
<1>1. lastTime' = [h \in Host |-> [lastTime[h] EXCEPT ![Truth(h)] = now + 1]]
    BY DEF ClockTick
<1>2. lastTime \in [Host -> [Result -> Never..now]]
    BY DEF IInv, TypeOK
<1>3. \A h \in Host, r \in Result :
          lastTime[h][r] \in Never..now
          /\ lastTime'[h][r] = IF r = Truth(h) THEN now + 1 ELSE lastTime[h][r]
    BY <1>1, <1>2
<1>4. \A h \in Host, r \in Result : lastTime[h][r] <= lastTime'[h][r]
    BY <1>0, <1>3, Constants
<1>5. lastTime' \in [Host -> [Result -> Never..now']]
    <2>1. \A h \in Host : [lastTime[h] EXCEPT ![Truth(h)] = now + 1] \in [Result -> Never..now']
        <3> SUFFICES ASSUME NEW h \in Host
                     PROVE  [lastTime[h] EXCEPT ![Truth(h)] = now + 1] \in [Result -> Never..now']
            OBVIOUS
        <3>1. lastTime[h] \in [Result -> Never..now] /\ now + 1 \in Never..now'
              /\ Never..now \subseteq Never..now'
            BY <1>0, <1>2, Constants
        <3> QED
            BY <3>1
    <2> QED
        BY <1>1, <2>1
<1>6. UpToDate'
    <2>1. \A h : Truth(h)' = Truth(h)
        BY DEF ClockTick, Truth
    <2> QED
        BY <1>0, <1>3, <2>1, TruthType DEF UpToDate
<1> QED
    BY <1>0, <1>4, <1>5, <1>6, HistoryGrows DEF ClockTick, IInv, TypeOK

LEMMA HostChangesKeeps == ASSUME IInv, NEW g \in Host, HostChanges(g) PROVE IInv'
<1>0. now \in Nat /\ now' = now /\ now \in 0..Horizon
    BY Constants DEF IInv, TypeOK, HostChanges, table
<1>1. lastTime' = [lastTime EXCEPT ![g] = [@ EXCEPT ![Truth(g)'] = now]]
    BY DEF HostChanges
<1>2. lastTime \in [Host -> [Result -> Never..now]]
    BY DEF IInv, TypeOK
<1>3. Truth(g)' \in Result
    BY DEF Truth, Result
<1>4. \A h \in Host, r \in Result :
          lastTime[h][r] \in Never..now
          /\ lastTime'[h][r] = IF h = g /\ r = Truth(g)' THEN now ELSE lastTime[h][r]
    BY <1>1, <1>2
<1>5. \A h \in Host, r \in Result : lastTime[h][r] <= lastTime'[h][r]
    BY <1>0, <1>4, Constants
<1>6. lastTime' \in [Host -> [Result -> Never..now']]
    BY <1>0, <1>1, <1>2, <1>3, Constants
<1>7. UpToDate'
    <2>1. \A h \in Host \ {g} : Truth(h)' = Truth(h)
        BY DEF HostChanges, Truth
    <2>2. \A h \in Host : lastTime[h][Truth(h)] = now
        BY DEF IInv, UpToDate
    <2> QED
        BY <1>0, <1>3, <1>4, <2>1, <2>2, TruthType DEF UpToDate
<1>8. resolves' \subseteq Host /\ changes' \in 0..MaxChanges /\ UNCHANGED <<known, task>>
    BY Constants DEF IInv, TypeOK, HostChanges, table
<1> QED
    BY <1>0, <1>5, <1>6, <1>7, <1>8, HistoryGrows

-----------------------------------------------------------------------------
\* A step of a task leaves time and hosts alone.
LEMMA TaskStep ==
    ASSUME IInv, UNCHANGED <<now, network>>
    PROVE  /\ UpToDate'
           /\ now' = now /\ lastTime' = lastTime
           /\ now \in 0..Horizon /\ now \in Nat
           /\ lastTime \in [Host -> [Result -> Never..now]]
           /\ \A h \in Host, r \in Result : lastTime[h][r] \in Int
           /\ resolves' \subseteq Host /\ changes' \in 0..MaxChanges
BY Constants DEF IInv, TypeOK, UpToDate, Truth, network

\* Leaving "insert" or staying out of it makes no more room necessary.
LEMMA SameRoom ==
    ASSUME IInv, UNCHANGED known, Inserting' \subseteq Inserting
    PROVE  Room'
<1>1. Inserting \in SUBSET Task /\ Inserting' \in SUBSET Task
    BY DEF Inserting
<1>2. IsFiniteSet(Inserting) /\ Cardinality(Inserting) \in Nat /\ Cardinality(Inserting') \in Nat
    BY <1>1, TasksFinite
<1>3. Cardinality(Inserting') <= Cardinality(Inserting)
    BY <1>2, FS_Subset
<1>4. Cardinality(DOMAIN known) \in Nat
    BY FS_CardinalityType DEF IInv, Room
<1> QED
    BY <1>2, <1>3, <1>4, TasksFinite, Constants DEF IInv, Room

LEMMA AskKeeps ==
    ASSUME IInv, NEW t \in Task, NEW h \in Host \cup Literal, Ask(t, h)
    PROVE  IInv'
<1>0. UNCHANGED <<now, known, result, network>>
    BY DEF Ask, table
<1>1. /\ UpToDate' /\ now \in Nat /\ lastTime' = lastTime
      /\ \A g \in Host, r \in Result : lastTime[g][r] \in Int
    BY <1>0, TaskStep
<1>2. /\ host' = [host EXCEPT ![t] = h] /\ asked' = [asked EXCEPT ![t] = now]
      /\ \/ h \in Literal /\ Answer(t, "unknown")
         \/ h \in Host /\ Cached(h) /\ Answer(t, known[h].result)
         \/ h \in Host /\ pc' = [pc EXCEPT ![t] = "lookup"] /\ UNCHANGED missing
    BY DEF Ask, NotLookedUp
<1>3. \A u \in Task \ {t} : pc'[u] = pc[u] /\ host'[u] = host[u] /\ asked'[u] = asked[u]
                            /\ missing'[u] = missing[u] /\ result'[u] = result[u]
    BY <1>0, <1>2 DEF Answer, IInv, TypeOK
<1>4. host'[t] = h /\ asked'[t] = now
    BY <1>2 DEF IInv, TypeOK
<1>5. /\ pc'[t] \in {"lookup", "answered"} /\ (pc'[t] = "lookup" => h \in Host)
      /\ pc' \in [Task -> {"idle", "lookup", "store", "insert", "answered"}]
    BY <1>2 DEF Answer, IInv, TypeOK
<1>6. Cached(h) => h \in DOMAIN known /\ known[h].result \in Result /\ known[h].until > now
                   /\ known[h].until \in Int
    BY <1>1, Constants DEF IInv, TypeOK, Cached
<1>7. missing' \in [Task -> Result \cup {"unknown"}]
    BY <1>2, <1>6 DEF IInv, TypeOK, Answer
<1>8. TypeOK'
    <2>1. host' \in [Task -> Host \cup Literal \cup {None}]
        BY <1>2 DEF IInv, TypeOK
    <2>2. asked' \in [Task -> 0..now']
        BY <1>0, <1>1, <1>2 DEF IInv, TypeOK
    <2> QED
        BY <1>0, <1>5, <1>7, <2>1, <2>2, TaskStep DEF IInv, TypeOK
<1>9. Looking' /\ Found'
    BY <1>0, <1>1, <1>3, <1>4, <1>5 DEF IInv, Looking, Found
<1>10. Fresh'
    BY <1>0, <1>1 DEF IInv, Fresh, Ttl
<1>11. Right'
    <2>1. \A u \in Task \ {t} : missing'[u] # "unknown" =>
              /\ pc'[u] = "answered" /\ host'[u] \in Host
              /\ lastTime[host'[u]][missing'[u]] > asked'[u] - Ttl(missing'[u])
        BY <1>3 DEF IInv, Right
    <2>2. missing'[t] # "unknown" =>
              /\ pc'[t] = "answered" /\ h \in Host
              /\ lastTime[h][missing'[t]] > now - Ttl(missing'[t])
        <3>1. CASE Cached(h) /\ h \in Host /\ Answer(t, known[h].result)
            <4>1. known[h].until <= lastTime[h][known[h].result] + Ttl(known[h].result)
                BY <1>6, <3>1 DEF IInv, Fresh
            <4>2. missing'[t] = known[h].result /\ pc'[t] = "answered"
                BY <3>1 DEF Answer, IInv, TypeOK
            <4> QED
                BY <1>1, <1>6, <3>1, <4>1, <4>2, Constants
        <3>2. CASE missing'[t] = "unknown"
            BY <3>2
        <3>3. CASE UNCHANGED missing /\ h \in Host
            <4>1. missing[t] = "unknown"
                BY DEF Ask, IInv, Right
            <4> QED
                BY <3>3, <4>1
        <3> QED
            BY <1>2, <3>1, <3>2, <3>3 DEF Answer, IInv, TypeOK
    <2> QED
        BY <1>1, <1>4, <2>1, <2>2 DEF Right, Ttl
<1>12. Room'
    BY <1>0, <1>3, <1>5, SameRoom DEF Inserting
<1> QED
    BY <1>1, <1>8, <1>9, <1>10, <1>11, <1>12 DEF IInv

LEMMA LookupKeeps == ASSUME IInv, NEW t \in Task, Lookup(t) PROVE IInv'
<1>0. UNCHANGED <<now, known, host, asked, missing, network>>
    BY DEF Lookup, table
<1>1. /\ UpToDate' /\ now \in Nat /\ lastTime' = lastTime
      /\ \A g \in Host, r \in Result : lastTime[g][r] \in Int
    BY <1>0, TaskStep
<1>2. /\ pc[t] = "lookup" /\ host[t] \in Host
      /\ pc' = [pc EXCEPT ![t] = "store"] /\ result' = [result EXCEPT ![t] = Truth(host[t])]
    BY DEF Lookup, IInv, Looking
<1>3. /\ pc'[t] = "store" /\ result'[t] = Truth(host[t])
      /\ \A u \in Task \ {t} : pc'[u] = pc[u] /\ result'[u] = result[u]
    BY <1>2 DEF IInv, TypeOK
<1>4. TypeOK'
    <2>1. /\ pc' \in [Task -> {"idle", "lookup", "store", "insert", "answered"}]
          /\ result' \in [Task -> Result]
        BY <1>2, TruthType DEF IInv, TypeOK
    <2> QED
        BY <1>0, <2>1, TaskStep DEF IInv, TypeOK
<1>5. Looking'
    BY <1>0, <1>2, <1>3 DEF IInv, Looking
<1>6. Found'
    <2>1. lastTime[host[t]][Truth(host[t])] >= asked[t]
        BY <1>1, <1>2 DEF IInv, UpToDate, TypeOK
    <2> QED
        BY <1>0, <1>1, <1>3, <2>1 DEF IInv, Found
<1>7. Fresh'
    BY <1>0, <1>1 DEF IInv, Fresh, Ttl
<1>8. Right'
    BY <1>0, <1>1, <1>2, <1>3 DEF IInv, Right, Ttl
<1>9. Room'
    BY <1>0, <1>3, SameRoom DEF Inserting
<1> QED
    BY <1>1, <1>4, <1>5, <1>6, <1>7, <1>8, <1>9 DEF IInv

LEMMA LookupFailsKeeps == ASSUME IInv, NEW t \in Task, LookupFails(t) PROVE IInv'
<1>0. UNCHANGED <<now, known, host, asked, result, network>>
    BY DEF LookupFails, table
<1>1. /\ UpToDate' /\ now \in Nat /\ lastTime' = lastTime
    BY <1>0, TaskStep
<1>2. /\ pc' = [pc EXCEPT ![t] = "answered"] /\ missing' = [missing EXCEPT ![t] = "unknown"]
    BY DEF LookupFails, Answer
<1>3. /\ pc'[t] = "answered" /\ missing'[t] = "unknown"
      /\ \A u \in Task \ {t} : pc'[u] = pc[u] /\ missing'[u] = missing[u]
    BY <1>2 DEF IInv, TypeOK
<1>4. TypeOK'
    <2>1. /\ pc' \in [Task -> {"idle", "lookup", "store", "insert", "answered"}]
          /\ missing' \in [Task -> Result \cup {"unknown"}]
        BY <1>2 DEF IInv, TypeOK
    <2> QED
        BY <1>0, <2>1, TaskStep DEF IInv, TypeOK
<1>5. Looking' /\ Found'
    BY <1>0, <1>1, <1>3 DEF IInv, Looking, Found
<1>6. Fresh'
    BY <1>0, <1>1 DEF IInv, Fresh, Ttl
<1>7. Right'
    BY <1>0, <1>1, <1>3 DEF IInv, Right, Ttl
<1>8. Room'
    BY <1>0, <1>3, SameRoom DEF Inserting
<1> QED
    BY <1>1, <1>4, <1>5, <1>6, <1>7, <1>8 DEF IInv

\* A table with room for one leaves room for all tasks that insert.
LEMMA MakeRoomKeeps == ASSUME IInv, NEW t \in Task, MakeRoom(t) PROVE IInv'
<1>0. UNCHANGED <<now, host, asked, result, missing, network>>
    BY DEF MakeRoom
<1>1. /\ UpToDate' /\ now \in Nat /\ lastTime' = lastTime
    BY <1>0, TaskStep
<1>2. /\ pc[t] = "store" /\ pc' = [pc EXCEPT ![t] = "insert"]
      /\ \/ known' = known /\ ~(Cardinality(DOMAIN known) >= MaxHosts)
         \/ known' = [h \in {} |-> 0]
    BY DEF MakeRoom
<1>3. pc'[t] = "insert" /\ \A u \in Task \ {t} : pc'[u] = pc[u]
    BY <1>2 DEF IInv, TypeOK
<1>4. TypeOK'
    <2>1. pc' \in [Task -> {"idle", "lookup", "store", "insert", "answered"}]
        BY <1>2 DEF IInv, TypeOK
    <2> QED
        BY <1>0, <1>2, <2>1, TaskStep DEF IInv, TypeOK
<1>5. Looking' /\ Found'
    BY <1>0, <1>1, <1>2, <1>3 DEF IInv, Looking, Found
<1>6. Fresh'
    BY <1>1, <1>2 DEF IInv, Fresh, Ttl
<1>7. Right'
    BY <1>0, <1>1, <1>2, <1>3 DEF IInv, Right, Ttl
<1>8. Room'
    <2>1. /\ Cardinality(Inserting') \in Nat
          /\ Cardinality(Inserting') <= Cardinality(Task) /\ Cardinality(Task) \in Nat
        BY TasksFinite DEF Inserting
    <2>2. IsFiniteSet(DOMAIN known) /\ Cardinality(DOMAIN known) \in Nat
        BY FS_CardinalityType DEF IInv, Room
    <2>3. IsFiniteSet(DOMAIN known') /\ Cardinality(DOMAIN known') < MaxHosts
          /\ Cardinality(DOMAIN known') \in Nat
        BY <1>2, <2>2, FS_EmptySet, Constants
    <2> QED
        BY <2>1, <2>3, Constants DEF Room
<1> QED
    BY <1>1, <1>4, <1>5, <1>6, <1>7, <1>8 DEF IInv

LEMMA InsertKeeps == ASSUME IInv, NEW t \in Task, Insert(t) PROVE IInv'
<1>0. UNCHANGED <<now, host, asked, result, network>>
    BY DEF Insert
<1>1. /\ UpToDate' /\ now \in Nat /\ now' = now /\ lastTime' = lastTime
      /\ \A g \in Host, r \in Result : lastTime[g][r] \in Int
    BY <1>0, TaskStep
<1> DEFINE h == host[t]
           e == [result |-> result[t], until |-> Until(t)]
<1>2. /\ pc[t] = "insert" /\ pc' = [pc EXCEPT ![t] = "answered"]
      /\ missing' = [missing EXCEPT ![t] = result[t]]
      /\ known' = [g \in DOMAIN known \cup {h} |-> IF g = h THEN e ELSE known[g]]
    BY DEF Insert, Answer
<1>3. h \in Host /\ result[t] \in Result /\ asked[t] \in 0..now
      /\ lastTime[h][result[t]] >= asked[t]
    BY <1>2 DEF IInv, TypeOK, Looking, Found
<1>4. /\ pc'[t] = "answered" /\ missing'[t] = result[t]
      /\ \A u \in Task \ {t} : pc'[u] = pc[u] /\ missing'[u] = missing[u]
    BY <1>2 DEF IInv, TypeOK
<1>5. Ttl(result[t]) \in Nat \ {0} /\ Ttl(result[t]) <= FoundTtl + MissingTtl
    BY <1>3, Constants
<1>6. /\ e.result = result[t] /\ e.until = asked[t] + Ttl(result[t])
      /\ e.until \in 0..(now + FoundTtl + MissingTtl)
    BY <1>1, <1>3, <1>5, Constants DEF Until
<1>7. DOMAIN known' = DOMAIN known \cup {h}
      /\ known'[h] = e /\ \A g \in DOMAIN known \ {h} : known'[g] = known[g]
    BY <1>2
<1> HIDE DEF e
<1>8. TypeOK'
    <2>1. /\ pc' \in [Task -> {"idle", "lookup", "store", "insert", "answered"}]
          /\ missing' \in [Task -> Result \cup {"unknown"}]
        BY <1>2, <1>3 DEF IInv, TypeOK
    <2>2. \A g \in DOMAIN known' :
              known'[g].result \in Result /\ known'[g].until \in 0..(now + FoundTtl + MissingTtl)
        BY <1>3, <1>6, <1>7 DEF IInv, TypeOK
    <2>3. DOMAIN known' \subseteq Host
        BY <1>3, <1>7 DEF IInv, TypeOK
    <2> QED
        BY <1>0, <1>1, <2>1, <2>2, <2>3, TaskStep DEF IInv, TypeOK
<1>9. Looking' /\ Found'
    BY <1>0, <1>1, <1>4 DEF IInv, Looking, Found
<1>10. Fresh'
    <2> SUFFICES ASSUME NEW g \in DOMAIN known'
                 PROVE  known'[g].until <= lastTime[g][known'[g].result] + Ttl(known'[g].result)
        BY <1>1 DEF Fresh, Ttl
    <2>1. CASE g = h
        BY <1>1, <1>3, <1>5, <1>6, <1>7, <2>1
    <2>2. CASE g # h
        BY <1>7, <2>2 DEF IInv, Fresh
    <2> QED
        BY <2>1, <2>2
<1>11. Right'
    <2>1. lastTime[h][result[t]] > asked[t] - Ttl(result[t])
        BY <1>1, <1>3, <1>5
    <2> QED
        BY <1>0, <1>1, <1>3, <1>4, <2>1 DEF IInv, Right, Ttl
<1>12. Room'
    <2>1. Inserting' = Inserting \ {t} /\ t \in Inserting
        BY <1>2, <1>4 DEF Inserting
    <2>2. IsFiniteSet(Inserting) /\ Cardinality(Inserting) \in Nat
        BY TasksFinite DEF Inserting
    <2>3. Cardinality(Inserting') = Cardinality(Inserting) - 1
        BY <2>1, <2>2, FS_RemoveElement
    <2>4. IsFiniteSet(DOMAIN known) /\ Cardinality(DOMAIN known) \in Nat
        BY FS_CardinalityType DEF IInv, Room
    <2>5. IsFiniteSet(DOMAIN known') /\ Cardinality(DOMAIN known') <= Cardinality(DOMAIN known) + 1
          /\ Cardinality(DOMAIN known') \in Nat
        <3>1. CASE h \in DOMAIN known
            <4>1. DOMAIN known' = DOMAIN known
                BY <1>7, <3>1
            <4> QED
                BY <2>4, <4>1
        <3>2. CASE h \notin DOMAIN known
            <4> DEFINE D == DOMAIN known
            <4>1. IsFiniteSet(D) /\ Cardinality(D) \in Nat /\ h \notin D
                BY <2>4, <3>2
            <4> HIDE DEF D, h
            <4>2. IsFiniteSet(D \cup {h}) /\ Cardinality(D \cup {h}) = Cardinality(D) + 1
                BY <4>1, FS_AddElement
            <4> QED
                BY <1>7, <4>1, <4>2 DEF D
        <3> QED
            BY <3>1, <3>2
    <2> QED
        BY <2>2, <2>3, <2>4, <2>5, TasksFinite, Constants DEF IInv, Room
<1> QED
    BY <1>1, <1>8, <1>9, <1>10, <1>11, <1>12 DEF IInv

LEMMA LeaveKeeps == ASSUME IInv, NEW t \in Task, Leave(t) PROVE IInv'
<1>0. UNCHANGED <<now, known, network>>
    BY DEF Leave, table
<1>1. /\ UpToDate' /\ now \in Nat /\ now' = now /\ lastTime' = lastTime
    BY <1>0, TaskStep
<1>2. /\ pc' = [pc EXCEPT ![t] = "idle"] /\ missing' = [missing EXCEPT ![t] = "unknown"]
      /\ result' = [result EXCEPT ![t] = "missing"]
      /\ host' = [host EXCEPT ![t] = None] /\ asked' = [asked EXCEPT ![t] = 0]
    BY DEF Leave
<1>3. /\ pc'[t] = "idle" /\ missing'[t] = "unknown"
      /\ \A u \in Task \ {t} : pc'[u] = pc[u] /\ missing'[u] = missing[u]
              /\ result'[u] = result[u] /\ host'[u] = host[u] /\ asked'[u] = asked[u]
    BY <1>2 DEF IInv, TypeOK
<1>4. TypeOK'
    <2>1. /\ pc' \in [Task -> {"idle", "lookup", "store", "insert", "answered"}]
          /\ missing' \in [Task -> Result \cup {"unknown"}]
        BY <1>2 DEF IInv, TypeOK
    <2>2. /\ result' \in [Task -> Result] /\ host' \in [Task -> Host \cup Literal \cup {None}]
        BY <1>2, Constants DEF IInv, TypeOK
    <2>3. asked' \in [Task -> 0..now']
        BY <1>1, <1>2 DEF IInv, TypeOK
    <2> QED
        BY <1>0, <2>1, <2>2, <2>3, TaskStep DEF IInv, TypeOK
<1>5. Looking' /\ Found'
    BY <1>0, <1>1, <1>3 DEF IInv, Looking, Found
<1>6. Fresh'
    BY <1>0, <1>1 DEF IInv, Fresh, Ttl
<1>7. Right'
    BY <1>0, <1>1, <1>3 DEF IInv, Right, Ttl
<1>8. Room'
    BY <1>0, <1>3, SameRoom DEF Inserting
<1> QED
    BY <1>1, <1>4, <1>5, <1>6, <1>7, <1>8 DEF IInv

-----------------------------------------------------------------------------
\* The invariant is inductive.
THEOREM Inductive == Spec => []IInv
<1>1. IInv /\ [Next]_vars => IInv'
    <2> SUFFICES ASSUME IInv, [Next]_vars PROVE IInv'
        OBVIOUS
    <2>1. CASE \E t \in Task, h \in Host \cup Literal : Ask(t, h)
        BY <2>1, AskKeeps
    <2>2. CASE \E t \in Task : Lookup(t) \/ LookupFails(t) \/ MakeRoom(t) \/ Insert(t) \/ Leave(t)
        BY <2>2, LookupKeeps, LookupFailsKeeps, MakeRoomKeeps, InsertKeeps, LeaveKeeps
    <2>3. CASE ClockTick
        BY <2>3, ClockTickKeeps
    <2>4. CASE \E h \in Host : HostChanges(h)
        BY <2>4, HostChangesKeeps
    <2>5. CASE UNCHANGED vars
        BY <2>5 DEF vars, table, task, network, IInv, TypeOK, UpToDate, Truth, Looking, Found,
                    Fresh, Ttl, Right, Room, Inserting
    <2> QED
        BY <2>1, <2>2, <2>3, <2>4, <2>5 DEF Next
<1> QED
    BY <1>1, Initially, PTL DEF Spec

\* Clock, table and the locals of the requests keep their types (dns.rs, missing).
THEOREM TypeCorrect == Spec => []TypeOK
<1>1. IInv => TypeOK
    BY DEF IInv
<1> QED
    BY <1>1, Inductive, PTL

\* Whatever the lifetimes, a request is refused only if its host had no address
\* within the last MISSING_TTL before it asked (dns.rs, missing; handler.rs, serve).
THEOREM RefusalsAreFresh == Spec => []RefusedOnlyIfMissing
<1>1. IInv => RefusedOnlyIfMissing
    BY DEF IInv, Right, RefusedOnlyIfMissing, Ttl
<1> QED
    BY <1>1, Inductive, PTL

\* And a host is taken for resolving only if it had an address within the last
\* FOUND_TTL before the request asked.
THEOREM PassesAreFresh == Spec => []PassedOnlyIfFound
<1>1. IInv => PassedOnlyIfFound
    BY DEF IInv, Right, PassedOnlyIfFound, Ttl
<1> QED
    BY <1>1, Inductive, PTL

\* For any number of requests the table holds fewer hosts than MAX_HOSTS and as
\* many more as there are requests (dns.rs, the check of the size and insert).
THEOREM TableBounded == Spec => []TableIsBounded
<1>1. IInv => TableIsBounded
    <2>1. Cardinality(Inserting) \in Nat
        BY TasksFinite DEF Inserting
    <2> QED
        BY <2>1, FS_CardinalityType, TasksFinite, Constants DEF IInv, Room, TableIsBounded
<1> QED
    BY <1>1, Inductive, PTL
=============================================================================
